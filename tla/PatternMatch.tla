---------------------------- MODULE PatternMatch ----------------------------
(***************************************************************************)
(* The ClamAV body and logical signatures as values: how a signature line  *)
(* becomes parts and an anchor, how a candidate is verified around its     *)
(* anchor, and when a logical expression holds (src/clamdb/pattern.rs,     *)
(* src/clamdb/logical.rs).  A byte is one of a few representatives, a line *)
(* is the sequence of tokens its hex text spells.                          *)
(***************************************************************************)
EXTENDS Naturals, Sequences, FiniteSets, SequencesExt, FiniteSetsExt

CONSTANTS MinAnchor,        \* MIN_ANCHOR
          MaxAnchor,        \* MAX_ANCHOR
          MinDistinct,      \* MIN_DISTINCT_BYTES
          MinFixed,         \* MIN_FIXED_BYTES
          MinLogicalFixed,  \* MIN_LOGICAL_FIXED_BYTES
          MaxGap,           \* MAX_UNBOUNDED_GAP
          MaxSteps,         \* MAX_VERIFY_STEPS
          GiveUpFactor,     \* the 16 of scan_counting
          MaxSize,          \* bound on file sizes
          None              \* no value

\* A signature fixes a byte or more, and one verification may use up its steps
\* before the scan gives up.
ASSUME PatternAssumption ==
  /\ MinAnchor \in Nat \ {0} /\ MaxAnchor \in Nat /\ MinAnchor <= MaxAnchor
  /\ MinDistinct \in Nat /\ MinFixed \in Nat \ {0} /\ MinLogicalFixed \in Nat \ {0}
  /\ MaxGap \in Nat /\ MaxSteps \in Nat /\ GiveUpFactor \in Nat \ {0}
  /\ MaxSize \in Nat /\ None \notin Nat

\* The bytes told apart: zero, a letter in either case, a digit, a PE's first
\* byte and one that is neither letter nor digit.
Bytes == {"0", "a", "A", "7", "M", "#"}
Wildcard == "??"
Common == {"0", "A"}                       \* byte_weight's cheap ones
Alphanumeric == {"a", "A", "7", "M"}
to_ascii_lowercase(b) == IF b = "A" THEN "a" ELSE b
lowered(text) == [i \in DOMAIN text |-> to_ascii_lowercase(text[i])]

BytesPart(bytes) == [kind |-> "bytes", bytes |-> bytes, min |-> 0, max |-> 0]
Gap(min, max) == [kind |-> "gap", bytes |-> <<>>, min |-> min, max |-> max]
Unbounded == MaxGap + 1                    \* a gap's max of None
Limit(gap) == IF gap.max > MaxGap THEN MaxGap ELSE gap.max

-----------------------------------------------------------------------------
(* From a line to a signature.                                             *)

\* One token of the hex text joins the parts before it: bytes extend a run,
\* adjacent gaps are merged, and unbounded wins.
Join(parts, token) ==
  LET last == parts[Len(parts)]
      init == SubSeq(parts, 1, Len(parts) - 1)
      merged == Gap(last.min + token.min,
                    IF Unbounded \in {last.max, token.max} THEN Unbounded
                    ELSE last.max + token.max)
  IN  IF parts # <<>> /\ last.kind = token.kind
      THEN Append(init, IF token.kind = "bytes" THEN BytesPart(last.bytes \o token.bytes)
                        ELSE merged)
      ELSE Append(parts, token)

\* parse_range
RangeOK(token) == token.kind = "gap" => token.min <= token.max /\ token.min <= MaxGap

\* parse_hex: a `*` at either end says nothing; another gap there, or no bytes
\* at all, is not understood.
Star == Gap(0, Unbounded)
TrimFront(parts) == IF parts # <<>> /\ parts[1] = Star THEN Tail(parts) ELSE parts
TrimBack(parts) == IF parts # <<>> /\ parts[Len(parts)] = Star
                   THEN SubSeq(parts, 1, Len(parts) - 1) ELSE parts
Understood(parts) ==
  IF parts = <<>> THEN None
  ELSE IF parts[1].kind = "gap" \/ parts[Len(parts)].kind = "gap" THEN None ELSE parts
parse_hex(tokens) ==
  IF \E i \in DOMAIN tokens : ~RangeOK(tokens[i]) THEN None
  ELSE Understood(TrimBack(TrimFront(FoldLeft(Join, <<>>, tokens))))

fixed_bytes(parts) ==
  FoldLeft(LAMBDA n, p : n + Cardinality({i \in DOMAIN p.bytes : p.bytes[i] # Wildcard}), 0, parts)

\* A wide run's zeros say nothing.
fixed_bytes_narrow(parts) ==
  LET run == parts[1].bytes
      wide == Len(run) >= 2 /\ \A i \in DOMAIN run : i % 2 = 0 => run[i] = "0"
  IN  IF wide THEN fixed_bytes(parts) \div 2 ELSE fixed_bytes(parts)

\* window_score, doubled: rarity of each byte, and how many differ.
window_score(window) ==
  FoldLeft(LAMBDA n, b : n + IF b \in Common THEN 1 ELSE 3, 0, window)
    + Cardinality({window[i] : i \in DOMAIN window})

\* The windows best_anchor looks at: every one of a maximal fixed run's width,
\* up to MaxAnchor bytes, that is not padding.
Windows(parts) ==
  {[part |-> p, start |-> s, len |-> n] : p \in DOMAIN parts, s \in 1..MaxSize, n \in MinAnchor..MaxAnchor}
Window(parts, w) == SubSeq(parts[w.part].bytes, w.start, w.start + w.len - 1)
Fixed(parts, p, s, e) == \A i \in s..e : parts[p].bytes[i] # Wildcard
Searchable(parts, w) ==
  LET bytes == parts[w.part].bytes
      last == w.start + w.len - 1
      longer == \/ w.start > 1 /\ bytes[w.start - 1] # Wildcard
                \/ last < Len(bytes) /\ bytes[last + 1] # Wildcard
  IN  /\ parts[w.part].kind = "bytes" /\ last <= Len(bytes)
      /\ Fixed(parts, w.part, w.start, last)
      /\ w.len = MaxAnchor \/ ~longer
      /\ Cardinality(Range(Window(parts, w))) >= MinDistinct

\* best_anchor: the first window of the highest score.
Best(windows, parts) ==
  LET score(w) == window_score(Window(parts, w))
      before(v, w) == v.part < w.part \/ (v.part = w.part /\ v.start < w.start)
  IN  IF windows = {} THEN None
      ELSE CHOOSE w \in windows : \A v \in windows \ {w} :
             score(v) < score(w) \/ (score(v) = score(w) /\ before(w, v))
best_anchor(parts) == Best({w \in Windows(parts) : Searchable(parts, w)}, parts)

\* parse_offset: `*` takes no shift; build_signature's floor and anchor.
Anywhere == [base |-> "anywhere", at |-> 0, shift |-> 0]
PeBases == {"entry", "section"}
Anchored(line, parts, anchor) ==
  IF anchor = None THEN [kept |-> FALSE]
  ELSE [kept |-> TRUE, target |-> line.target, offset |-> line.offset, parts |-> parts,
        anchor |-> anchor, piece |-> FALSE, fold |-> FALSE, fullword |-> FALSE]
build_signature(line, parts, min_fixed) ==
  IF \/ parts = None
     \/ line.offset.base = "anywhere" /\ line.offset.shift # 0
     \/ line.offset.base \in PeBases /\ line.target # "Pe"
  THEN [kept |-> FALSE]
  ELSE IF fixed_bytes(parts) < min_fixed THEN [kept |-> FALSE]
  ELSE Anchored(line, parts, best_anchor(parts))

\* parse_line: a body signature.
parse_line(line) == build_signature(line, parse_hex(line.tokens), MinFixed)

\* parse_piece: the signatures one sub-signature stands for.  Wide needs plain
\* bytes; wide and ascii are two signatures of one slot.
Widened(bytes) == [i \in 1..2 * Len(bytes) |-> IF i % 2 = 1 THEN bytes[(i + 1) \div 2] ELSE "0"]
Forms(piece, parts) ==
  (IF "w" \in piece.modifiers /\ "a" \notin piece.modifiers THEN <<>> ELSE <<parts>>)
    \o (IF "w" \in piece.modifiers THEN <<<<BytesPart(Widened(parts[1].bytes))>>>> ELSE <<>>)
Flagged(piece, built) ==
  IF \E i \in DOMAIN built : ~built[i].kept THEN None
  ELSE [i \in DOMAIN built |->
          [built[i] EXCEPT !.piece = TRUE, !.fold = "i" \in piece.modifiers,
                           !.fullword = "f" \in piece.modifiers]]
BuildForms(piece, forms) == [i \in DOMAIN forms |-> build_signature(piece, forms[i], MinAnchor)]
Literal(parts) == Len(parts) = 1 /\ Wildcard \notin Range(parts[1].bytes)
PieceOf(piece, parts) ==
  IF parts = None THEN None
  ELSE IF "w" \in piece.modifiers /\ ("f" \in piece.modifiers \/ ~Literal(parts)) THEN None
  ELSE Flagged(piece, BuildForms(piece, Forms(piece, parts)))
parse_piece(piece) == PieceOf(piece, parse_hex(piece.tokens))

-----------------------------------------------------------------------------
(* Verifying one candidate.                                                *)

eq(wanted, actual, fold) ==
  wanted = Wildcard \/ wanted = actual
    \/ (fold /\ to_ascii_lowercase(wanted) = to_ascii_lowercase(actual))

\* bytes_match, of the text from a position on (positions count from 0).
bytes_match(bytes, text, at, fold) ==
  at + Len(bytes) <= Len(text) /\ \A i \in DOMAIN bytes : eq(bytes[i], text[at + i], fold)

on_word_boundaries(text, start, end) ==
  /\ start > 0 => text[start] \notin Alphanumeric
  /\ end < Len(text) => text[end + 1] \notin Alphanumeric

\* applies_to: what the file starts with (a PDF's mark may come later).
applies_to(target, text) == target = "Any" \/ (text # <<>> /\ text[1] = "M")

\* PeLayout::resolve; the layout is where the entry point and sections are.
resolve_base(offset, len, layout) ==
  CASE offset.base = "anywhere" -> 0
    [] offset.base = "absolute" -> offset.at
    [] offset.base = "eof" -> IF offset.at <= len THEN len - offset.at ELSE None
    [] offset.base = "entry" -> IF layout.entry = None THEN None ELSE layout.entry + offset.at
    [] offset.base = "section" -> IF layout.sections = <<>> THEN None
                                  ELSE layout.sections[Len(layout.sections)] + offset.at

Missed(steps) == [at |-> None, steps |-> steps]

\* Where a search is: the part it is at, the place, how many lengths of a gap it
\* has tried there, and the steps of the whole scan so far.
Cursors(parts) == [part : parts, at : Nat, tried : 0..(MaxGap + 1), steps : Nat]
Cursor(part, at, tried, steps) == [part |-> part, at |-> at, tried |-> tried, steps |-> steps]

\* match_right: the parts from a first one on, forward from a position; the
\* first way that fits is taken.
match_right(parts, first, text, from, steps, fold) ==
  LET right[c \in Cursors(1..(Len(parts) + 1))] ==
        LET part == parts[c.part] IN
        IF c.part > Len(parts) THEN [at |-> c.at, steps |-> c.steps]
        ELSE IF part.kind = "bytes"
        THEN LET s == c.steps + Len(part.bytes) IN
             IF s > MaxSteps \/ ~bytes_match(part.bytes, text, c.at, fold) THEN Missed(s)
             ELSE right[Cursor(c.part + 1, c.at + Len(part.bytes), 0, s)]
        ELSE LET skip == part.min + c.tried IN
             IF skip > Limit(part) THEN Missed(c.steps)
             ELSE IF c.steps + 1 > MaxSteps \/ c.at + skip > Len(text) THEN Missed(c.steps + 1)
             ELSE LET rest == right[Cursor(c.part + 1, c.at + skip, 0, c.steps + 1)] IN
                  IF rest.at # None THEN rest
                  ELSE right[Cursor(c.part, c.at, c.tried + 1, rest.steps)]
  IN  right[Cursor(first, from, 0, steps)]

\* match_left: the parts from a last one down, backward.
match_left(parts, last, text, from, steps, fold) ==
  LET left[c \in Cursors(0..Len(parts))] ==
        LET part == parts[c.part] IN
        IF c.part = 0 THEN [at |-> c.at, steps |-> c.steps]
        ELSE IF part.kind = "bytes"
        THEN LET n == Len(part.bytes) s == c.steps + n IN
             IF n > c.at \/ s > MaxSteps \/ ~bytes_match(part.bytes, text, c.at - n, fold)
             THEN Missed(s) ELSE left[Cursor(c.part - 1, c.at - n, 0, s)]
        ELSE LET skip == part.min + c.tried IN
             IF skip > Limit(part) THEN Missed(c.steps)
             ELSE IF c.steps + 1 > MaxSteps \/ skip > c.at THEN Missed(c.steps + 1)
             ELSE LET rest == left[Cursor(c.part - 1, c.at - skip, 0, c.steps + 1)] IN
                  IF rest.at # None THEN rest
                  ELSE left[Cursor(c.part, c.at, c.tried + 1, rest.steps)]
  IN  left[Cursor(last, from, 0, steps)]

\* A file: what was read of it, and how long it is.
Truncated(file) == file.size > Len(file.text)

InPlace(sig, file, start) ==
  LET first == resolve_base(sig.offset, Len(file.text), file.layout) IN
  \/ sig.offset.base = "anywhere"
  \/ /\ sig.offset.base = "eof" => ~Truncated(file)
     /\ first # None /\ first \in Nat
     /\ start \in first..(first + sig.offset.shift)

AnchorBytes(sig) == sig.parts[sig.anchor.part].bytes

\* verify: the anchor's own part, then left, then right, then where it lies.
verify(sig, file, anchorAt, steps) ==
  LET from == anchorAt - (sig.anchor.start - 1)
      left == match_left(sig.parts, sig.anchor.part - 1, file.text, from, steps, sig.fold)
      right == match_right(sig.parts, sig.anchor.part + 1, file.text, from + Len(AnchorBytes(sig)),
                           left.steps, sig.fold)
      no(s) == [matched |-> FALSE, steps |-> s]
  IN  IF \/ anchorAt < sig.anchor.start - 1
         \/ ~bytes_match(AnchorBytes(sig), file.text, from, sig.fold) THEN no(steps)
      ELSE IF left.at = None THEN no(left.steps)
      ELSE IF right.at = None THEN no(right.steps)
      ELSE [matched |-> /\ sig.fullword => on_word_boundaries(file.text, left.at, right.at)
                        /\ InPlace(sig, file, left.at),
            steps |-> right.steps]

-----------------------------------------------------------------------------
(* Logical expressions: a sequence of nodes in which a node's operands come *)
(* before it, the last node being the whole expression.                     *)

Counted(compare, value, limit) ==
  CASE compare = ">" -> value > limit [] compare = "<" -> value < limit
    [] compare = "=" -> value = limit

SumOver(subs, f) == FoldLeft(LAMBDA n, s : n + f[s], 0, subs)

\* Expr::holds, of one node, with those of the nodes before it.
NodeHolds(node, counts, value) ==
  LET total == SumOver(node.subs, counts)
      matched == Cardinality({s \in Range(node.subs) : counts[s] > 0})
  IN  CASE node.op = "seen" -> counts[node.subs[1]] > 0
        [] node.op = "count" -> Counted(node.compare, total, node.limit)
        [] node.op = "total" -> Counted(node.compare, total, node.limit) /\ matched >= node.distinct
        [] node.op = "all" -> \A j \in Range(node.args) : value[j]
        [] node.op = "any" -> \E j \in Range(node.args) : value[j]
holds(expr, counts) ==
  LET value[i \in DOMAIN expr] == NodeHolds(expr[i], counts, value) IN value[Len(expr)]

\* required_bytes: the weakest way of satisfying a node, and the expression.
NodeNeeds(node, fixed, need) ==
  CASE node.op = "seen" -> fixed[node.subs[1]]
    [] node.op = "count" -> IF node.compare = ">" \/ (node.compare = "=" /\ node.limit > 0)
                            THEN fixed[node.subs[1]] ELSE 0
    [] node.op = "total" -> IF node.compare = ">" THEN Min({fixed[s] : s \in Range(node.subs)}) ELSE 0
    [] node.op = "all" -> SumOver(node.args, need)
    [] node.op = "any" -> Min({need[j] : j \in Range(node.args)})
required_bytes(expr, fixed) ==
  LET need[i \in DOMAIN expr] == NodeNeeds(expr[i], fixed, need) IN need[Len(expr)]

\* subsignatures: every sub-signature the expression refers to.
subsignatures(expr) == UNION {Range(expr[i].subs) : i \in DOMAIN expr}

\* What the parsers make of a line's text: tokens, and an expression's nodes.
PartType == [kind : {"bytes", "gap"}, bytes : Seq(Bytes \cup {Wildcard}), min : Nat, max : Nat]
OffsetType == [base : {"anywhere", "absolute", "eof", "entry", "section"}, at : Nat, shift : Nat]
OfSubs == {"seen", "count", "total"}
NodeType == [op : OfSubs \cup {"all", "any"}, subs : Seq(Nat), args : Seq(Nat),
             compare : {">", "<", "="}, limit : Nat, distinct : Nat]
IsExpr(expr) ==
  /\ expr \in Seq(NodeType) /\ expr # <<>>
  /\ \A i \in DOMAIN expr : /\ IF expr[i].op \in OfSubs THEN expr[i].subs # <<>> ELSE expr[i].args # <<>>
                            /\ Range(expr[i].args) \subseteq 1..(i - 1)

-----------------------------------------------------------------------------
(* What the signatures mean, said without anchors, order or budgets.       *)

\* A part lies between two places of the text.
Fits(part, text, from, to, fold) ==
  IF part.kind = "bytes"
  THEN to = from + Len(part.bytes) /\ bytes_match(part.bytes, text, from, fold)
  ELSE from <= to /\ part.min <= to - from /\ to - from <= Limit(part)

\* The text can be cut into the parts, the anchor at a position.
Matches(sig, file, anchorAt) ==
  \E cut \in [0..Len(sig.parts) -> 0..Len(file.text)] :
    /\ \A p \in DOMAIN sig.parts : Fits(sig.parts[p], file.text, cut[p - 1], cut[p], sig.fold)
    /\ anchorAt = cut[sig.anchor.part - 1] + (sig.anchor.start - 1)
    /\ sig.fullword => on_word_boundaries(file.text, cut[0], cut[Len(sig.parts)])
    /\ InPlace(sig, file, cut[0])

\* Where taking the first way that fits is as good as any: nothing depends on
\* which start or end was taken.
FirstFitSuffices(sig) ==
  /\ sig.fullword => Len(sig.parts) = 1
  /\ sig.offset.base # "anywhere" => sig.anchor.part = 1
=============================================================================
