---------------------------- MODULE NativeIndex ----------------------------
(***************************************************************************)
(* The index of ClamAV signatures (src/clamdb/native_index.rs) and the     *)
(* search of one sample for body and logical signatures (PatternSet of     *)
(* src/clamdb/pattern.rs).  The search keeps its counters per thread from  *)
(* one scan to the next, whatever index the next scan uses and however the *)
(* last one ended; the module follows one such thread.                     *)
(***************************************************************************)
EXTENDS PatternMatch

CONSTANT Databases   \* the databases the index may be loaded from, a sequence

\* A line names its digest's algorithm, or spells tokens and an expression; no
\* value is not a match.
Targets == {"Any", "Pe"}
BodyLine == [tokens : Seq(PartType), offset : OffsetType, target : Targets]
PieceType == [tokens : Seq(PartType), offset : OffsetType, modifiers : SUBSET {"i", "w", "a", "f"}]
IsLogical(line) == line.pieces \in Seq(PieceType) /\ line.target \in Targets /\ IsExpr(line.expr)
IsDatabase(d) ==
  /\ \A e \in d.files \cup d.sections : e.algorithm \in {"sha256", "md5"}
  /\ d.bodies \in Seq(BodyLine)
  /\ d.logicals \in Seq(Range(d.logicals)) /\ \A i \in DOMAIN d.logicals : IsLogical(d.logicals[i])
ASSUME IndexAssumption ==
  /\ 1 \in DOMAIN Databases /\ \A i \in DOMAIN Databases : IsDatabase(Databases[i])
  /\ None \notin {"WholeFile", "PeSection"}

VARIABLES index,     \* the index loaded from one of them
          scratch,   \* the thread's Scratch
          scan       \* the search under way

indexVars == <<index, scratch, scan>>

-----------------------------------------------------------------------------
(* Loading.                                                                *)

\* PatternSet::ingest, of one .ndb line.
Stored(set, sig) == IF sig.kept THEN [set EXCEPT !.signatures = Append(@, sig)] ELSE set
ingest(set, line) == Stored(set, parse_line(line))

\* A piece is stored once, however many logical signatures use it.
Share(acc, v) ==
  LET next == Len(acc.signatures) + 1
      same == {i \in DOMAIN acc.signatures : acc.signatures[i] = v.sig}
      id == Min(same \cup {next})
  IN  [signatures |-> IF id = next THEN Append(acc.signatures, v.sig) ELSE acc.signatures,
       pieces |-> Append(acc.pieces, id), slot_of |-> Append(acc.slot_of, v.slot)]

\* parse_logical: every sub-signature is used and understood, and the weakest
\* way of satisfying the expression still fixes enough bytes.
Variants(built) ==
  FlattenSeq([s \in DOMAIN built |-> [v \in DOMAIN built[s] |-> [sig |-> built[s][v], slot |-> s]]])
WithLogical(set, line, shared) ==
  [signatures |-> shared.signatures,
   logicals |-> Append(set.logicals,
     [file_size |-> line.file_size, expression |-> line.expr, slots |-> DOMAIN line.pieces,
      pieces |-> shared.pieces, slot_of |-> shared.slot_of])]
FixedBytes(built) == [s \in DOMAIN built |-> fixed_bytes_narrow(built[s][1].parts)]
Floor(expr) == IF Len(expr) = 1 /\ expr[1].op = "seen" THEN MinFixed ELSE MinLogicalFixed
Kept(set, line, built) ==
  IF \E s \in DOMAIN built : built[s] = None THEN set
  ELSE IF required_bytes(line.expr, FixedBytes(built)) < Floor(line.expr) THEN set
  ELSE WithLogical(set, line,
         FoldLeft(Share, [signatures |-> set.signatures, pieces |-> <<>>, slot_of |-> <<>>],
                  Variants(built)))
PieceLine(line, s) == [tokens |-> line.pieces[s].tokens, offset |-> line.pieces[s].offset,
                       modifiers |-> line.pieces[s].modifiers, target |-> line.target]
parse_logical(set, line) ==
  IF subsignatures(line.expr) # DOMAIN line.pieces THEN set
  ELSE Kept(set, line, [s \in DOMAIN line.pieces |-> parse_piece(PieceLine(line, s))])

\* Hash tables: an entry is of one algorithm, and may fix a size.
size_matches(wanted, actual) == wanted = None \/ wanted = actual
lookup(table, algorithm, of, size) ==
  \E e \in table : e.algorithm = algorithm /\ e.of = of /\ size_matches(e.size, size)

\* Mutant of md5_sizes: the allowlist's sizes are forgotten.
md5_sizes_listed(d) == {e.size : e \in {f \in d.files : f.algorithm = "md5"}}
\* note_md5_size: the sizes for which an MD5 is worth computing, those the
\* allowlist needs included.
md5_sizes(d) == {e.size : e \in {f \in d.files \cup d.allow : f.algorithm = "md5"}}
\* note_section_size
section_sizes(d) == {e.size : e \in d.sections}

\* load_from_directory: what is read of a database's files, PUA ones apart.
PatternSet(d) == FoldLeft(parse_logical,
                          FoldLeft(ingest, [signatures |-> <<>>, logicals |-> <<>>], d.bodies),
                          d.logicals)
Loaded == [i \in DOMAIN Databases |->
             [files |-> Databases[i].files, allow |-> Databases[i].allow,
              sections |-> Databases[i].sections, patterns |-> PatternSet(Databases[i]),
              md5_sizes |-> md5_sizes(Databases[i]), section_sizes |-> section_sizes(Databases[i])]]
Signatures == index.patterns.signatures
Logicals == index.patterns.logicals

\* PieceUsers::of
users(piece) == {l \in DOMAIN Logicals : piece \in Range(Logicals[l].pieces)}

-----------------------------------------------------------------------------
(* Hashes.                                                                 *)

wants_file_md5(size) == index.md5_sizes \cap {None, size} # {}

is_allowlisted(blob, md5) ==
  \E e \in index.allow : e.of = blob /\ (e.algorithm = "md5" => md5)

\* section_digests_where: none unless the sample parses as a program, and then the
\* sections that lie in it and are of a size some signature names.
section_digests(parses, sections, sample) ==
  {s \in sections : /\ parses
                    /\ s.size # 0 /\ s.start + s.size <= sample
                    /\ index.section_sizes \cap {None, s.size} # {}}

\* NativeIndex::evaluate: allowlist, whole file, sections.
evaluate(blob, size, md5, digests) ==
  IF is_allowlisted(blob, md5) THEN None
  ELSE IF lookup(index.files, "sha256", blob, size) \/ (md5 /\ lookup(index.files, "md5", blob, size))
  THEN "WholeFile"
  ELSE IF \E s \in digests, a \in {"sha256", "md5"} : lookup(index.sections, a, s.of, s.size)
  THEN "PeSection" ELSE None

-----------------------------------------------------------------------------
(* Searching.                                                              *)

\* Every occurrence of every signature's anchor in the lowered text, and which
\* of two is found first: by where it ends, then the longer (Anchors::for_each_match).
Hits(signatures, text) ==
  LET anchor(i) == Window(signatures[i].parts, signatures[i].anchor)
      hits == {[index |-> i, start |-> at, end |-> at + signatures[i].anchor.len] :
                 i \in DOMAIN signatures, at \in 0..Len(text)}
  IN  {h \in hits : bytes_match(lowered(anchor(h.index)), lowered(text), h.start, FALSE)}
Sooner(g, h) == \/ g.end < h.end
                \/ g.end = h.end /\ g.start < h.start
                \/ g.end = h.end /\ g.start = h.start /\ g.index < h.index

Scratch == [counts |-> <<>>, touched |-> {}, marked |-> <<>>, candidates |-> {}]

\* Scratch::clear
clear(s) == [counts |-> [i \in DOMAIN s.counts |-> IF i \in s.touched THEN 0 ELSE s.counts[i]],
             touched |-> {},
             marked |-> [i \in DOMAIN s.marked |-> s.marked[i] /\ i \notin s.candidates],
             candidates |-> {}]

\* Mutant of prepare: what the last scan left is taken over.
prepare_dirty(s, pieces, logicals) ==
  [s EXCEPT !.counts = IF Len(@) = pieces THEN @ ELSE [i \in 1..pieces |-> 0],
            !.marked = IF Len(@) = logicals THEN @ ELSE [i \in 1..logicals |-> FALSE]]

\* Scratch::prepare
prepare(s, pieces, logicals) ==
  [clear(s) EXCEPT !.counts = IF Len(@) = pieces THEN @ ELSE [i \in 1..pieces |-> 0],
                   !.marked = IF Len(@) = logicals THEN @ ELSE [i \in 1..logicals |-> FALSE]]

Quiet == [phase |-> "off", file |-> None, hits |-> {}, steps |-> 0, found |-> None]
Body(i) == <<"body", i>>
LogicalOf(i) == <<"logical", i>>

\* evaluate_patterns and the head of scan_counting (an empty set, which is not
\* searched at all, is one without hits here).
BeginScan(file) ==
  /\ scan.phase = "off"
  /\ scan' = [Quiet EXCEPT !.phase = "hits", !.file = file, !.hits = Hits(Signatures, file.text)]
  /\ scratch' = prepare(scratch, Len(Signatures), Len(Logicals))
  /\ UNCHANGED index

\* One candidate: a body signature decides at once, a piece is counted, and a
\* scan that has cost too much gives up.
Hit ==
  /\ scan.phase = "hits"
  /\ \E hit \in scan.hits :
     LET sig == Signatures[hit.index]
         tried == applies_to(sig.target, scan.file.text) /\ ~(sig.piece /\ Truncated(scan.file))
         v == verify(sig, scan.file, hit.start, scan.steps)
         steps == IF tried THEN v.steps ELSE scan.steps
         counted == tried /\ v.matched /\ sig.piece
         over == tried /\ steps > MaxSteps * GiveUpFactor
         noted == [scratch EXCEPT !.counts[hit.index] = @ + 1, !.touched = @ \cup {hit.index}]
         after == [scan EXCEPT !.hits = @ \ {hit}, !.steps = steps]
     IN  /\ \A other \in scan.hits \ {hit} : Sooner(hit, other)
         /\ \/ /\ tried /\ v.matched /\ ~sig.piece
               /\ scan' = [after EXCEPT !.phase = "done", !.found = Body(hit.index)]
               /\ scratch' = clear(scratch)
            \/ /\ ~(tried /\ v.matched /\ ~sig.piece) /\ over
               /\ scan' = [after EXCEPT !.phase = "done"]
               /\ scratch' = clear(IF counted THEN noted ELSE scratch)
            \/ /\ ~(tried /\ v.matched /\ ~sig.piece) /\ ~over
               /\ scan' = after
               /\ scratch' = IF counted THEN noted ELSE scratch
  /\ UNCHANGED index

\* The logical signatures with a piece in the sample, each judged once, by how
\* often each of its sub-signatures was seen.
Tally(logical, count) ==
  [s \in logical.slots |->
     FoldLeft(LAMBDA n, i : n + IF logical.slot_of[i] = s THEN count[logical.pieces[i]] ELSE 0,
              0, [i \in DOMAIN logical.pieces |-> i])]
Gathered(logical) == Tally(logical, [p \in Range(logical.pieces) |-> scratch.counts[p]])
SizeFits(logical, size) ==
  logical.file_size = None \/ size \in logical.file_size[1]..logical.file_size[2]
Judge ==
  /\ scan.phase = "hits" /\ scan.hits = {}
  /\ LET fresh == {l \in UNION {users(p) : p \in scratch.touched} : ~scratch.marked[l]}
         candidates == scratch.candidates \cup fresh
         holding == {l \in candidates : /\ SizeFits(Logicals[l], scan.file.size)
                                        /\ holds(Logicals[l].expression, Gathered(Logicals[l]))}
     IN  scan' = [scan EXCEPT !.phase = "done",
                              !.found = IF holding = {} THEN None ELSE LogicalOf(Min(holding))]
  /\ scratch' = clear(scratch)
  /\ UNCHANGED index

\* The analysis panics and is contained: the thread's scratch stays as it is.
PanicScan ==
  /\ scan.phase = "hits"
  /\ scan' = Quiet
  /\ UNCHANGED <<index, scratch>>

EndScan == scan.phase = "done" /\ scan' = Quiet

\* replace_native_index: the write lock waits for a search to end.
Replace ==
  /\ scan.phase = "off"
  /\ index' \in Range(Loaded) \ {index}
  /\ UNCHANGED <<scratch, scan>>

IndexInit == index = Loaded[1] /\ scratch = Scratch /\ scan = Quiet

-----------------------------------------------------------------------------
(* What a search must find, said without anchors, hits or counters.        *)

Places(sig, file) == IF applies_to(sig.target, file.text)
                     THEN {at \in 0..Len(file.text) : Matches(sig, file, at)} ELSE {}
Occurrences(logical, file) ==
  Tally(logical, [p \in Range(logical.pieces) |-> Cardinality(Places(Signatures[p], file))])
Bodies(file) == {i \in DOMAIN Signatures : ~Signatures[i].piece /\ Places(Signatures[i], file) # {}}
Held(file) == {l \in DOMAIN Logicals : /\ ~Truncated(file) /\ SizeFits(Logicals[l], file.size)
                                       /\ holds(Logicals[l].expression, Occurrences(Logicals[l], file))}

\* Where no count depends on which fit was taken first.
Exact(logical) == \A p \in Range(logical.pieces) : FirstFitSuffices(Signatures[p])

\* A search that stays within its step budget finds what the signatures mean:
\* it names a body signature only if that one matches; it misses none whose
\* match does not depend on which fit is taken first; and otherwise it names,
\* of ALL logical signatures of which the same can be said, none that does not
\* hold and none behind the first that does, whatever an earlier scan, one cut
\* short by a panic or one of another index included, left in the thread's
\* counters (pattern.rs scan_counting, Scratch, required_bytes).
ScanAgrees ==
  scan.phase = "done" /\ scan.steps <= MaxSteps =>
    LET file == scan.file
        sure == {i \in Bodies(file) : FirstFitSuffices(Signatures[i])}
        exact == {l \in DOMAIN Logicals : Exact(Logicals[l])}
    IN  /\ scan.found \in {None} \cup {Body(i) : i \in Bodies(file)}
                            \cup {LogicalOf(l) : l \in Held(file) \cup (DOMAIN Logicals \ exact)}
        /\ sure # {} => scan.found \in {Body(i) : i \in Bodies(file)}
        /\ Bodies(file) = {} =>
             \A l \in Held(file) \cap exact : \E m \in 1..l : scan.found = LogicalOf(m)
=============================================================================
