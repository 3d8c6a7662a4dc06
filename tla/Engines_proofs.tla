--------------------------- MODULE Engines_proofs ---------------------------
(***************************************************************************)
(* The engines, for any contents, database and step budget: a static       *)
(* report never looks worse for a read cut short, and the search of a      *)
(* sample finds what the signatures mean.                                  *)
(***************************************************************************)
EXTENDS NativeIndex, StaticEngine, FiniteSetTheorems, SequenceTheorems, WellFoundedInduction,
        TLAPS

-----------------------------------------------------------------------------
(* Induction, with what is to be shown given as a set, and folds.          *)

\* Induction over the numbers up to n.
LEMMA UpTo ==
  ASSUME NEW n \in Nat, NEW Good, 0 \in Good,
         \A i \in 1..n : i - 1 \in Good => i \in Good
  PROVE  \A i \in 0..n : i \in Good
<1> DEFINE Bad == {i \in 0..n : i \notin Good}
           R == OpToRel(<, Nat)
<1>1. SUFFICES ASSUME Bad # {} PROVE FALSE
  OBVIOUS
<1>2. IsWellFoundedOn(R, Nat)
  BY NatLessThanWellFounded
<1>3. \A x, y \in Nat : x < y => <<x, y>> \in R
  BY DEF OpToRel
<1>4. Bad \subseteq Nat
  OBVIOUS
<1> HIDE DEF R
<1>5. PICK i \in Bad : \A j \in Bad : ~(<<j, i>> \in R)
  BY <1>1, <1>2, <1>4, WFMin
<1>6. i # 0 /\ i \in 1..n /\ i - 1 \in 0..n
  BY <1>5
<1>7. <<i - 1, i>> \in R
  BY <1>3, <1>6
<1>8. i - 1 \in Good
  BY <1>5, <1>6, <1>7
<1> QED BY <1>5, <1>6, <1>8

\* The greatest of the first n numbers is the last, and so is that of a set of
\* them that holds the last.
LEMMA LastIsMax ==
  ASSUME NEW n \in Nat, NEW t \in SUBSET (1..n), n \in t
  PROVE  Max(t) = n
<1>1. n \in t /\ \A y \in t : n >= y
  OBVIOUS
<1>2. \A x \in t : (\A y \in t : x >= y) => x = n
  OBVIOUS
<1> QED BY <1>1, <1>2 DEF Max

\* A set of numbers up to n has a greatest one.
LEMMA BoundedMax ==
  ASSUME NEW n \in Nat, NEW t \in SUBSET (0..n), t # {}
  PROVE  Max(t) \in t /\ \A y \in t : y <= Max(t)
<1> DEFINE down == {n - y : y \in t}
           R == OpToRel(<, Nat)
<1>1. down \subseteq Nat /\ down # {}
  <2>1. \A y \in t : n - y \in Nat
    OBVIOUS
  <2>2. PICK y \in t : TRUE
    OBVIOUS
  <2>3. n - y \in down
    OBVIOUS
  <2> QED BY <2>1, <2>3
<1>2. IsWellFoundedOn(R, Nat)
  BY NatLessThanWellFounded
<1>3. \A x, y \in Nat : x < y => <<x, y>> \in R
  BY DEF OpToRel
<1> HIDE DEF R, down
<1>4. PICK d \in down : \A e \in down : ~(<<e, d>> \in R)
  BY <1>1, <1>2, WFMin
<1>5. \A e \in down : d <= e
  <2>1. \A e \in down : ~(e < d)
    BY <1>1, <1>3, <1>4
  <2> QED BY <1>1, <2>1
<1>6. \A y \in t : n - d >= y /\ n - d \in t
  BY <1>5 DEF down
<1>7. \E x \in t : \A y \in t : x >= y
  BY <1>6
<1>8. \A y \in t : y \in Nat
  OBVIOUS
<1> QED BY <1>7, <1>8 DEF Max

\* A set of numbers has a least one.
LEMMA LeastNumber ==
  ASSUME NEW t \in SUBSET Nat, t # {}
  PROVE  Min(t) \in t /\ \A y \in t : Min(t) <= y
<1> DEFINE R == OpToRel(<, Nat)
<1>1. IsWellFoundedOn(R, Nat)
  BY NatLessThanWellFounded
<1>2. \A x, y \in Nat : x < y => <<x, y>> \in R
  BY DEF OpToRel
<1> HIDE DEF R
<1>3. PICK d \in t : \A e \in t : ~(<<e, d>> \in R)
  BY <1>1, WFMin
<1>4. \A e \in t : d <= e
  <2>1. d \in Nat /\ \A e \in t : e \in Nat
    OBVIOUS
  <2>2. \A e \in t : ~(e < d)
    BY <1>2, <1>3, <2>1
  <2> QED BY <2>1, <2>2
<1>5. \E x \in t : \A y \in t : x =< y
  BY <1>4
<1>6. \A y \in t : y \in Nat
  OBVIOUS
<1> QED BY <1>5, <1>6 DEF Min

\* A fold over a sequence of n elements, whose i-th step takes x to G[<<i, x>>].
FoldBody(G, base, n, h) ==
  [t \in SUBSET (1..n) |-> IF t = {} THEN base ELSE G[<<Max(t), h[t \ {Max(t)}]>>]]
FoldUpTo(G, base, i, h) ==
  \A t \in SUBSET (1..i) : h[t] = IF t = {} THEN base ELSE G[<<Max(t), h[t \ {Max(t)}]>>]
IsStep(G, V, n) == G \in [(1..n) \X V -> V]
HasFold(G, V, base, n) == \E h \in [SUBSET (1..n) -> V] : h = FoldBody(G, base, n, h)

\* There is such a fold.
LEMMA FoldExists ==
  ASSUME NEW V, NEW base \in V, NEW n \in Nat, NEW G, IsStep(G, V, n)
  PROVE  HasFold(G, V, base, n)
<1> USE DEF IsStep, HasFold
<1> DEFINE Good == {i \in 0..n : \E h \in [SUBSET (1..i) -> V] : FoldUpTo(G, base, i, h)}
<1>1. 0 \in Good
  <2> DEFINE z == [t \in SUBSET (1..0) |-> base]
  <2>1. z \in [SUBSET (1..0) -> V]
    OBVIOUS
  <2>2. \A t \in SUBSET (1..0) : t = {}
    OBVIOUS
  <2>3. FoldUpTo(G, base, 0, z)
    BY <2>2 DEF FoldUpTo
  <2> HIDE DEF z
  <2>4. \E h \in [SUBSET (1..0) -> V] : FoldUpTo(G, base, 0, h)
    BY <2>1, <2>3
  <2>5. 0 \in 0..n
    OBVIOUS
  <2> QED BY <2>4, <2>5
<1>2. ASSUME NEW i \in 1..n, i - 1 \in Good PROVE i \in Good
  <2>1. PICK h \in [SUBSET (1..(i - 1)) -> V] : FoldUpTo(G, base, i - 1, h)
    BY <1>2
  <2> DEFINE g == [t \in SUBSET (1..i) |-> IF i \in t THEN G[<<i, h[t \ {i}]>>] ELSE h[t]]
  <2>2. \A t \in SUBSET (1..i) : /\ i \in t => t \ {i} \in SUBSET (1..(i - 1)) /\ Max(t) = i
                                 /\ i \notin t => t \in SUBSET (1..(i - 1))
    <3> SUFFICES ASSUME NEW t \in SUBSET (1..i)
                 PROVE  /\ i \in t => t \ {i} \in SUBSET (1..(i - 1)) /\ Max(t) = i
                        /\ i \notin t => t \in SUBSET (1..(i - 1))
      OBVIOUS
    <3>1. i \in t => Max(t) = i
      BY LastIsMax
    <3> QED BY <3>1
  <2>3. g \in [SUBSET (1..i) -> V]
    <3>1. ASSUME NEW t \in SUBSET (1..i)
          PROVE  (IF i \in t THEN G[<<i, h[t \ {i}]>>] ELSE h[t]) \in V
      <4>1. CASE i \in t
        <5>1. h[t \ {i}] \in V
          BY <2>1, <2>2, <4>1
        <5>2. <<i, h[t \ {i}]>> \in (1..n) \X V
          BY <5>1
        <5> QED BY <4>1, <5>2
      <4>2. CASE i \notin t
        BY <2>1, <2>2, <4>2
      <4> QED BY <4>1, <4>2
    <3> QED BY <3>1
  <2>4. ASSUME NEW t \in SUBSET (1..i)
        PROVE  g[t] = IF t = {} THEN base ELSE G[Max(t), g[t \ {Max(t)}]]
    <3>1. CASE i \in t
      <4>1. t \ {i} \in SUBSET (1..i) /\ i \notin t \ {i}
        OBVIOUS
      <4>2. g[t] = G[<<i, h[t \ {i}]>>] /\ g[t \ {i}] = h[t \ {i}]
        BY <3>1, <4>1
      <4>3. Max(t) = i /\ t # {}
        BY <2>2, <3>1
      <4> HIDE DEF g
      <4> QED BY <4>2, <4>3
    <3>2. CASE i \notin t
      <4>1. g[t] = h[t] /\ t \in SUBSET (1..(i - 1))
        BY <2>2, <3>2
      <4>2. g[t \ {Max(t)}] = h[t \ {Max(t)}]
        BY <3>2
      <4>3. h[t] = IF t = {} THEN base ELSE G[<<Max(t), h[t \ {Max(t)}]>>]
        BY <2>1, <4>1 DEF FoldUpTo
      <4> HIDE DEF g
      <4> QED BY <4>1, <4>2, <4>3
    <3> QED BY <3>1, <3>2
  <2> HIDE DEF g
  <2>5. FoldUpTo(G, base, i, g)
    BY <2>4 DEF FoldUpTo
  <2> QED BY <2>3, <2>5
<1> HIDE DEF Good
<1>3. \A i \in 0..n : i \in Good
  BY <1>1, <1>2, UpTo
<1>4. n \in Good
  BY <1>3
<1>5. PICK h \in [SUBSET (1..n) -> V] : FoldUpTo(G, base, n, h)
  BY <1>4 DEF Good
<1>6. h = [t \in SUBSET (1..n) |-> h[t]]
  OBVIOUS
<1>7. h = FoldBody(G, base, n, h)
  BY <1>5, <1>6 DEF FoldBody, FoldUpTo
<1> QED BY <1>7

IsInitial(i, n) == /\ 1..i \in SUBSET (1..n) /\ 1..i # {}
                  /\ Max(1..i) = i /\ (1..i) \ {i} = 1..(i - 1)

\* A set is one of its subsets.
LEMMA SetSelf ==
  ASSUME NEW X PROVE X \in SUBSET X
OBVIOUS

\* It goes through the sequence in order.
LEMMA InitialParts ==
  ASSUME NEW n \in Nat, NEW i \in 1..n
  PROVE  IsInitial(i, n)
<1>1. i \in Nat /\ i \in 1..i
  OBVIOUS
<1>2. Max(1..i) = i
  <2>1. 1..i \in SUBSET (1..i)
    BY SetSelf
  <2> QED BY <1>1, <2>1, LastIsMax
<1>3. \A j \in 1..i : j \in 1..n
  OBVIOUS
<1>4. 1..i \in SUBSET (1..n) /\ 1..i # {}
  BY <1>1, <1>3
<1>5. (1..i) \ {i} = 1..(i - 1)
  OBVIOUS
<1> QED BY <1>2, <1>4, <1>5 DEF IsInitial

\* Induction along a rank.
LEMMA ByRank ==
  ASSUME NEW S, NEW rank \in [S -> Nat], NEW Good,
         \A d \in S : (\A e \in S : rank[e] < rank[d] => e \in Good) => d \in Good
  PROVE  \A d \in S : d \in Good
<1> DEFINE Bad == {rank[d] : d \in S \ Good}
<1>1. SUFFICES ASSUME NEW x \in S, x \notin Good PROVE FALSE
  OBVIOUS
<1>2. Bad \subseteq Nat /\ rank[x] \in Bad
  BY <1>1
<1> HIDE DEF Bad
<1>3. Min(Bad) \in Bad /\ \A y \in Bad : Min(Bad) <= y
  BY <1>2, LeastNumber
<1>4. PICK d \in S \ Good : rank[d] = Min(Bad)
  BY <1>3 DEF Bad
<1>5. ASSUME NEW e \in S, rank[e] < rank[d] PROVE e \in Good
  <2>1. SUFFICES ASSUME e \notin Good PROVE FALSE
    OBVIOUS
  <2>2. rank[e] \in Bad /\ rank[e] \in Nat /\ rank[d] \in Nat
    BY <2>1, <1>4 DEF Bad
  <2>3. rank[d] <= rank[e]
    BY <1>3, <1>4, <2>2
  <2> QED BY <1>5, <2>2, <2>3
<1> QED BY <1>4, <1>5

\* A recursive definition, as the function G of what has been defined and of
\* what is to be: G looks only at what comes before.
LooksBack(G, S, V, rank) ==
  /\ G \in [[S -> V] \X S -> V]
  /\ \A f, g \in [S -> V], d \in S :
       (\A e \in S : rank[e] < rank[d] => f[e] = g[e]) => G[<<f, d>>] = G[<<g, d>>]
Recurs(f, G, S) == f = [d \in S |-> G[<<f, d>>]]
SolvesUpTo(f, G, S, rank, m) == \A d \in S : rank[d] < m => f[d] = G[<<f, d>>]

\* There is such a function.
LEMMA RecursionExists ==
  ASSUME NEW S, NEW V, NEW v \in V, NEW N \in Nat, NEW rank \in [S -> 0..N], NEW G,
         LooksBack(G, S, V, rank)
  PROVE  \E f \in [S -> V] : Recurs(f, G, S)
<1> DEFINE Good == {m \in 0..(N + 1) : \E f \in [S -> V] : SolvesUpTo(f, G, S, rank, m)}
<1>0. \A d \in S : rank[d] \in Nat /\ rank[d] <= N
  OBVIOUS
<1>1. 0 \in Good
  <2> DEFINE f == [d \in S |-> v]
  <2>1. f \in [S -> V]
    OBVIOUS
  <2>2. SolvesUpTo(f, G, S, rank, 0)
    BY <1>0 DEF SolvesUpTo
  <2> HIDE DEF f
  <2> QED BY <2>1, <2>2
<1>2. ASSUME NEW m \in 1..(N + 1), m - 1 \in Good PROVE m \in Good
  <2>1. PICK f \in [S -> V] : SolvesUpTo(f, G, S, rank, m - 1)
    BY <1>2
  <2> DEFINE g == [d \in S |-> G[<<f, d>>]]
  <2>2. g \in [S -> V]
    BY DEF LooksBack
  <2>3. \A d \in S : g[d] = G[<<f, d>>]
    OBVIOUS
  <2> HIDE DEF g
  <2>4. ASSUME NEW d \in S, rank[d] < m PROVE g[d] = G[<<g, d>>]
    <3>1. ASSUME NEW e \in S, rank[e] < rank[d] PROVE f[e] = g[e]
      <4>1. rank[e] < m - 1
        BY <1>0, <2>4, <3>1
      <4> QED BY <2>1, <2>3, <4>1 DEF SolvesUpTo
    <3>2. G[<<f, d>>] = G[<<g, d>>]
      BY <2>2, <3>1 DEF LooksBack
    <3> QED BY <2>3, <3>2
  <2>5. SolvesUpTo(g, G, S, rank, m)
    BY <2>4 DEF SolvesUpTo
  <2> QED BY <2>2, <2>5
<1> HIDE DEF Good
<1>3. \A m \in 0..(N + 1) : m \in Good
  <2>1. N + 1 \in Nat
    OBVIOUS
  <2> QED BY <1>1, <1>2, <2>1, UpTo
<1>4. N + 1 \in Good
  BY <1>3
<1>5. PICK f \in [S -> V] : SolvesUpTo(f, G, S, rank, N + 1)
  BY <1>4 DEF Good
<1>6. \A d \in S : rank[d] < N + 1
  BY <1>0
<1>7. f = [d \in S |-> f[d]]
  OBVIOUS
<1>8. f = [d \in S |-> G[<<f, d>>]]
  BY <1>5, <1>6, <1>7 DEF SolvesUpTo
<1> QED BY <1>5, <1>8 DEF Recurs

\* A function that takes each step where the fold so far is as it should be.
Follows(H, G, V, base, n) ==
  /\ H[{}] = base
  /\ \A t \in SUBSET (1..n) :
       t # {} /\ H[t \ {Max(t)}] \in V => H[t] = G[<<Max(t), H[t \ {Max(t)}]>>]
Runs(H, G, V, base, n) ==
  /\ H[1..0] = base
  /\ \A i \in 0..n : H[1..i] \in V
  /\ \A i \in 1..n : H[1..i] = G[<<i, H[1..(i - 1)]>>]

\* It runs through the sequence.
LEMMA FoldRuns ==
  ASSUME NEW V, NEW base \in V, NEW n \in Nat, NEW G, IsStep(G, V, n), NEW H,
         Follows(H, G, V, base, n)
  PROVE  Runs(H, G, V, base, n)
<1>1. 1..0 = {}
  OBVIOUS
<1>2. H[1..0] = base
  BY <1>1 DEF Follows
<1>3. ASSUME NEW i \in 1..n, H[1..(i - 1)] \in V
      PROVE  H[1..i] = G[<<i, H[1..(i - 1)]>>] /\ H[1..i] \in V
  <2>1. IsInitial(i, n)
    BY InitialParts
  <2>2. H[1..i] = G[<<i, H[1..(i - 1)]>>]
    BY <1>3, <2>1 DEF IsInitial, Follows
  <2>3. <<i, H[1..(i - 1)]>> \in (1..n) \X V
    BY <1>3
  <2> HIDE DEF IsStep
  <2>4. G[<<i, H[1..(i - 1)]>>] \in V
    BY <2>3 DEF IsStep
  <2> QED BY <2>2, <2>4
<1> DEFINE Good == {i \in 0..n : H[1..i] \in V}
<1>4. 0 \in Good
  BY <1>2
<1>5. ASSUME NEW i \in 1..n, i - 1 \in Good PROVE i \in Good
  <2>1. H[1..(i - 1)] \in V
    BY <1>5
  <2>2. H[1..i] \in V
    BY <1>3, <2>1
  <2>3. i \in 0..n
    OBVIOUS
  <2> QED BY <2>2, <2>3
<1> HIDE DEF Good
<1>6. \A i \in 0..n : i \in Good
  BY <1>4, <1>5, UpTo
<1>7. \A i \in 0..n : H[1..i] \in V
  BY <1>6 DEF Good
<1>8. \A i \in 1..n : H[1..i] = G[<<i, H[1..(i - 1)]>>]
  <2> SUFFICES ASSUME NEW i \in 1..n PROVE H[1..i] = G[<<i, H[1..(i - 1)]>>]
    OBVIOUS
  <2>1. i - 1 \in 0..n
    OBVIOUS
  <2> QED BY <1>3, <1>7, <2>1
<1> QED BY <1>2, <1>7, <1>8 DEF Runs

\* The greatest of some of the first n numbers is one of them.
LEMMA MaxOfSome ==
  ASSUME NEW n \in Nat, NEW t \in SUBSET (1..n), t # {}
  PROVE  Max(t) \in t /\ Max(t) \in 1..n
<1>1. t \in SUBSET (0..n)
  OBVIOUS
<1> QED BY <1>1, BoundedMax

-----------------------------------------------------------------------------
(* Matching the parts after the anchor.                                    *)

Symbols == Bytes \cup {Wildcard}
Result == [at : Nat \cup {None}, steps : Nat]

\* One step of match_right, with what it calls given by f.
RightStep(parts, text, fold, f, c) ==
  LET part == parts[c.part] IN
  IF c.part > Len(parts) THEN [at |-> c.at, steps |-> c.steps]
  ELSE IF part.kind = "bytes"
  THEN LET s == c.steps + Len(part.bytes) IN
       IF s > MaxSteps \/ ~bytes_match(part.bytes, text, c.at, fold) THEN Missed(s)
       ELSE f[Cursor(c.part + 1, c.at + Len(part.bytes), 0, s)]
  ELSE LET skip == part.min + c.tried IN
       IF skip > Limit(part) THEN Missed(c.steps)
       ELSE IF c.steps + 1 > MaxSteps \/ c.at + skip > Len(text) THEN Missed(c.steps + 1)
       ELSE LET rest == f[Cursor(c.part + 1, c.at + skip, 0, c.steps + 1)] IN
            IF rest.at # None THEN rest
            ELSE f[Cursor(c.part, c.at, c.tried + 1, rest.steps)]
RightBody(parts, text, fold, f) ==
  [c \in Cursors(1..(Len(parts) + 1)) |-> RightStep(parts, text, fold, f, c)]
Rightward(parts, text, fold) == CHOOSE f : f = RightBody(parts, text, fold, f)

\* match_right is that recursion.
LEMMA RightIs ==
  ASSUME NEW parts, NEW first, NEW text, NEW from, NEW steps, NEW fold
  PROVE  match_right(parts, first, text, from, steps, fold)
           = Rightward(parts, text, fold)[Cursor(first, from, 0, steps)]
BY DEF match_right, Rightward, RightBody, RightStep

\* What a part and its gap are.
LEMMA PartFacts ==
  ASSUME NEW parts \in Seq(PartType), NEW i \in 1..Len(parts)
  PROVE  /\ Len(parts) \in Nat /\ parts[i].kind \in {"bytes", "gap"}
         /\ Len(parts[i].bytes) \in Nat /\ parts[i].min \in Nat
         /\ parts[i].bytes \in Seq(Bytes \cup {Wildcard})
         /\ Limit(parts[i]) \in Nat /\ Limit(parts[i]) <= MaxGap /\ MaxGap \in Nat
<1>1. parts[i] \in PartType
  OBVIOUS
<1>2. MaxGap \in Nat
  BY PatternAssumption
<1>3. /\ parts[i].kind \in {"bytes", "gap"} /\ parts[i].bytes \in Seq(Bytes \cup {Wildcard})
      /\ parts[i].min \in Nat /\ parts[i].max \in Nat
  BY <1>1 DEF PartType
<1>4. Len(parts[i].bytes) \in Nat
  BY <1>3
<1> QED BY <1>2, <1>3, <1>4 DEF Limit

\* What a cursor is.
LEMMA CursorFacts ==
  ASSUME NEW range, NEW c \in Cursors(range)
  PROVE  /\ c.part \in range /\ c.at \in Nat /\ c.tried \in Nat /\ c.tried <= MaxGap + 1
         /\ c.steps \in Nat /\ c = Cursor(c.part, c.at, c.tried, c.steps)
<1>1. MaxGap \in Nat
  BY PatternAssumption
<1> QED BY <1>1 DEF Cursors, Cursor

\* How far a search is from its end: the parts left, then the lengths left.
Rank(left, tried) == left * (MaxGap + 2) + (MaxGap + 1 - tried)

\* It falls with each part and each length.
LEMMA RankFalls ==
  ASSUME NEW n \in Nat, NEW k \in Nat, k <= MaxGap + 1
  PROVE  /\ Rank(n, k) \in Nat /\ Rank(n, 0) \in Nat
         /\ Rank(n, 0) < Rank(n + 1, k) /\ (k <= MaxGap => Rank(n, k + 1) < Rank(n, k))
<1>1. MaxGap \in Nat
  BY PatternAssumption
<1>2. ASSUME NEW a \in Nat, NEW b \in Nat PROVE a * b \in Nat /\ (a + 1) * b = a * b + b
  OBVIOUS
<1> DEFINE w == MaxGap + 2
           x == n * w
           y == (n + 1) * w
<1>3. w \in Nat
  BY <1>1
<1>4. x \in Nat /\ y = x + w
  BY <1>2, <1>3
<1>5. Rank(n, k) = x + (MaxGap + 1 - k) /\ Rank(n, 0) = x + (MaxGap + 1 - 0)
      /\ Rank(n + 1, k) = y + (MaxGap + 1 - k) /\ Rank(n, k + 1) = x + (MaxGap + 1 - (k + 1))
  BY DEF Rank
<1> HIDE DEF x, y
<1> QED BY <1>1, <1>4, <1>5

\* And it is bounded.
LEMMA RankBound ==
  ASSUME NEW n \in Nat, NEW m \in 0..n, NEW k \in Nat, k <= MaxGap + 1
  PROVE  Rank(n, 0) \in Nat /\ Rank(m, k) \in 0..Rank(n, 0)
<1>1. MaxGap \in Nat
  BY PatternAssumption
<1>2. ASSUME NEW a \in Nat, NEW b \in Nat, NEW c \in 0..a
      PROVE  a * b \in Nat /\ c * b \in Nat /\ c * b <= a * b
  <2>1. a - c \in Nat /\ (a - c) * b \in Nat
    OBVIOUS
  <2>2. (a - c) * b = a * b - c * b
    OBVIOUS
  <2>3. a * b \in Nat /\ c * b \in Nat
    OBVIOUS
  <2> QED BY <2>1, <2>2, <2>3
<1> DEFINE w == MaxGap + 2
           x == n * w
           y == m * w
<1>3. w \in Nat
  BY <1>1
<1>4. x \in Nat /\ y \in Nat /\ y <= x
  BY <1>2, <1>3
<1>5. Rank(n, 0) = x + (MaxGap + 1 - 0) /\ Rank(m, k) = y + (MaxGap + 1 - k)
  BY DEF Rank
<1> HIDE DEF x, y
<1> QED BY <1>1, <1>4, <1>5

RightRank(parts) == [c \in Cursors(1..(Len(parts) + 1)) |-> Rank(Len(parts) + 1 - c.part, c.tried)]
RightAt(parts, c, d) == d \in Cursors(1..(Len(parts) + 1)) /\ RightRank(parts)[d] < RightRank(parts)[c]

\* The rank is one.
LEMMA RightRanked ==
  ASSUME NEW parts \in Seq(PartType)
  PROVE  /\ Rank(Len(parts), 0) \in Nat
         /\ RightRank(parts) \in [Cursors(1..(Len(parts) + 1)) -> 0..Rank(Len(parts), 0)]
         /\ RightRank(parts) \in [Cursors(1..(Len(parts) + 1)) -> Nat]
<1> DEFINE S == Cursors(1..(Len(parts) + 1))
           N == Rank(Len(parts), 0)
<1>1. Len(parts) \in Nat
  OBVIOUS
<1>2. 0 <= MaxGap + 1 /\ 0 \in Nat
  BY PatternAssumption
<1>3. N \in Nat
  BY <1>1, <1>2, RankBound
<1> HIDE DEF N
<1>4. ASSUME NEW c \in S PROVE Rank(Len(parts) + 1 - c.part, c.tried) \in 0..N
  <2>1. c.part \in 1..(Len(parts) + 1) /\ c.tried \in Nat /\ c.tried <= MaxGap + 1
    BY CursorFacts
  <2>2. Len(parts) + 1 - c.part \in 0..Len(parts)
    BY <1>1, <2>1
  <2> QED BY <1>1, <2>1, <2>2, RankBound DEF N
<1> HIDE DEF S
<1>5. RightRank(parts) \in [S -> 0..N]
  BY <1>4 DEF RightRank, S
<1>6. \A x \in 0..N : x \in Nat
  BY <1>3
<1> QED BY <1>3, <1>5, <1>6 DEF N, S

\* What match_right calls comes after.
LEMMA RightCalls ==
  ASSUME NEW parts \in Seq(PartType), NEW c \in Cursors(1..(Len(parts) + 1)), c.part <= Len(parts)
  PROVE  /\ \A at \in Nat, s \in Nat : RightAt(parts, c, Cursor(c.part + 1, at, 0, s))
         /\ c.tried <= MaxGap =>
              \A s \in Nat : RightAt(parts, c, Cursor(c.part, c.at, c.tried + 1, s))
<1> DEFINE I == 1..(Len(parts) + 1)
           S == Cursors(I)
<1>1. Len(parts) \in Nat /\ MaxGap \in Nat
  BY PatternAssumption
<1>2. /\ c.part \in 1..(Len(parts) + 1) /\ c.at \in Nat /\ c.tried \in Nat /\ c.tried <= MaxGap + 1
      /\ c.part + 1 \in I
  <2>1. /\ c.part \in 1..(Len(parts) + 1) /\ c.at \in Nat /\ c.tried \in Nat /\ c.tried <= MaxGap + 1
    BY CursorFacts
  <2> QED BY <1>1, <2>1
<1> DEFINE n == Len(parts) - c.part
<1>3. n \in Nat /\ n + 1 = Len(parts) + 1 - c.part /\ n = Len(parts) + 1 - (c.part + 1)
  BY <1>1, <1>2
<1>0. c.part \in I /\ 0 \in Nat /\ 0 <= MaxGap + 1
  BY <1>1, <1>2
<1> HIDE DEF n, I
<1>4. ASSUME NEW at \in Nat, NEW s \in Nat PROVE RightAt(parts, c, Cursor(c.part + 1, at, 0, s))
  <2> DEFINE d == Cursor(c.part + 1, at, 0, s)
  <2>1. d \in S /\ d.part = c.part + 1 /\ d.tried = 0
    <3> DEFINE zero == 0
               p == c.part + 1
    <3>1. p \in I /\ zero \in Nat /\ zero <= MaxGap + 1
      BY <1>0, <1>2
    <3> HIDE DEF zero, p
    <3>2. /\ Cursor(p, at, zero, s) \in S /\ Cursor(p, at, zero, s).part = p
          /\ Cursor(p, at, zero, s).tried = zero
      BY <1>1, <3>1 DEF Cursors, Cursor
    <3> QED BY <3>2 DEF zero, p
  <2> HIDE DEF d
  <2>2. RightRank(parts)[d] = Rank(n, 0)
    BY <1>3, <2>1 DEF RightRank, I
  <2>3. RightRank(parts)[c] = Rank(n + 1, c.tried)
    BY <1>3 DEF RightRank, I
  <2>4. Rank(n, 0) < Rank(n + 1, c.tried)
    BY <1>2, <1>3, RankFalls
  <2> QED BY <2>1, <2>2, <2>3, <2>4 DEF RightAt, d, I
<1>5. ASSUME c.tried <= MaxGap, NEW s \in Nat
      PROVE  RightAt(parts, c, Cursor(c.part, c.at, c.tried + 1, s))
  <2> DEFINE d == Cursor(c.part, c.at, c.tried + 1, s)
  <2>0. c.tried + 1 \in Nat /\ c.tried + 1 <= MaxGap + 1
    BY <1>1, <1>2, <1>5
  <2>1. d \in S /\ d.part = c.part /\ d.tried = c.tried + 1
    <3> DEFINE k == c.tried + 1
    <3> HIDE DEF k
    <3>1. k \in Nat /\ k <= MaxGap + 1
      BY <2>0 DEF k
    <3>2. /\ Cursor(c.part, c.at, k, s) \in S /\ Cursor(c.part, c.at, k, s).part = c.part
          /\ Cursor(c.part, c.at, k, s).tried = k
      BY <1>0, <1>1, <1>2, <3>1 DEF Cursors, Cursor
    <3> QED BY <3>2 DEF k
  <2> HIDE DEF d
  <2>2. RightRank(parts)[d] = Rank(n + 1, c.tried + 1)
    BY <1>3, <2>1 DEF RightRank, I
  <2>3. RightRank(parts)[c] = Rank(n + 1, c.tried)
    BY <1>3 DEF RightRank, I
  <2>4. Rank(n + 1, c.tried + 1) < Rank(n + 1, c.tried)
    <3>1. n + 1 \in Nat
      BY <1>3
    <3> QED BY <1>2, <1>5, <3>1, RankFalls
  <2> QED BY <2>1, <2>2, <2>3, <2>4 DEF RightAt, d, I
<1> QED BY <1>4, <1>5

\* What a step gives is a result, and depends on those calls only.
LEMMA RightStepFacts ==
  ASSUME NEW parts \in Seq(PartType), NEW text, NEW fold,
         NEW f \in [Cursors(1..(Len(parts) + 1)) -> Result],
         NEW g,
         NEW c \in Cursors(1..(Len(parts) + 1))
  PROVE  /\ RightStep(parts, text, fold, f, c) \in Result
         /\ (\A d \in Cursors(1..(Len(parts) + 1)) : RightAt(parts, c, d) => f[d] = g[d])
              => RightStep(parts, text, fold, f, c) = RightStep(parts, text, fold, g, c)
<1> DEFINE S == Cursors(1..(Len(parts) + 1))
           part == parts[c.part]
           same == \A d \in S : RightAt(parts, c, d) => f[d] = g[d]
<1>1. /\ c.part \in 1..(Len(parts) + 1) /\ c.at \in Nat /\ c.tried \in Nat /\ c.steps \in Nat
      /\ Len(parts) \in Nat
  BY CursorFacts
<1>2. ASSUME NEW n \in Nat PROVE Missed(n) \in Result /\ [at |-> n, steps |-> c.steps] \in Result
  BY <1>1 DEF Missed, Result
<1>3. CASE c.part > Len(parts)
  BY <1>1, <1>2, <1>3 DEF RightStep
<1>4. CASE c.part <= Len(parts) /\ part.kind = "bytes"
  <2> DEFINE s == c.steps + Len(part.bytes)
             d == Cursor(c.part + 1, c.at + Len(part.bytes), 0, s)
  <2>1. s \in Nat /\ c.at + Len(part.bytes) \in Nat
    <3>1. c.part \in 1..Len(parts)
      BY <1>1, <1>4
    <3>2. Len(part.bytes) \in Nat
      BY <3>1, PartFacts
    <3> HIDE DEF part
    <3> QED BY <1>1, <3>2
  <2>2. RightAt(parts, c, d) /\ d \in S
    BY <1>4, <2>1, RightCalls DEF RightAt
  <2>3. \A h : RightStep(parts, text, fold, h, c)
                 = IF s > MaxSteps \/ ~bytes_match(part.bytes, text, c.at, fold) THEN Missed(s) ELSE h[d]
    BY <1>1, <1>4 DEF RightStep
  <2> HIDE DEF d, s
  <2>4. f[d] \in Result /\ (same => f[d] = g[d])
    BY <2>2
  <2> QED BY <1>2, <2>1, <2>3, <2>4
<1>5. CASE c.part <= Len(parts) /\ part.kind # "bytes"
  <2> DEFINE skip == part.min + c.tried
             d == Cursor(c.part + 1, c.at + skip, 0, c.steps + 1)
             e(n) == Cursor(c.part, c.at, c.tried + 1, n)
  <2>1. skip \in Nat /\ c.at + skip \in Nat /\ c.steps + 1 \in Nat
        /\ (~(skip > Limit(part)) => c.tried <= MaxGap)
    <3>1. c.part \in 1..Len(parts)
      BY <1>1, <1>5
    <3>2. part.min \in Nat /\ Limit(part) \in Nat /\ Limit(part) <= MaxGap /\ MaxGap \in Nat
      BY <3>1, PartFacts
    <3> HIDE DEF part
    <3>3. skip \in Nat /\ (~(skip > Limit(part)) => c.tried <= MaxGap)
      BY <1>1, <3>2
    <3> QED BY <1>1, <3>3
  <2>2. RightAt(parts, c, d) /\ d \in S
    BY <1>5, <2>1, RightCalls DEF RightAt
  <2>3. c.tried <= MaxGap => \A n \in Nat : RightAt(parts, c, e(n)) /\ e(n) \in S
    BY <1>5, RightCalls DEF RightAt
  <2>4. \A h : RightStep(parts, text, fold, h, c)
                 = IF skip > Limit(part) THEN Missed(c.steps)
                   ELSE IF c.steps + 1 > MaxSteps \/ c.at + skip > Len(text) THEN Missed(c.steps + 1)
                   ELSE IF h[d].at # None THEN h[d] ELSE h[e(h[d].steps)]
    BY <1>1, <1>5 DEF RightStep
  <2> HIDE DEF d, e, skip
  <2>5. f[d] \in Result /\ f[d].steps \in Nat /\ (same => f[d] = g[d])
    <3>1. f[d] \in Result
      BY <2>2
    <3> QED BY <2>2, <3>1 DEF Result
  <2>6. c.tried <= MaxGap => f[e(f[d].steps)] \in Result /\ (same => f[e(f[d].steps)] = g[e(f[d].steps)])
    BY <2>3, <2>5
  <2> QED BY <1>1, <1>2, <2>1, <2>4, <2>5, <2>6
<1> QED BY <1>1, <1>3, <1>4, <1>5

\* match_right takes its steps.
LEMMA RightExists ==
  ASSUME NEW parts \in Seq(PartType), NEW text, NEW fold
  PROVE  /\ Rightward(parts, text, fold) \in [Cursors(1..(Len(parts) + 1)) -> Result]
         /\ \A c \in Cursors(1..(Len(parts) + 1)) :
              Rightward(parts, text, fold)[c] = RightStep(parts, text, fold, Rightward(parts, text, fold), c)
<1> DEFINE S == Cursors(1..(Len(parts) + 1))
           N == Rank(Len(parts), 0)
           rank == RightRank(parts)
           G == [p \in [S -> Result] \X S |-> RightStep(parts, text, fold, p[1], p[2])]
           R == Rightward(parts, text, fold)
<1>1. N \in Nat /\ rank \in [S -> 0..N]
  BY RightRanked
<1>2. \A f \in [S -> Result], d \in S : RightStep(parts, text, fold, f, d) \in Result
  BY RightStepFacts
<1>3. ASSUME NEW f \in [S -> Result], NEW g \in [S -> Result], NEW d \in S,
             \A e \in S : rank[e] < rank[d] => f[e] = g[e]
      PROVE  RightStep(parts, text, fold, f, d) = RightStep(parts, text, fold, g, d)
  <2>1. \A e \in S : RightAt(parts, d, e) => f[e] = g[e]
    BY <1>3 DEF RightAt
  <2> QED BY <2>1, RightStepFacts
<1>4. /\ \A f \in [S -> Result], d \in S : G[<<f, d>>] = RightStep(parts, text, fold, f, d)
      /\ G \in [[S -> Result] \X S -> Result]
  BY <1>2
<1> HIDE DEF G, N, S, rank
<1>5. LooksBack(G, S, Result, rank)
  BY <1>3, <1>4 DEF LooksBack
<1>6. Missed(0) \in Result
  BY DEF Missed, Result
<1>7. PICK f \in [S -> Result] : Recurs(f, G, S)
  BY <1>1, <1>5, <1>6, RecursionExists
<1>8. f = [d \in S |-> RightStep(parts, text, fold, f, d)]
  <2>1. f = [d \in S |-> G[<<f, d>>]]
    BY <1>7 DEF Recurs
  <2> QED BY <1>4, <2>1
<1>9. f = RightBody(parts, text, fold, f)
  BY <1>8 DEF RightBody, S
<1>10. R = RightBody(parts, text, fold, R)
  BY <1>9 DEF Rightward
<1> HIDE DEF R
<1>11. R = [d \in S |-> RightStep(parts, text, fold, R, d)]
  BY <1>10 DEF RightBody, S
<1>12. \A c \in S : R[c] = RightStep(parts, text, fold, R, c)
  BY <1>11
<1> DEFINE Good == {c \in S : f[c] = R[c]}
<1>13. rank \in [S -> Nat]
  BY RightRanked DEF rank, S
<1>14. ASSUME NEW d \in S, \A e \in S : rank[e] < rank[d] => e \in Good
       PROVE  d \in Good
  <2>1. \A e \in S : rank[e] < rank[d] => f[e] = R[e]
    BY <1>14
  <2>2. \A e \in S : RightAt(parts, d, e) => f[e] = R[e]
    BY <2>1 DEF RightAt, rank, S
  <2>3. RightStep(parts, text, fold, f, d) = RightStep(parts, text, fold, R, d)
    BY <2>2, RightStepFacts DEF S
  <2>4. f[d] = RightStep(parts, text, fold, f, d)
    BY <1>8
  <2> QED BY <1>12, <2>3, <2>4
<1> HIDE DEF Good
<1>15. \A d \in S : d \in Good
  BY <1>13, <1>14, ByRank
<1>16. \A d \in S : R[d] = f[d]
  BY <1>15 DEF Good
<1>17. R \in [S -> Result]
  BY <1>11, <1>16
<1> QED BY <1>12, <1>17 DEF R, S

\* A cut of the text into the parts after the i-th, up to the j-th.
Chain(parts, text, fold, i, j, cut) ==
  /\ cut \in [i..j -> 0..Len(text)]
  /\ \A p \in (i + 1)..j : Fits(parts[p], text, cut[p - 1], cut[p], fold)

Agree(f, g, i, j) == \A p \in i..j : f[p] = g[p]

\* A piece of a cut is a cut.
LEMMA ChainPiece ==
  ASSUME NEW parts, NEW text, NEW fold, NEW i \in Nat, NEW j \in Nat, NEW cut,
         Chain(parts, text, fold, i, j, cut), NEW k \in Nat, NEW m \in Nat, i <= k, k <= m, m <= j
  PROVE  \E new : Chain(parts, text, fold, k, m, new) /\ Agree(new, cut, k, m)
<1> DEFINE new == [p \in k..m |-> cut[p]]
<1>1. \A p \in k..m : p \in i..j
  OBVIOUS
<1>2. new \in [k..m -> 0..Len(text)]
  BY <1>1 DEF Chain
<1>3. \A p \in k..m : new[p] = cut[p]
  OBVIOUS
<1> HIDE DEF new
<1>4. ASSUME NEW p \in (k + 1)..m PROVE Fits(parts[p], text, new[p - 1], new[p], fold)
  <2>1. p \in (i + 1)..j /\ p - 1 \in k..m /\ p \in k..m
    OBVIOUS
  <2>2. Fits(parts[p], text, cut[p - 1], cut[p], fold)
    BY <2>1 DEF Chain
  <2>3. new[p] = cut[p] /\ new[p - 1] = cut[p - 1]
    BY <1>3, <2>1
  <2> QED BY <2>2, <2>3
<1> QED BY <1>2, <1>3, <1>4 DEF Chain, Agree

\* A cut with one more part in front.
LEMMA ChainBefore ==
  ASSUME NEW parts, NEW text, NEW fold, NEW j \in Nat, NEW i \in 1..j, NEW cut,
         Chain(parts, text, fold, i, j, cut), NEW at \in 0..Len(text),
         Fits(parts[i], text, at, cut[i], fold)
  PROVE  \E new : Chain(parts, text, fold, i - 1, j, new) /\ new[i - 1] = at /\ new[j] = cut[j]
<1> DEFINE new == [p \in (i - 1)..j |-> IF p = i - 1 THEN at ELSE cut[p]]
<1>1. \A p \in (i - 1)..j : p # i - 1 => p \in i..j
  OBVIOUS
<1>2. new \in [(i - 1)..j -> 0..Len(text)]
  BY <1>1 DEF Chain
<1>3. new[i - 1] = at /\ \A p \in i..j : new[p] = cut[p]
  OBVIOUS
<1> HIDE DEF new
<1>4. ASSUME NEW p \in (i - 1 + 1)..j PROVE Fits(parts[p], text, new[p - 1], new[p], fold)
  <2>1. CASE p = i
    <3>1. new[i] = cut[i] /\ p - 1 = i - 1
      BY <1>3, <2>1
    <3> QED BY <1>3, <2>1, <3>1
  <2>2. CASE p # i
    <3>1. p \in (i + 1)..j /\ p - 1 \in i..j /\ p \in i..j
      BY <2>2
    <3>2. Fits(parts[p], text, cut[p - 1], cut[p], fold)
      BY <3>1 DEF Chain
    <3>3. new[p] = cut[p] /\ new[p - 1] = cut[p - 1]
      BY <1>3, <3>1
    <3> QED BY <3>2, <3>3
  <2> QED BY <2>1, <2>2
<1>5. j \in i..j
  OBVIOUS
<1> QED BY <1>2, <1>3, <1>4, <1>5 DEF Chain

\* A cut with one more part behind.
LEMMA ChainAfter ==
  ASSUME NEW parts, NEW text, NEW fold, NEW i \in Nat, NEW j \in Nat, i < j, NEW cut,
         Chain(parts, text, fold, i, j - 1, cut), NEW at \in 0..Len(text),
         Fits(parts[j], text, cut[j - 1], at, fold)
  PROVE  \E new : Chain(parts, text, fold, i, j, new) /\ new[i] = cut[i] /\ new[j] = at
<1> DEFINE new == [p \in i..j |-> IF p = j THEN at ELSE cut[p]]
<1>1. \A p \in i..j : p # j => p \in i..(j - 1)
  OBVIOUS
<1>2. new \in [i..j -> 0..Len(text)]
  BY <1>1 DEF Chain
<1>3. new[j] = at /\ \A p \in i..(j - 1) : new[p] = cut[p]
  OBVIOUS
<1> HIDE DEF new
<1>4. ASSUME NEW p \in (i + 1)..j PROVE Fits(parts[p], text, new[p - 1], new[p], fold)
  <2>1. CASE p = j
    <3>1. j - 1 \in i..(j - 1)
      OBVIOUS
    <3>2. new[j - 1] = cut[j - 1]
      BY <1>3, <3>1
    <3> QED BY <1>3, <2>1, <3>2
  <2>2. CASE p # j
    <3>1. p \in (i + 1)..(j - 1) /\ p - 1 \in i..(j - 1) /\ p \in i..(j - 1)
      BY <2>2
    <3>2. Fits(parts[p], text, cut[p - 1], cut[p], fold)
      BY <3>1 DEF Chain
    <3>3. new[p] = cut[p] /\ new[p - 1] = cut[p - 1]
      BY <1>3, <3>1
    <3> QED BY <3>2, <3>3
  <2> QED BY <2>1, <2>2
<1>5. i \in i..(j - 1)
  OBVIOUS
<1> QED BY <1>2, <1>3, <1>4, <1>5 DEF Chain

HasCut(parts, text, fold, i, j, from, to) ==
  \E cut : Chain(parts, text, fold, i, j, cut) /\ cut[i] = from /\ cut[j] = to

\* Where a cut of no parts lies.
LEMMA ChainOfNone ==
  ASSUME NEW parts, NEW text, NEW fold, NEW i \in Nat, NEW at \in Nat, Len(text) \in Nat,
         at <= Len(text)
  PROVE  HasCut(parts, text, fold, i, i, at, at)
<1> DEFINE new == [p \in i..i |-> at]
<1>1. new \in [i..i -> 0..Len(text)] /\ i \in i..i
  OBVIOUS
<1>2. new[i] = at
  BY <1>1
<1> HIDE DEF new
<1>3. \A p \in (i + 1)..i : FALSE
  OBVIOUS
<1> QED BY <1>1, <1>2, <1>3 DEF Chain, HasCut

-----------------------------------------------------------------------------
(* What match_right finds.                                                 *)

\* A cut of what is left, of the lengths that are left.
IsRest(parts, text, fold, c, cut) ==
  /\ Chain(parts, text, fold, c.part - 1, Len(parts), cut) /\ cut[c.part - 1] = c.at
  /\ c.part <= Len(parts) /\ parts[c.part].kind # "bytes" =>
       c.at + (parts[c.part].min + c.tried) <= cut[c.part]
RightMeans(parts, text, fold, c, r) ==
  c.at <= Len(text) =>
    /\ c.steps <= r.steps
    /\ r.at # None => \E cut : /\ Chain(parts, text, fold, c.part - 1, Len(parts), cut)
                               /\ cut[c.part - 1] = c.at /\ cut[Len(parts)] = r.at
    /\ r.at = None /\ r.steps <= MaxSteps => \A cut : ~IsRest(parts, text, fold, c, cut)

\* The first of the parts left, and the rest of them.
LEMMA FirstOfRest ==
  ASSUME NEW parts \in Seq(PartType), NEW text, NEW fold,
         NEW c \in Cursors(1..(Len(parts) + 1)), c.part <= Len(parts), NEW cut,
         IsRest(parts, text, fold, c, cut), NEW k \in Nat, NEW s
  PROVE  /\ Fits(parts[c.part], text, c.at, cut[c.part], fold) /\ cut[c.part] \in 0..Len(text)
         /\ k = 0 => \E new : IsRest(parts, text, fold, Cursor(c.part + 1, cut[c.part], k, s), new)
<1> DEFINE i == c.part
           L == Len(parts)
<1>1. L \in Nat /\ i \in 1..L /\ i - 1 \in Nat /\ i \in (i - 1)..L /\ L \in i..L /\ i \in ((i - 1) + 1)..L
  <2>1. c.part \in 1..(Len(parts) + 1) /\ Len(parts) \in Nat
    BY CursorFacts
  <2> QED BY <2>1
<1>2. Chain(parts, text, fold, i - 1, L, cut) /\ cut[i - 1] = c.at
  BY DEF IsRest
<1> HIDE DEF i, L
<1>3. Fits(parts[i], text, c.at, cut[i], fold) /\ cut[i] \in 0..Len(text)
  BY <1>1, <1>2 DEF Chain
<1>4. PICK new : Chain(parts, text, fold, i, L, new) /\ Agree(new, cut, i, L)
  <2> DEFINE h == i - 1
  <2>1. h \in Nat /\ i \in Nat /\ h <= i /\ i <= L /\ L <= L /\ L \in Nat /\ Chain(parts, text, fold, h, L, cut)
    BY <1>1, <1>2
  <2> HIDE DEF h
  <2> QED BY <2>1, ChainPiece
<1>5. ASSUME k = 0 PROVE IsRest(parts, text, fold, Cursor(i + 1, cut[i], k, s), new)
  <2> DEFINE d == Cursor(i + 1, cut[i], k, s)
  <2>1. d.part = i + 1 /\ d.at = cut[i] /\ d.tried = 0
    BY <1>5 DEF Cursor
  <2> HIDE DEF d
  <2>2. i + 1 - 1 = i /\ new[i] = cut[i]
    BY <1>1, <1>4 DEF Agree
  <2>3. ASSUME i + 1 <= L, parts[i + 1].kind # "bytes"
        PROVE  cut[i] + (parts[i + 1].min + 0) <= new[i + 1]
    <3>1. i + 1 \in (i + 1)..L /\ i + 1 \in i..L /\ i + 1 \in 1..L
      BY <1>1, <2>3
    <3>2. Fits(parts[i + 1], text, new[i], new[i + 1], fold)
      <4>1. Fits(parts[i + 1], text, new[i + 1 - 1], new[i + 1], fold)
        <5> DEFINE q == i + 1
        <5>0. q - 1 = i + 1 - 1
          BY <1>1
        <5>1. q \in (i + 1)..L
          BY <3>1
        <5> HIDE DEF q
        <5>2. Fits(parts[q], text, new[q - 1], new[q], fold)
          BY <1>4, <5>1 DEF Chain
        <5> QED BY <5>0, <5>2 DEF q
      <4> QED BY <2>2, <4>1
    <3>3. parts[i + 1].min \in Nat
      BY <3>1, PartFacts DEF L
    <3>4. new[i] \in 0..Len(text) /\ new[i + 1] \in 0..Len(text)
      BY <1>1, <1>4, <3>1 DEF Chain
    <3> QED BY <2>2, <2>3, <3>2, <3>3, <3>4 DEF Fits
  <2>4. IsRest(parts, text, fold, d, new)
    <3>1. d.part - 1 = i
      BY <1>1, <2>1
    <3>2. Chain(parts, text, fold, d.part - 1, Len(parts), new) /\ new[d.part - 1] = d.at
      BY <1>4, <2>1, <2>2, <3>1 DEF L
    <3>3. d.part <= Len(parts) /\ parts[d.part].kind # "bytes" =>
            d.at + (parts[d.part].min + d.tried) <= new[d.part]
      BY <2>1, <2>3 DEF L
    <3> QED BY <3>2, <3>3 DEF IsRest
  <2> QED BY <2>4 DEF d
<1> QED BY <1>3, <1>5 DEF i

\* Where match_right has come to an end.
LEMMA RightAtEnd ==
  ASSUME NEW parts \in Seq(PartType), NEW text \in Seq(Bytes), NEW fold,
         NEW c \in Cursors(1..(Len(parts) + 1)), c.part > Len(parts)
  PROVE  RightMeans(parts, text, fold, c, [at |-> c.at, steps |-> c.steps])
<1> DEFINE L == Len(parts)
<1>1. L \in Nat /\ Len(text) \in Nat /\ c.at \in Nat /\ c.steps \in Nat /\ c.part - 1 = L
  <2>1. c.part \in 1..(Len(parts) + 1) /\ Len(parts) \in Nat /\ Len(text) \in Nat /\ c.at \in Nat /\ c.steps \in Nat
    BY CursorFacts
  <2> QED BY <2>1
<1>2. c.at # None
  BY <1>1, PatternAssumption
<1>3. ASSUME c.at <= Len(text)
      PROVE  \E cut : Chain(parts, text, fold, L, L, cut) /\ cut[L] = c.at
  <2> HIDE DEF L
  <2>1. HasCut(parts, text, fold, L, L, c.at, c.at)
    BY <1>1, <1>3, ChainOfNone
  <2> QED BY <2>1 DEF HasCut
<1> HIDE DEF L
<1> QED BY <1>1, <1>2, <1>3 DEF RightMeans, L

\* A run of bytes: what follows it decides.
LEMMA RightAtBytes ==
  ASSUME NEW parts \in Seq(PartType), NEW text \in Seq(Bytes), NEW fold,
         NEW c \in Cursors(1..(Len(parts) + 1)), c.part <= Len(parts),
         parts[c.part].kind = "bytes",
         NEW R, \A d \in Cursors(1..(Len(parts) + 1)) : R[d] \in Result,
         \A d : RightAt(parts, c, d) => RightMeans(parts, text, fold, d, R[d])
  PROVE  RightMeans(parts, text, fold, c, RightStep(parts, text, fold, R, c))
<1> DEFINE L == Len(parts)
           i == c.part
           part == parts[i]
           n == Len(part.bytes)
           s == c.steps + n
           zero == 0
           d == Cursor(i + 1, c.at + n, zero, s)
<1>1. /\ L \in Nat /\ Len(text) \in Nat /\ c.at \in Nat /\ c.steps \in Nat /\ i \in 1..L /\ i - 1 \in 0..L
      /\ i \in (i - 1)..L /\ MaxSteps \in Nat
  <2>1. c.part \in 1..(Len(parts) + 1) /\ Len(parts) \in Nat /\ Len(text) \in Nat /\ c.at \in Nat /\ c.steps \in Nat
    BY CursorFacts
  <2> QED BY <2>1, PatternAssumption
<1>2. n \in Nat
  BY <1>1, PartFacts
<1>3. s \in Nat /\ c.at + n \in Nat /\ c.steps <= s
  <2> HIDE DEF n
  <2> QED BY <1>1, <1>2
<1>4. RightStep(parts, text, fold, R, c)
        = IF s > MaxSteps \/ ~bytes_match(part.bytes, text, c.at, fold) THEN Missed(s) ELSE R[d]
  BY <1>1 DEF RightStep
<1>5. d.part = i + 1 /\ d.at = c.at + n /\ d.tried = 0 /\ d.steps = s
  BY DEF Cursor
<1>6. RightAt(parts, c, d)
  BY <1>3, RightCalls
<1>7. d \in Cursors(1..(Len(parts) + 1))
  BY <1>6 DEF RightAt
<1>8. CASE s > MaxSteps \/ ~bytes_match(part.bytes, text, c.at, fold)
  <2>1. RightStep(parts, text, fold, R, c) = Missed(s)
    BY <1>4, <1>8
  <2>2. Missed(s).at = None /\ Missed(s).steps = s
    BY DEF Missed
  <2>3. ASSUME s <= MaxSteps, NEW cut, IsRest(parts, text, fold, c, cut) PROVE FALSE
    <3>1. Fits(parts[c.part], text, c.at, cut[c.part], fold)
      <4>1. 0 \in Nat
        OBVIOUS
      <4> QED BY <2>3, <4>1, FirstOfRest
    <3>2. bytes_match(part.bytes, text, c.at, fold)
      BY <3>1 DEF Fits
    <3>3. ~(s > MaxSteps)
      <4> HIDE DEF s
      <4> QED BY <1>1, <1>3, <2>3
    <3> QED BY <1>8, <3>2, <3>3
  <2> HIDE DEF s
  <2> QED BY <1>3, <2>1, <2>2, <2>3 DEF RightMeans
<1>9. CASE ~(s > MaxSteps \/ ~bytes_match(part.bytes, text, c.at, fold))
  <2>1. RightStep(parts, text, fold, R, c) = R[d]
    BY <1>4, <1>9
  <2>2. R[d] \in Result /\ R[d].steps \in Nat /\ RightMeans(parts, text, fold, d, R[d])
    BY <1>6, <1>7 DEF Result
  <2>3. c.at + n <= Len(text) /\ bytes_match(part.bytes, text, c.at, fold)
    BY <1>9 DEF bytes_match
  <2>4. Fits(part, text, c.at, c.at + n, fold)
    BY <2>3 DEF Fits
  <2> HIDE DEF d, s, n, part
  <2>5. s <= R[d].steps
    BY <1>5, <2>2, <2>3 DEF RightMeans
  <2>6. ASSUME R[d].at # None
        PROVE  \E cut : /\ Chain(parts, text, fold, i - 1, L, cut)
                        /\ cut[i - 1] = c.at /\ cut[L] = R[d].at
    <3>1. PICK cut : /\ Chain(parts, text, fold, d.part - 1, L, cut)
                     /\ cut[d.part - 1] = d.at /\ cut[L] = R[d].at
      BY <1>5, <2>2, <2>3, <2>6 DEF RightMeans
    <3>2. d.part - 1 = i
      BY <1>1, <1>5
    <3>3. Chain(parts, text, fold, i, L, cut) /\ cut[i] = c.at + n /\ cut[L] = R[d].at
      BY <1>5, <3>1, <3>2
    <3>4. c.at \in 0..Len(text)
      BY <1>1, <1>2, <2>3
    <3>5. Fits(parts[i], text, c.at, cut[i], fold)
      BY <2>4, <3>3 DEF part
    <3> HIDE DEF i, L
    <3> QED BY <1>1, <3>3, <3>4, <3>5, ChainBefore
  <2>7. ASSUME R[d].at = None, R[d].steps <= MaxSteps, NEW cut, IsRest(parts, text, fold, c, cut)
        PROVE  FALSE
    <3>1. zero \in Nat /\ zero = 0
      OBVIOUS
    <3> HIDE DEF zero
    <3>2. /\ Fits(parts[c.part], text, c.at, cut[c.part], fold)
          /\ \E new : IsRest(parts, text, fold, Cursor(c.part + 1, cut[c.part], zero, s), new)
      BY <2>7, <3>1, FirstOfRest
    <3>3. cut[c.part] = c.at + n
      BY <3>2 DEF Fits, part, n
    <3>4. \E new : IsRest(parts, text, fold, d, new)
      BY <3>2, <3>3 DEF d
    <3> QED BY <1>5, <2>2, <2>3, <2>7, <3>4 DEF RightMeans
  <2>8. c.steps <= R[d].steps
    BY <1>1, <1>3, <2>2, <2>5
  <2> QED BY <2>1, <2>6, <2>7, <2>8 DEF RightMeans, i, L
<1> QED BY <1>8, <1>9

\* A gap: its first length, or the next ones.
LEMMA RightAtGap ==
  ASSUME NEW parts \in Seq(PartType), NEW text \in Seq(Bytes), NEW fold,
         NEW c \in Cursors(1..(Len(parts) + 1)), c.part <= Len(parts),
         parts[c.part].kind # "bytes",
         NEW R, \A d \in Cursors(1..(Len(parts) + 1)) : R[d] \in Result,
         \A d : RightAt(parts, c, d) => RightMeans(parts, text, fold, d, R[d])
  PROVE  RightMeans(parts, text, fold, c, RightStep(parts, text, fold, R, c))
<1> DEFINE L == Len(parts)
           i == c.part
           part == parts[i]
           skip == part.min + c.tried
           zero == 0
           one == c.steps + 1
           d == Cursor(i + 1, c.at + skip, zero, one)
           e == Cursor(i, c.at, c.tried + 1, R[d].steps)
           step == RightStep(parts, text, fold, R, c)
<1>1. /\ L \in Nat /\ Len(text) \in Nat /\ c.at \in Nat /\ c.steps \in Nat /\ i \in 1..L
      /\ MaxSteps \in Nat /\ c.tried \in Nat /\ i - 1 \in Nat
  <2>1. /\ c.part \in 1..(Len(parts) + 1) /\ Len(parts) \in Nat /\ Len(text) \in Nat /\ c.at \in Nat
        /\ c.steps \in Nat /\ c.tried \in Nat
    BY CursorFacts
  <2> QED BY <2>1, PatternAssumption
<1>2. part.min \in Nat /\ Limit(part) \in Nat /\ Limit(part) <= MaxGap /\ MaxGap \in Nat
  BY <1>1, PartFacts
<1>3. skip \in Nat /\ c.at + skip \in Nat /\ one \in Nat /\ (~(skip > Limit(part)) => c.tried <= MaxGap)
  <2> HIDE DEF part
  <2>1. skip \in Nat /\ (~(skip > Limit(part)) => c.tried <= MaxGap)
    BY <1>1, <1>2
  <2> QED BY <1>1, <2>1
<1>4. step = IF skip > Limit(part) THEN Missed(c.steps)
             ELSE IF one > MaxSteps \/ c.at + skip > Len(text) THEN Missed(one)
             ELSE IF R[d].at # None THEN R[d] ELSE R[e]
  BY <1>1 DEF RightStep
<1>5. d.part = i + 1 /\ d.at = c.at + skip /\ d.tried = 0 /\ d.steps = one
  BY DEF Cursor
<1>6. RightAt(parts, c, d) /\ d \in Cursors(1..(Len(parts) + 1))
  BY <1>3, RightCalls DEF RightAt
<1>7. R[d] \in Result /\ R[d].steps \in Nat /\ RightMeans(parts, text, fold, d, R[d])
  BY <1>6 DEF Result
<1>8. ASSUME NEW cut, IsRest(parts, text, fold, c, cut)
      PROVE  /\ cut[i] \in 0..Len(text) /\ c.at + skip <= cut[i] /\ cut[i] - c.at <= Limit(part)
             /\ \E new : IsRest(parts, text, fold, Cursor(i + 1, cut[i], zero, one), new)
  <2>1. zero \in Nat /\ zero = 0
    OBVIOUS
  <2> HIDE DEF zero
  <2>2. /\ Fits(parts[c.part], text, c.at, cut[c.part], fold) /\ cut[c.part] \in 0..Len(text)
        /\ \E new : IsRest(parts, text, fold, Cursor(c.part + 1, cut[c.part], zero, one), new)
    BY <1>8, <2>1, FirstOfRest
  <2>3. c.at + skip <= cut[i]
    BY <1>8, <1>1 DEF IsRest
  <2> QED BY <2>2, <2>3 DEF Fits
<1> HIDE DEF d, e, one, zero
<1>9. CASE skip > Limit(part)
  <2>1. step = Missed(c.steps) /\ Missed(c.steps).at = None /\ Missed(c.steps).steps = c.steps
    BY <1>4, <1>9 DEF Missed
  <2>2. ASSUME NEW cut, IsRest(parts, text, fold, c, cut) PROVE FALSE
    <3>1. cut[i] \in 0..Len(text) /\ c.at + skip <= cut[i] /\ cut[i] - c.at <= Limit(part)
      BY <1>8, <2>2
    <3> HIDE DEF part, skip
    <3> QED BY <1>1, <1>2, <1>3, <1>9, <3>1
  <2> QED BY <1>1, <2>1, <2>2 DEF RightMeans
<1>10. CASE ~(skip > Limit(part)) /\ (one > MaxSteps \/ c.at + skip > Len(text))
  <2>1. step = Missed(one) /\ Missed(one).at = None /\ Missed(one).steps = one
    BY <1>4, <1>10 DEF Missed
  <2>2. ASSUME one <= MaxSteps, NEW cut, IsRest(parts, text, fold, c, cut) PROVE FALSE
    <3>1. cut[i] \in 0..Len(text) /\ c.at + skip <= cut[i]
      BY <1>8, <2>2
    <3> HIDE DEF part, skip
    <3> QED BY <1>1, <1>2, <1>3, <1>10, <2>2, <3>1
  <2>3. c.steps <= one
    BY <1>1 DEF one
  <2> QED BY <1>1, <2>1, <2>2, <2>3 DEF RightMeans
<1>11. CASE ~(skip > Limit(part)) /\ ~(one > MaxSteps \/ c.at + skip > Len(text))
  <2>1. d.at <= Len(text) /\ c.steps <= one
    <3>1. c.at + skip <= Len(text)
      BY <1>1, <1>3, <1>11
    <3> QED BY <1>1, <1>5, <3>1 DEF one
  <2>2. one <= R[d].steps
    BY <1>5, <1>7, <2>1 DEF RightMeans
  <2>3. CASE R[d].at # None
    <3>1. step = R[d]
      BY <1>4, <1>11, <2>3
    <3>2. PICK cut : /\ Chain(parts, text, fold, d.part - 1, L, cut)
                     /\ cut[d.part - 1] = d.at /\ cut[L] = R[d].at
      BY <1>7, <2>1, <2>3 DEF RightMeans
    <3>3. d.part - 1 = i
      BY <1>1, <1>5
    <3>4. Chain(parts, text, fold, i, L, cut) /\ cut[i] = c.at + skip /\ cut[L] = R[d].at
      BY <1>5, <3>2, <3>3
    <3>5. c.at \in 0..Len(text)
      <4> HIDE DEF skip
      <4> QED BY <1>1, <1>3, <1>5, <2>1
    <3>6. Fits(parts[i], text, c.at, cut[i], fold)
      <4> DEFINE m == part.min
                 lim == Limit(part)
                 to == cut[i]
      <4>1. m \in Nat /\ skip = m + c.tried /\ lim \in Nat /\ ~(skip > lim) /\ to = c.at + skip
        BY <1>2, <1>11, <3>4
      <4> HIDE DEF m, lim, skip, to
      <4>2. c.at <= to /\ m <= to - c.at /\ to - c.at <= lim
        <5> DEFINE at == c.at
                   k == c.tried
        <5>1. at \in Nat /\ k \in Nat /\ m \in Nat /\ lim \in Nat /\ skip \in Nat
          BY <1>1, <1>3, <4>1
        <5>2. skip = m + k /\ to = at + skip /\ ~(skip > lim)
          BY <4>1
        <5> HIDE DEF at, k
        <5>3. at <= to /\ m <= to - at /\ to - at <= lim
          BY <5>1, <5>2
        <5> QED BY <5>3 DEF at
      <4> QED BY <4>2 DEF Fits, m, lim, to
    <3>7. c.steps <= R[d].steps
      BY <1>1, <1>3, <1>7, <2>1, <2>2
    <3> HIDE DEF i, L
    <3>8. \E new : Chain(parts, text, fold, i - 1, L, new) /\ new[i - 1] = c.at /\ new[L] = cut[L]
      BY <1>1, <3>4, <3>5, <3>6, ChainBefore
    <3> QED BY <2>3, <3>1, <3>4, <3>7, <3>8 DEF RightMeans, i, L
  <2>4. CASE R[d].at = None
    <3>1. step = R[e]
      BY <1>4, <1>11, <2>4
    <3>2. RightAt(parts, c, e)
      BY <1>3, <1>7, <1>11, RightCalls DEF e
    <3>3. R[e] \in Result /\ R[e].steps \in Nat /\ RightMeans(parts, text, fold, e, R[e])
      BY <3>2 DEF Result, RightAt
    <3>4. e.part = i /\ e.at = c.at /\ e.tried = c.tried + 1 /\ e.steps = R[d].steps
      BY DEF Cursor, e
    <3>5. c.at <= Len(text)
      <4> HIDE DEF skip
      <4> QED BY <1>1, <1>3, <1>5, <2>1
    <3>6. c.steps <= R[e].steps /\ R[d].steps <= R[e].steps
      <4>1. R[d].steps <= R[e].steps
        BY <3>3, <3>4, <3>5 DEF RightMeans
      <4>2. R[d].steps \in Nat /\ R[e].steps \in Nat /\ one \in Nat
        BY <1>3, <1>7, <3>3
      <4> QED BY <1>1, <2>1, <2>2, <4>1, <4>2
    <3>7. ASSUME R[e].at = None, R[e].steps <= MaxSteps, NEW cut, IsRest(parts, text, fold, c, cut)
          PROVE  FALSE
      <4>1. /\ cut[i] \in 0..Len(text) /\ c.at + skip <= cut[i]
            /\ \E new : IsRest(parts, text, fold, Cursor(i + 1, cut[i], zero, one), new)
        BY <1>8, <3>7
      <4>2. R[d].steps <= MaxSteps
        BY <1>1, <1>7, <3>3, <3>6, <3>7
      <4>3. \A new : ~IsRest(parts, text, fold, d, new)
        BY <1>7, <2>1, <2>4, <4>2 DEF RightMeans
      <4>4. cut[i] # c.at + skip
        BY <4>1, <4>3 DEF d
      <4>5. c.at + (part.min + (c.tried + 1)) <= cut[i]
        <5> DEFINE m == part.min
        <5>1. m \in Nat /\ skip = m + c.tried
          BY <1>2
        <5>2. c.at + (m + (c.tried + 1)) = c.at + skip + 1
          <6> HIDE DEF m
          <6> QED BY <1>1, <5>1
        <5> HIDE DEF m, skip
        <5>3. c.at + skip + 1 <= cut[i]
          <6>1. cut[i] \in Nat /\ c.at + skip \in Nat
            BY <1>1, <1>3, <4>1
          <6>2. c.at + skip <= cut[i] /\ cut[i] # c.at + skip
            BY <4>1, <4>4
          <6> DEFINE x == c.at + skip
          <6> HIDE DEF x
          <6>3. x + 1 <= cut[i]
            BY <6>1, <6>2 DEF x
          <6> QED BY <6>3 DEF x
        <5> QED BY <5>2, <5>3 DEF m
      <4>6. IsRest(parts, text, fold, e, cut)
        BY <3>4, <3>7, <4>5 DEF IsRest
      <4> QED BY <3>3, <3>4, <3>5, <3>7, <4>6 DEF RightMeans
    <3>8. RightMeans(parts, text, fold, c, R[e])
      BY <3>3, <3>4, <3>6, <3>7 DEF RightMeans
    <3> QED BY <3>1, <3>8
  <2> QED BY <2>3, <2>4
<1> QED BY <1>9, <1>10, <1>11

\* What is found, and after how many steps.
EndFound(parts, text, fold, first, from, steps, r) ==
  /\ r \in Result /\ steps <= r.steps
  /\ r.at # None => HasCut(parts, text, fold, first - 1, Len(parts), from, r.at)
  /\ r.at = None /\ r.steps <= MaxSteps =>
       \A to : ~HasCut(parts, text, fold, first - 1, Len(parts), from, to)

\* match_right finds an end if there is one, and none if there is none.
LEMMA MatchRight ==
  ASSUME NEW parts \in Seq(PartType), NEW text \in Seq(Bytes), NEW fold,
         NEW first \in Nat, 1 <= first, first <= Len(parts) + 1,
         NEW from \in Nat, from <= Len(text), NEW steps \in Nat, NEW r,
         r = match_right(parts, first, text, from, steps, fold)
  PROVE  EndFound(parts, text, fold, first, from, steps, r)
<1> DEFINE S == Cursors(1..(Len(parts) + 1))
           R == Rightward(parts, text, fold)
           Good == {c \in S : RightMeans(parts, text, fold, c, R[c])}
           zero == 0
           c == Cursor(first, from, zero, steps)
<1>1. /\ \A d \in S : R[d] \in Result
      /\ \A d \in S : R[d] = RightStep(parts, text, fold, R, d)
  <2>1. R \in [S -> Result]
    BY RightExists
  <2>2. \A d \in S : R[d] = RightStep(parts, text, fold, R, d)
    BY RightExists
  <2> HIDE DEF R, S
  <2> QED BY <2>1, <2>2
<1> HIDE DEF R
<1>2. ASSUME NEW d \in S, \A e \in S : RightRank(parts)[e] < RightRank(parts)[d] => e \in Good
      PROVE  d \in Good
  <2>1. \A e : RightAt(parts, d, e) => RightMeans(parts, text, fold, e, R[e])
    BY <1>2 DEF RightAt
  <2>2. R[d] = RightStep(parts, text, fold, R, d)
    BY <1>1
  <2>3. CASE d.part > Len(parts)
    <3>1. R[d] = [at |-> d.at, steps |-> d.steps]
      BY <2>2, <2>3 DEF RightStep
    <3> QED BY <2>3, <3>1, RightAtEnd
  <2>4. CASE d.part <= Len(parts) /\ parts[d.part].kind = "bytes"
    <3>1. RightMeans(parts, text, fold, d, RightStep(parts, text, fold, R, d))
      BY <1>1, <2>1, <2>4, RightAtBytes
    <3> QED BY <2>2, <3>1
  <2>5. CASE d.part <= Len(parts) /\ parts[d.part].kind # "bytes"
    <3>1. RightMeans(parts, text, fold, d, RightStep(parts, text, fold, R, d))
      BY <1>1, <2>1, <2>5, RightAtGap
    <3> QED BY <2>2, <3>1
  <2>6. d.part \in 1..(Len(parts) + 1) /\ Len(parts) \in Nat
    BY CursorFacts
  <2> QED BY <2>3, <2>4, <2>5, <2>6
<1>3. RightRank(parts) \in [S -> Nat]
  BY RightRanked
<1> HIDE DEF Good, S
<1>4. \A d \in S : d \in Good
  BY <1>2, <1>3, ByRank
<1>5. c \in S /\ c.part = first /\ c.at = from /\ c.tried = 0 /\ c.steps = steps
  <2>1. first \in 1..(Len(parts) + 1) /\ MaxGap \in Nat
    BY PatternAssumption
  <2> QED BY <2>1 DEF S, Cursors, Cursor
<1>6. r = R[c]
  BY RightIs DEF R
<1> HIDE DEF c
<1>7. R[c] \in Result /\ RightMeans(parts, text, fold, c, R[c])
  BY <1>1, <1>4, <1>5 DEF Good
<1>8. r \in Result /\ steps <= r.steps
  BY <1>5, <1>6, <1>7 DEF RightMeans
<1>9. r.at # None => HasCut(parts, text, fold, first - 1, Len(parts), from, r.at)
  BY <1>5, <1>6, <1>7 DEF RightMeans, HasCut
<1>10. ASSUME r.at = None, r.steps <= MaxSteps, NEW to,
              HasCut(parts, text, fold, first - 1, Len(parts), from, to)
       PROVE  FALSE
  <2>1. PICK cut : Chain(parts, text, fold, first - 1, Len(parts), cut) /\ cut[first - 1] = from
    BY <1>10 DEF HasCut
  <2>2. ASSUME first <= Len(parts), parts[first].kind # "bytes"
        PROVE  from + (parts[first].min + 0) <= cut[first]
    <3> DEFINE i == first
    <3>1. i \in (first - 1 + 1)..Len(parts) /\ i \in 1..Len(parts) /\ i \in (first - 1)..Len(parts)
      BY <2>2
    <3> HIDE DEF i
    <3>2. Fits(parts[i], text, cut[i - 1], cut[i], fold) /\ cut[i] \in 0..Len(text)
      BY <2>1, <3>1 DEF Chain
    <3>3. parts[i].min \in Nat
      BY <3>1, PartFacts
    <3>4. Fits(parts[first], text, from, cut[first], fold) /\ cut[first] \in 0..Len(text)
          /\ parts[first].min \in Nat
      BY <2>1, <3>2, <3>3 DEF i
    <3> QED BY <2>2, <3>4 DEF Fits
  <2>3. IsRest(parts, text, fold, c, cut)
    BY <1>5, <2>1, <2>2 DEF IsRest
  <2> QED BY <1>5, <1>6, <1>7, <1>10, <2>3 DEF RightMeans
<1> QED BY <1>8, <1>9, <1>10 DEF EndFound

-----------------------------------------------------------------------------
(* Matching the parts before the anchor.                                   *)

\* One step of match_left, with what it calls given by f.
LeftStep(parts, text, fold, f, c) ==
  LET part == parts[c.part] IN
  IF c.part = 0 THEN [at |-> c.at, steps |-> c.steps]
  ELSE IF part.kind = "bytes"
  THEN LET n == Len(part.bytes) s == c.steps + n IN
       IF n > c.at \/ s > MaxSteps \/ ~bytes_match(part.bytes, text, c.at - n, fold)
       THEN Missed(s) ELSE f[Cursor(c.part - 1, c.at - n, 0, s)]
  ELSE LET skip == part.min + c.tried IN
       IF skip > Limit(part) THEN Missed(c.steps)
       ELSE IF c.steps + 1 > MaxSteps \/ skip > c.at THEN Missed(c.steps + 1)
       ELSE LET rest == f[Cursor(c.part - 1, c.at - skip, 0, c.steps + 1)] IN
            IF rest.at # None THEN rest
            ELSE f[Cursor(c.part, c.at, c.tried + 1, rest.steps)]
LeftBody(parts, text, fold, f) ==
  [c \in Cursors(0..Len(parts)) |-> LeftStep(parts, text, fold, f, c)]
Leftward(parts, text, fold) == CHOOSE f : f = LeftBody(parts, text, fold, f)

\* match_left is that recursion.
LEMMA LeftIs ==
  ASSUME NEW parts, NEW last, NEW text, NEW from, NEW steps, NEW fold
  PROVE  match_left(parts, last, text, from, steps, fold)
           = Leftward(parts, text, fold)[Cursor(last, from, 0, steps)]
BY DEF match_left, Leftward, LeftBody, LeftStep

LeftRank(parts) == [c \in Cursors(0..Len(parts)) |-> Rank(c.part, c.tried)]
LeftAt(parts, c, d) == d \in Cursors(0..Len(parts)) /\ LeftRank(parts)[d] < LeftRank(parts)[c]

\* The rank is one.
LEMMA LeftRanked ==
  ASSUME NEW parts \in Seq(PartType)
  PROVE  /\ Rank(Len(parts), 0) \in Nat
         /\ LeftRank(parts) \in [Cursors(0..Len(parts)) -> 0..Rank(Len(parts), 0)]
         /\ LeftRank(parts) \in [Cursors(0..Len(parts)) -> Nat]
<1> DEFINE S == Cursors(0..Len(parts))
           N == Rank(Len(parts), 0)
<1>1. Len(parts) \in Nat
  OBVIOUS
<1>2. 0 <= MaxGap + 1 /\ 0 \in Nat
  BY PatternAssumption
<1>3. N \in Nat
  BY <1>1, <1>2, RankBound
<1> HIDE DEF N
<1>4. ASSUME NEW c \in S PROVE Rank(c.part, c.tried) \in 0..N
  <2>1. c.part \in 0..Len(parts) /\ c.tried \in Nat /\ c.tried <= MaxGap + 1
    BY CursorFacts
  <2> QED BY <1>1, <2>1, RankBound DEF N
<1> HIDE DEF S
<1>5. LeftRank(parts) \in [S -> 0..N]
  BY <1>4 DEF LeftRank, S
<1>6. \A x \in 0..N : x \in Nat
  BY <1>3
<1> QED BY <1>3, <1>5, <1>6 DEF N, S

\* What match_left calls comes after.
LEMMA LeftCalls ==
  ASSUME NEW parts \in Seq(PartType), NEW c \in Cursors(0..Len(parts)), c.part # 0
  PROVE  /\ \A at \in Nat, s \in Nat : LeftAt(parts, c, Cursor(c.part - 1, at, 0, s))
         /\ c.tried <= MaxGap =>
              \A s \in Nat : LeftAt(parts, c, Cursor(c.part, c.at, c.tried + 1, s))
<1> DEFINE I == 0..Len(parts)
           S == Cursors(I)
<1>1. Len(parts) \in Nat /\ MaxGap \in Nat
  BY PatternAssumption
<1>2. /\ c.part \in 0..Len(parts) /\ c.at \in Nat /\ c.tried \in Nat /\ c.tried <= MaxGap + 1
      /\ c.part - 1 \in I
  <2>1. /\ c.part \in 0..Len(parts) /\ c.at \in Nat /\ c.tried \in Nat /\ c.tried <= MaxGap + 1
    BY CursorFacts
  <2> QED BY <1>1, <2>1
<1> DEFINE n == c.part - 1
<1>3. n \in Nat /\ n + 1 = c.part /\ n = c.part - 1
  BY <1>1, <1>2
<1>0. c.part \in I /\ 0 \in Nat /\ 0 <= MaxGap + 1
  BY <1>1, <1>2
<1> HIDE DEF n, I
<1>4. ASSUME NEW at \in Nat, NEW s \in Nat PROVE LeftAt(parts, c, Cursor(c.part - 1, at, 0, s))
  <2> DEFINE d == Cursor(c.part - 1, at, 0, s)
  <2>1. d \in S /\ d.part = c.part - 1 /\ d.tried = 0
    <3> DEFINE zero == 0
               p == c.part - 1
    <3>1. p \in I /\ zero \in Nat /\ zero <= MaxGap + 1
      BY <1>0, <1>2
    <3> HIDE DEF zero, p
    <3>2. /\ Cursor(p, at, zero, s) \in S /\ Cursor(p, at, zero, s).part = p
          /\ Cursor(p, at, zero, s).tried = zero
      BY <1>1, <3>1 DEF Cursors, Cursor
    <3> QED BY <3>2 DEF zero, p
  <2> HIDE DEF d
  <2>2. LeftRank(parts)[d] = Rank(n, 0)
    BY <1>3, <2>1 DEF LeftRank, I
  <2>3. LeftRank(parts)[c] = Rank(n + 1, c.tried)
    BY <1>3 DEF LeftRank, I
  <2>4. Rank(n, 0) < Rank(n + 1, c.tried)
    BY <1>2, <1>3, RankFalls
  <2> QED BY <2>1, <2>2, <2>3, <2>4 DEF LeftAt, d, I
<1>5. ASSUME c.tried <= MaxGap, NEW s \in Nat
      PROVE  LeftAt(parts, c, Cursor(c.part, c.at, c.tried + 1, s))
  <2> DEFINE d == Cursor(c.part, c.at, c.tried + 1, s)
  <2>0. c.tried + 1 \in Nat /\ c.tried + 1 <= MaxGap + 1
    BY <1>1, <1>2, <1>5
  <2>1. d \in S /\ d.part = c.part /\ d.tried = c.tried + 1
    <3> DEFINE k == c.tried + 1
    <3> HIDE DEF k
    <3>1. k \in Nat /\ k <= MaxGap + 1
      BY <2>0 DEF k
    <3>2. /\ Cursor(c.part, c.at, k, s) \in S /\ Cursor(c.part, c.at, k, s).part = c.part
          /\ Cursor(c.part, c.at, k, s).tried = k
      BY <1>0, <1>1, <1>2, <3>1 DEF Cursors, Cursor
    <3> QED BY <3>2 DEF k
  <2> HIDE DEF d
  <2>2. LeftRank(parts)[d] = Rank(n + 1, c.tried + 1)
    BY <1>3, <2>1 DEF LeftRank, I
  <2>3. LeftRank(parts)[c] = Rank(n + 1, c.tried)
    BY <1>3 DEF LeftRank, I
  <2>4. Rank(n + 1, c.tried + 1) < Rank(n + 1, c.tried)
    <3>1. n + 1 \in Nat
      BY <1>3
    <3> QED BY <1>2, <1>5, <3>1, RankFalls
  <2> QED BY <2>1, <2>2, <2>3, <2>4 DEF LeftAt, d, I
<1> QED BY <1>4, <1>5

\* What a step gives is a result, and depends on those calls only.
LEMMA LeftStepFacts ==
  ASSUME NEW parts \in Seq(PartType), NEW text, NEW fold,
         NEW f \in [Cursors(0..Len(parts)) -> Result],
         NEW g,
         NEW c \in Cursors(0..Len(parts))
  PROVE  /\ LeftStep(parts, text, fold, f, c) \in Result
         /\ (\A d \in Cursors(0..Len(parts)) : LeftAt(parts, c, d) => f[d] = g[d])
              => LeftStep(parts, text, fold, f, c) = LeftStep(parts, text, fold, g, c)
<1> DEFINE S == Cursors(0..Len(parts))
           part == parts[c.part]
           same == \A d \in S : LeftAt(parts, c, d) => f[d] = g[d]
<1>1. /\ c.part \in 0..Len(parts) /\ c.at \in Nat /\ c.tried \in Nat /\ c.steps \in Nat
      /\ Len(parts) \in Nat
  BY CursorFacts
<1>2. ASSUME NEW n \in Nat PROVE Missed(n) \in Result /\ [at |-> n, steps |-> c.steps] \in Result
  BY <1>1 DEF Missed, Result
<1>3. CASE c.part = 0
  BY <1>1, <1>2, <1>3 DEF LeftStep
<1>4. CASE c.part # 0 /\ part.kind = "bytes"
  <2> DEFINE n == Len(part.bytes)
             s == c.steps + n
             d == Cursor(c.part - 1, c.at - n, 0, s)
  <2>1. s \in Nat /\ (~(n > c.at) => c.at - n \in Nat)
    <3>1. c.part \in 1..Len(parts)
      BY <1>1, <1>4
    <3>2. n \in Nat
      BY <3>1, PartFacts
    <3> HIDE DEF n
    <3> QED BY <1>1, <3>2
  <2>2. ~(n > c.at) => LeftAt(parts, c, d) /\ d \in S
    BY <1>4, <2>1, LeftCalls DEF LeftAt
  <2>3. \A h : LeftStep(parts, text, fold, h, c)
                 = IF n > c.at \/ s > MaxSteps \/ ~bytes_match(part.bytes, text, c.at - n, fold)
                   THEN Missed(s) ELSE h[d]
    BY <1>1, <1>4 DEF LeftStep
  <2> HIDE DEF d, s, n
  <2>4. ~(n > c.at) => f[d] \in Result /\ (same => f[d] = g[d])
    BY <2>2
  <2> QED BY <1>2, <2>1, <2>3, <2>4
<1>5. CASE c.part # 0 /\ part.kind # "bytes"
  <2> DEFINE skip == part.min + c.tried
             d == Cursor(c.part - 1, c.at - skip, 0, c.steps + 1)
             e(n) == Cursor(c.part, c.at, c.tried + 1, n)
  <2>1. skip \in Nat /\ (~(skip > c.at) => c.at - skip \in Nat) /\ c.steps + 1 \in Nat
        /\ (~(skip > Limit(part)) => c.tried <= MaxGap)
    <3>1. c.part \in 1..Len(parts)
      BY <1>1, <1>5
    <3>2. part.min \in Nat /\ Limit(part) \in Nat /\ Limit(part) <= MaxGap /\ MaxGap \in Nat
      BY <3>1, PartFacts
    <3> HIDE DEF part
    <3>3. skip \in Nat /\ (~(skip > Limit(part)) => c.tried <= MaxGap)
      BY <1>1, <3>2
    <3> QED BY <1>1, <3>3
  <2>2. ~(skip > c.at) => LeftAt(parts, c, d) /\ d \in S
    BY <1>5, <2>1, LeftCalls DEF LeftAt
  <2>3. c.tried <= MaxGap => \A n \in Nat : LeftAt(parts, c, e(n)) /\ e(n) \in S
    BY <1>5, LeftCalls DEF LeftAt
  <2>4. \A h : LeftStep(parts, text, fold, h, c)
                 = IF skip > Limit(part) THEN Missed(c.steps)
                   ELSE IF c.steps + 1 > MaxSteps \/ skip > c.at THEN Missed(c.steps + 1)
                   ELSE IF h[d].at # None THEN h[d] ELSE h[e(h[d].steps)]
    BY <1>1, <1>5 DEF LeftStep
  <2> HIDE DEF d, e, skip
  <2>5. ~(skip > c.at) => f[d] \in Result /\ f[d].steps \in Nat /\ (same => f[d] = g[d])
    <3>1. ~(skip > c.at) => f[d] \in Result
      BY <2>2
    <3> QED BY <2>2, <3>1 DEF Result
  <2>6. ~(skip > c.at) /\ c.tried <= MaxGap => f[e(f[d].steps)] \in Result /\ (same => f[e(f[d].steps)] = g[e(f[d].steps)])
    BY <2>3, <2>5
  <2> QED BY <1>1, <1>2, <2>1, <2>4, <2>5, <2>6
<1> QED BY <1>1, <1>3, <1>4, <1>5

\* match_left takes its steps.
LEMMA LeftExists ==
  ASSUME NEW parts \in Seq(PartType), NEW text, NEW fold
  PROVE  /\ Leftward(parts, text, fold) \in [Cursors(0..Len(parts)) -> Result]
         /\ \A c \in Cursors(0..Len(parts)) :
              Leftward(parts, text, fold)[c] = LeftStep(parts, text, fold, Leftward(parts, text, fold), c)
<1> DEFINE S == Cursors(0..Len(parts))
           N == Rank(Len(parts), 0)
           rank == LeftRank(parts)
           G == [p \in [S -> Result] \X S |-> LeftStep(parts, text, fold, p[1], p[2])]
           R == Leftward(parts, text, fold)
<1>1. N \in Nat /\ rank \in [S -> 0..N]
  BY LeftRanked
<1>2. \A f \in [S -> Result], d \in S : LeftStep(parts, text, fold, f, d) \in Result
  BY LeftStepFacts
<1>3. ASSUME NEW f \in [S -> Result], NEW g \in [S -> Result], NEW d \in S,
             \A e \in S : rank[e] < rank[d] => f[e] = g[e]
      PROVE  LeftStep(parts, text, fold, f, d) = LeftStep(parts, text, fold, g, d)
  <2>1. \A e \in S : LeftAt(parts, d, e) => f[e] = g[e]
    BY <1>3 DEF LeftAt
  <2> QED BY <2>1, LeftStepFacts
<1>4. /\ \A f \in [S -> Result], d \in S : G[<<f, d>>] = LeftStep(parts, text, fold, f, d)
      /\ G \in [[S -> Result] \X S -> Result]
  BY <1>2
<1> HIDE DEF G, N, S, rank
<1>5. LooksBack(G, S, Result, rank)
  BY <1>3, <1>4 DEF LooksBack
<1>6. Missed(0) \in Result
  BY DEF Missed, Result
<1>7. PICK f \in [S -> Result] : Recurs(f, G, S)
  BY <1>1, <1>5, <1>6, RecursionExists
<1>8. f = [d \in S |-> LeftStep(parts, text, fold, f, d)]
  <2>1. f = [d \in S |-> G[<<f, d>>]]
    BY <1>7 DEF Recurs
  <2> QED BY <1>4, <2>1
<1>9. f = LeftBody(parts, text, fold, f)
  BY <1>8 DEF LeftBody, S
<1>10. R = LeftBody(parts, text, fold, R)
  BY <1>9 DEF Leftward
<1> HIDE DEF R
<1>11. R = [d \in S |-> LeftStep(parts, text, fold, R, d)]
  BY <1>10 DEF LeftBody, S
<1>12. \A c \in S : R[c] = LeftStep(parts, text, fold, R, c)
  BY <1>11
<1> DEFINE Good == {c \in S : f[c] = R[c]}
<1>13. rank \in [S -> Nat]
  BY LeftRanked DEF rank, S
<1>14. ASSUME NEW d \in S, \A e \in S : rank[e] < rank[d] => e \in Good
       PROVE  d \in Good
  <2>1. \A e \in S : rank[e] < rank[d] => f[e] = R[e]
    BY <1>14
  <2>2. \A e \in S : LeftAt(parts, d, e) => f[e] = R[e]
    BY <2>1 DEF LeftAt, rank, S
  <2>3. LeftStep(parts, text, fold, f, d) = LeftStep(parts, text, fold, R, d)
    BY <2>2, LeftStepFacts DEF S
  <2>4. f[d] = LeftStep(parts, text, fold, f, d)
    BY <1>8
  <2> QED BY <1>12, <2>3, <2>4
<1> HIDE DEF Good
<1>15. \A d \in S : d \in Good
  BY <1>13, <1>14, ByRank
<1>16. \A d \in S : R[d] = f[d]
  BY <1>15 DEF Good
<1>17. R \in [S -> Result]
  BY <1>11, <1>16
<1> QED BY <1>12, <1>17 DEF R, S

-----------------------------------------------------------------------------
(* What match_left finds.                                                  *)

\* A cut of what is left, of the lengths that are left.
IsFront(parts, text, fold, c, cut) ==
  /\ Chain(parts, text, fold, 0, c.part, cut) /\ cut[c.part] = c.at
  /\ c.part # 0 /\ parts[c.part].kind # "bytes" =>
       cut[c.part - 1] + (parts[c.part].min + c.tried) <= c.at
LeftMeans(parts, text, fold, c, r) ==
  c.at <= Len(text) =>
    /\ c.steps <= r.steps
    /\ r.at # None => \E cut : /\ Chain(parts, text, fold, 0, c.part, cut)
                               /\ cut[0] = r.at /\ cut[c.part] = c.at
    /\ r.at = None /\ r.steps <= MaxSteps => \A cut : ~IsFront(parts, text, fold, c, cut)

\* The last of the parts left, and the rest of them.
LEMMA LastOfFront ==
  ASSUME NEW parts \in Seq(PartType), NEW text, NEW fold,
         NEW c \in Cursors(0..Len(parts)), c.part # 0, NEW cut,
         IsFront(parts, text, fold, c, cut), NEW k \in Nat, NEW s
  PROVE  /\ Fits(parts[c.part], text, cut[c.part - 1], c.at, fold) /\ cut[c.part - 1] \in 0..Len(text)
         /\ k = 0 => \E new : IsFront(parts, text, fold, Cursor(c.part - 1, cut[c.part - 1], k, s), new)
<1> DEFINE i == c.part
           j == i - 1
           L == Len(parts)
<1>1. L \in Nat /\ i \in 1..L /\ j \in Nat /\ j \in 0..i /\ i \in 0..i /\ i \in (0 + 1)..i /\ 0 <= j /\ j <= i /\ i \in Nat
  <2>1. c.part \in 0..Len(parts) /\ Len(parts) \in Nat
    BY CursorFacts
  <2> QED BY <2>1
<1>2. Chain(parts, text, fold, 0, i, cut) /\ cut[i] = c.at
  BY DEF IsFront
<1>j. j = i - 1
  OBVIOUS
<1> HIDE DEF i, L, j
<1>3. Fits(parts[i], text, cut[j], c.at, fold) /\ cut[j] \in 0..Len(text)
  <2>1. Fits(parts[i], text, cut[i - 1], cut[i], fold)
    BY <1>1, <1>2 DEF Chain
  <2>2. cut[j] \in 0..Len(text)
    BY <1>1, <1>2 DEF Chain
  <2> QED BY <1>2, <1>j, <2>1, <2>2
<1>4. PICK new : Chain(parts, text, fold, 0, j, new) /\ Agree(new, cut, 0, j)
  <2> DEFINE h == 0
  <2>1. h \in Nat /\ h <= h /\ h <= j /\ j <= i /\ i \in Nat /\ j \in Nat /\ Chain(parts, text, fold, h, i, cut)
    BY <1>1, <1>2
  <2> HIDE DEF h
  <2>2. \E new : Chain(parts, text, fold, h, j, new) /\ Agree(new, cut, h, j)
    BY <2>1, ChainPiece
  <2> QED BY <2>2 DEF h
<1>5. ASSUME k = 0 PROVE IsFront(parts, text, fold, Cursor(j, cut[j], k, s), new)
  <2> DEFINE d == Cursor(j, cut[j], k, s)
  <2>1. d.part = j /\ d.at = cut[j] /\ d.tried = 0
    BY <1>5 DEF Cursor
  <2> HIDE DEF d
  <2>2. new[j] = cut[j]
    <3>1. j \in 0..j
      BY <1>1
    <3> QED BY <1>4, <3>1 DEF Agree
  <2>3. ASSUME j # 0, parts[j].kind # "bytes"
        PROVE  new[j - 1] + (parts[j].min + 0) <= cut[j]
    <3>1. j \in (0 + 1)..j /\ j - 1 \in 0..j /\ j \in 1..L /\ j \in 0..j
      BY <1>1, <1>j, <2>3
    <3>2. Fits(parts[j], text, new[j - 1], new[j], fold)
      BY <1>4, <3>1 DEF Chain
    <3>3. parts[j].min \in Nat
      BY <3>1, PartFacts DEF L
    <3>4. new[j - 1] \in 0..Len(text) /\ new[j] \in 0..Len(text)
      BY <1>4, <3>1 DEF Chain
    <3> QED BY <2>2, <2>3, <3>2, <3>3, <3>4 DEF Fits
  <2>4. IsFront(parts, text, fold, d, new)
    BY <1>4, <2>1, <2>2, <2>3 DEF IsFront
  <2> QED BY <2>4 DEF d
<1> QED BY <1>3, <1>5 DEF i, j

\* Where match_left has come to an end.
LEMMA LeftAtEnd ==
  ASSUME NEW parts \in Seq(PartType), NEW text \in Seq(Bytes), NEW fold,
         NEW c \in Cursors(0..Len(parts)), c.part = 0
  PROVE  LeftMeans(parts, text, fold, c, [at |-> c.at, steps |-> c.steps])
<1>1. Len(text) \in Nat /\ c.at \in Nat /\ c.steps \in Nat
  BY CursorFacts
<1>2. c.at # None
  BY <1>1, PatternAssumption
<1>3. ASSUME c.at <= Len(text)
      PROVE  \E cut : Chain(parts, text, fold, 0, 0, cut) /\ cut[0] = c.at
  <2> DEFINE h == 0
  <2>1. h \in Nat
    OBVIOUS
  <2> HIDE DEF h
  <2>2. HasCut(parts, text, fold, h, h, c.at, c.at)
    BY <1>1, <1>3, <2>1, ChainOfNone
  <2> QED BY <2>2 DEF HasCut, h
<1> QED BY <1>1, <1>2, <1>3 DEF LeftMeans

\* A run of bytes: what lies before it decides.
LEMMA LeftAtBytes ==
  ASSUME NEW parts \in Seq(PartType), NEW text \in Seq(Bytes), NEW fold,
         NEW c \in Cursors(0..Len(parts)), c.part # 0, parts[c.part].kind = "bytes",
         NEW R, \A d \in Cursors(0..Len(parts)) : R[d] \in Result,
         \A d : LeftAt(parts, c, d) => LeftMeans(parts, text, fold, d, R[d])
  PROVE  LeftMeans(parts, text, fold, c, LeftStep(parts, text, fold, R, c))
<1> DEFINE i == c.part
           part == parts[i]
           n == Len(part.bytes)
           s == c.steps + n
           zero == 0
           at == c.at
           to == at - n
           d == Cursor(i - 1, to, zero, s)
           bad == n > at \/ s > MaxSteps \/ ~bytes_match(part.bytes, text, to, fold)
<1>1. /\ Len(text) \in Nat /\ at \in Nat /\ c.steps \in Nat /\ i \in 1..Len(parts) /\ i - 1 \in Nat /\ i \in Nat
      /\ 0 < i /\ MaxSteps \in Nat
  <2>1. c.part \in 0..Len(parts) /\ Len(parts) \in Nat /\ Len(text) \in Nat /\ c.at \in Nat /\ c.steps \in Nat
    BY CursorFacts
  <2> QED BY <2>1, PatternAssumption
<1>2. n \in Nat
  BY <1>1, PartFacts
<1>3. s \in Nat /\ c.steps <= s /\ to \in Int /\ to + n = at
  <2> HIDE DEF n, at
  <2> QED BY <1>1, <1>2
<1>4. LeftStep(parts, text, fold, R, c) = IF bad THEN Missed(s) ELSE R[d]
  BY <1>1 DEF LeftStep
<1>5. d.part = i - 1 /\ d.at = to /\ d.tried = 0 /\ d.steps = s
  BY DEF Cursor
<1>8. CASE bad
  <2>1. LeftStep(parts, text, fold, R, c) = Missed(s)
    BY <1>4, <1>8
  <2>2. Missed(s).at = None /\ Missed(s).steps = s
    BY DEF Missed
  <2>3. ASSUME s <= MaxSteps, NEW cut, IsFront(parts, text, fold, c, cut) PROVE FALSE
    <3>1. Fits(parts[c.part], text, cut[c.part - 1], c.at, fold) /\ cut[c.part - 1] \in 0..Len(text)
      <4>1. 0 \in Nat
        OBVIOUS
      <4> QED BY <2>3, <4>1, LastOfFront
    <3> DEFINE from == cut[c.part - 1]
    <3>2. at = from + n /\ bytes_match(part.bytes, text, from, fold) /\ from \in Nat
      BY <3>1 DEF Fits
    <3> HIDE DEF from
    <3>3. from = to /\ ~(n > at)
      <4> HIDE DEF n, at
      <4> QED BY <1>2, <3>2
    <3>4. ~(s > MaxSteps)
      <4> HIDE DEF s
      <4> QED BY <1>1, <1>3, <2>3
    <3> QED BY <1>8, <3>2, <3>3, <3>4
  <2> HIDE DEF s
  <2> QED BY <1>3, <2>1, <2>2, <2>3 DEF LeftMeans
<1>9. CASE ~bad
  <2>0. to \in Nat
    <3> HIDE DEF n, at
    <3> QED BY <1>1, <1>2, <1>9
  <2>1. LeftStep(parts, text, fold, R, c) = R[d]
    BY <1>4, <1>9
  <2>6. LeftAt(parts, c, d)
    <3> HIDE DEF s, to
    <3> QED BY <1>3, <2>0, LeftCalls
  <2>7. d \in Cursors(0..Len(parts))
    BY <2>6 DEF LeftAt
  <2>2. R[d] \in Result /\ R[d].steps \in Nat /\ LeftMeans(parts, text, fold, d, R[d])
    BY <2>6, <2>7 DEF Result
  <2>3. bytes_match(part.bytes, text, to, fold)
    BY <1>9
  <2>4. Fits(part, text, to, at, fold)
    <3>1. at = to + n
      <4> HIDE DEF n, at, to
      <4> QED BY <1>1, <1>2, <1>3
    <3> QED BY <2>3, <3>1 DEF Fits
  <2> HIDE DEF d, s, n, part, bad
  <2>8. ASSUME at <= Len(text) PROVE to <= Len(text) /\ c.steps <= R[d].steps
    <3>1. to <= Len(text)
      <4> HIDE DEF to, at
      <4> QED BY <1>1, <1>2, <1>3, <2>8, <2>0
    <3>2. s <= R[d].steps
      BY <1>5, <2>2, <3>1 DEF LeftMeans
    <3> QED BY <1>1, <1>3, <2>2, <3>1, <3>2
  <2>9. ASSUME at <= Len(text), R[d].at # None
        PROVE  \E cut : Chain(parts, text, fold, 0, i, cut) /\ cut[0] = R[d].at /\ cut[i] = at
    <3>1. PICK cut : /\ Chain(parts, text, fold, 0, d.part, cut)
                     /\ cut[0] = R[d].at /\ cut[d.part] = d.at
      BY <1>5, <2>2, <2>8, <2>9 DEF LeftMeans
    <3>3. Chain(parts, text, fold, 0, i - 1, cut) /\ cut[i - 1] = to /\ cut[0] = R[d].at
      BY <1>5, <3>1
    <3>4. at \in 0..Len(text)
      BY <1>1, <2>9
    <3>5. Fits(parts[i], text, cut[i - 1], at, fold)
      BY <2>4, <3>3 DEF part
    <3> DEFINE h == 0
    <3>6. h \in Nat /\ h < i /\ Chain(parts, text, fold, h, i - 1, cut)
      BY <1>1, <3>3
    <3> HIDE DEF i, h, at, to
    <3>7. \E new : Chain(parts, text, fold, h, i, new) /\ new[h] = cut[h] /\ new[i] = at
      BY <1>1, <3>4, <3>5, <3>6, ChainAfter
    <3> QED BY <3>3, <3>7 DEF h
  <2>10. ASSUME at <= Len(text), R[d].at = None, R[d].steps <= MaxSteps, NEW cut, IsFront(parts, text, fold, c, cut)
        PROVE  FALSE
    <3>1. zero \in Nat /\ zero = 0
      OBVIOUS
    <3> HIDE DEF zero
    <3>2. /\ Fits(parts[c.part], text, cut[c.part - 1], c.at, fold) /\ cut[c.part - 1] \in 0..Len(text)
          /\ \E new : IsFront(parts, text, fold, Cursor(c.part - 1, cut[c.part - 1], zero, s), new)
      BY <2>10, <3>1, LastOfFront
    <3> DEFINE from == cut[c.part - 1]
    <3>3. at = from + n /\ from \in Nat
      BY <3>2 DEF Fits, part, n
    <3>4. from = to
      <4> HIDE DEF at, to, from
      <4> QED BY <1>2, <1>3, <3>3, <2>0
    <3>5. \E new : IsFront(parts, text, fold, d, new)
      BY <3>2, <3>4 DEF d
    <3> QED BY <1>5, <2>2, <2>8, <2>10, <3>5 DEF LeftMeans
  <2> HIDE DEF to
  <2> QED BY <2>1, <2>8, <2>9, <2>10 DEF LeftMeans, i
<1> QED BY <1>8, <1>9

\* A gap: its first length, or the next ones.
LEMMA LeftAtGap ==
  ASSUME NEW parts \in Seq(PartType), NEW text \in Seq(Bytes), NEW fold,
         NEW c \in Cursors(0..Len(parts)), c.part # 0, parts[c.part].kind # "bytes",
         NEW R, \A d \in Cursors(0..Len(parts)) : R[d] \in Result,
         \A d : LeftAt(parts, c, d) => LeftMeans(parts, text, fold, d, R[d])
  PROVE  LeftMeans(parts, text, fold, c, LeftStep(parts, text, fold, R, c))
<1> DEFINE i == c.part
           part == parts[i]
           min == part.min
           lim == Limit(part)
           k == c.tried
           skip == min + k
           zero == 0
           one == c.steps + 1
           at == c.at
           to == at - skip
           d == Cursor(i - 1, to, zero, one)
           e == Cursor(i, at, k + 1, R[d].steps)
           step == LeftStep(parts, text, fold, R, c)
<1>1. /\ Len(text) \in Nat /\ at \in Nat /\ c.steps \in Nat /\ i \in 1..Len(parts) /\ i - 1 \in Nat /\ i \in Nat
      /\ 0 < i /\ MaxSteps \in Nat /\ k \in Nat
  <2>1. /\ c.part \in 0..Len(parts) /\ Len(parts) \in Nat /\ Len(text) \in Nat /\ c.at \in Nat
        /\ c.steps \in Nat /\ c.tried \in Nat
    BY CursorFacts
  <2> QED BY <2>1, PatternAssumption
<1>2. min \in Nat /\ lim \in Nat /\ lim <= MaxGap /\ MaxGap \in Nat
  BY <1>1, PartFacts
<1>3. /\ skip \in Nat /\ one \in Nat /\ c.steps <= one /\ to \in Int /\ to + skip = at
      /\ (~(skip > lim) => k <= MaxGap) /\ (~(skip > at) => to \in Nat /\ to <= at)
  <2> DEFINE x == c.steps
  <2>1. x \in Nat
    BY <1>1
  <2> HIDE DEF min, lim, k, at, x
  <2>2. one \in Nat /\ x <= one
    BY <2>1 DEF x
  <2>3. skip \in Nat
    BY <1>1, <1>2
  <2>4. to \in Int /\ to + skip = at /\ (~(skip > at) => to \in Nat /\ to <= at)
    <3> HIDE DEF skip
    <3> QED BY <1>1, <2>3
  <2>5. ~(skip > lim) => k <= MaxGap
    BY <1>1, <1>2
  <2> QED BY <2>2, <2>3, <2>4, <2>5 DEF x
<1>4. step = IF skip > lim THEN Missed(c.steps)
             ELSE IF one > MaxSteps \/ skip > at THEN Missed(one)
             ELSE IF R[d].at # None THEN R[d] ELSE R[e]
  BY <1>1 DEF LeftStep
<1>5. d.part = i - 1 /\ d.at = to /\ d.tried = 0 /\ d.steps = one
  BY DEF Cursor
<1>8. ASSUME NEW cut, IsFront(parts, text, fold, c, cut)
      PROVE  /\ cut[i - 1] \in Nat /\ cut[i - 1] + skip <= at /\ at - cut[i - 1] <= lim
             /\ \E new : IsFront(parts, text, fold, Cursor(i - 1, cut[i - 1], zero, one), new)
  <2>1. zero \in Nat /\ zero = 0
    OBVIOUS
  <2> HIDE DEF zero
  <2>2. /\ Fits(parts[c.part], text, cut[c.part - 1], c.at, fold) /\ cut[c.part - 1] \in 0..Len(text)
        /\ \E new : IsFront(parts, text, fold, Cursor(c.part - 1, cut[c.part - 1], zero, one), new)
    BY <1>8, <2>1, LastOfFront
  <2>3. cut[i - 1] + skip <= at
    BY <1>8, <1>1 DEF IsFront
  <2> QED BY <2>2, <2>3 DEF Fits
<1> HIDE DEF d, e, one, zero, to
<1>9. CASE skip > lim
  <2>1. step = Missed(c.steps) /\ Missed(c.steps).at = None /\ Missed(c.steps).steps = c.steps
    BY <1>4, <1>9 DEF Missed
  <2>2. ASSUME NEW cut, IsFront(parts, text, fold, c, cut) PROVE FALSE
    <3> DEFINE x == cut[i - 1]
    <3>1. x \in Nat /\ x + skip <= at /\ at - x <= lim
      BY <1>8, <2>2
    <3> HIDE DEF lim, skip, x, at
    <3> QED BY <1>1, <1>2, <1>3, <1>9, <3>1
  <2> QED BY <1>1, <2>1, <2>2 DEF LeftMeans
<1>10. CASE ~(skip > lim) /\ (one > MaxSteps \/ skip > at)
  <2>1. step = Missed(one) /\ Missed(one).at = None /\ Missed(one).steps = one
    BY <1>4, <1>10 DEF Missed
  <2>2. ASSUME one <= MaxSteps, NEW cut, IsFront(parts, text, fold, c, cut) PROVE FALSE
    <3> DEFINE x == cut[i - 1]
    <3>1. x \in Nat /\ x + skip <= at
      BY <1>8, <2>2
    <3> HIDE DEF lim, skip, x, at
    <3> QED BY <1>1, <1>2, <1>3, <1>10, <2>2, <3>1
  <2> QED BY <1>1, <1>3, <2>1, <2>2 DEF LeftMeans
<1>11. CASE ~(skip > lim) /\ ~(one > MaxSteps \/ skip > at)
  <2>0. to \in Nat /\ to <= at /\ k <= MaxGap
    BY <1>3, <1>11
  <2>6. LeftAt(parts, c, d) /\ d \in Cursors(0..Len(parts))
    <3>1. LeftAt(parts, c, d)
      BY <1>3, <2>0, LeftCalls DEF d, zero
    <3> QED BY <3>1 DEF LeftAt
  <2>7. R[d] \in Result /\ R[d].steps \in Nat /\ LeftMeans(parts, text, fold, d, R[d])
    BY <2>6 DEF Result
  <2>1. ASSUME at <= Len(text) PROVE to <= Len(text) /\ one <= R[d].steps
    <3>1. to <= Len(text)
      <4> HIDE DEF at
      <4> QED BY <1>1, <2>0, <2>1
    <3> QED BY <1>5, <2>7, <3>1 DEF LeftMeans
  <2>3. CASE R[d].at # None
    <3>1. step = R[d]
      BY <1>4, <1>11, <2>3
    <3>2. ASSUME at <= Len(text)
          PROVE  \E cut : Chain(parts, text, fold, 0, i, cut) /\ cut[0] = R[d].at /\ cut[i] = at
      <4>1. PICK cut : /\ Chain(parts, text, fold, 0, d.part, cut)
                       /\ cut[0] = R[d].at /\ cut[d.part] = d.at
        BY <1>5, <2>1, <2>3, <2>7, <3>2 DEF LeftMeans
      <4>3. Chain(parts, text, fold, 0, i - 1, cut) /\ cut[i - 1] = to /\ cut[0] = R[d].at
        BY <1>5, <4>1
      <4>4. at \in 0..Len(text)
        BY <1>1, <3>2
      <4>5. Fits(parts[i], text, cut[i - 1], at, fold)
        <5>1. skip = min + k
          OBVIOUS
        <5> HIDE DEF skip, lim, min, k, at
        <5>2. to <= at /\ min <= at - to /\ at - to <= lim
          <6>1. at - to = skip /\ min <= skip
            BY <1>1, <1>2, <1>3, <2>0, <5>1
          <6> QED BY <1>2, <1>3, <1>11, <2>0, <6>1
        <5> QED BY <4>3, <5>2 DEF Fits, min, lim
      <4> DEFINE h == 0
      <4>6. h \in Nat /\ h < i /\ Chain(parts, text, fold, h, i - 1, cut)
        BY <1>1, <4>3
      <4> HIDE DEF i, h, at
      <4>7. \E new : Chain(parts, text, fold, h, i, new) /\ new[h] = cut[h] /\ new[i] = at
        BY <1>1, <4>4, <4>5, <4>6, ChainAfter
      <4> QED BY <4>3, <4>7 DEF h
    <3>3. at <= Len(text) => c.steps <= R[d].steps
      BY <1>1, <1>3, <2>1, <2>7
    <3> QED BY <2>3, <3>1, <3>2, <3>3 DEF LeftMeans
  <2>4. CASE R[d].at = None
    <3>1. step = R[e]
      BY <1>4, <1>11, <2>4
    <3>2. LeftAt(parts, c, e)
      BY <2>0, <2>7, LeftCalls DEF e
    <3>3. R[e] \in Result /\ R[e].steps \in Nat /\ LeftMeans(parts, text, fold, e, R[e])
      BY <3>2 DEF Result, LeftAt
    <3>4. e.part = i /\ e.at = at /\ e.tried = k + 1 /\ e.steps = R[d].steps
      BY DEF Cursor, e
    <3>6. ASSUME at <= Len(text) PROVE c.steps <= R[e].steps /\ R[d].steps <= R[e].steps
      <4>1. R[d].steps <= R[e].steps
        BY <3>3, <3>4, <3>6 DEF LeftMeans
      <4>2. one <= R[d].steps /\ c.steps <= one /\ one \in Nat /\ c.steps \in Nat
        BY <1>1, <1>3, <2>1, <3>6
      <4> DEFINE x == c.steps
                 y == R[d].steps
                 z == R[e].steps
      <4>3. x \in Nat /\ y \in Nat /\ z \in Nat /\ one \in Nat /\ one <= y /\ x <= one /\ y <= z
        BY <2>7, <3>3, <4>1, <4>2
      <4> HIDE DEF x, y, z
      <4>4. x <= z /\ y <= z
        BY <4>3
      <4> QED BY <4>4 DEF x, y, z
    <3>7. ASSUME at <= Len(text), R[e].at = None, R[e].steps <= MaxSteps,
                 NEW cut, IsFront(parts, text, fold, c, cut)
          PROVE  FALSE
      <4> DEFINE x == cut[i - 1]
      <4>1. /\ x \in Nat /\ x + skip <= at
            /\ \E new : IsFront(parts, text, fold, Cursor(i - 1, x, zero, one), new)
        BY <1>8, <3>7
      <4>2. R[d].steps <= MaxSteps
        BY <1>1, <2>7, <3>3, <3>6, <3>7
      <4>3. \A new : ~IsFront(parts, text, fold, d, new)
        BY <1>5, <2>1, <2>4, <2>7, <3>7, <4>2 DEF LeftMeans
      <4>4. x # to
        BY <4>1, <4>3 DEF d
      <4>5. x + (min + (k + 1)) <= at
        <5>1. skip = min + k
          OBVIOUS
        <5>2. min + (k + 1) = skip + 1
          <6> HIDE DEF min, k
          <6> QED BY <1>1, <1>2
        <5> HIDE DEF x, skip, at
        <5>3. x + (skip + 1) <= at
          BY <1>1, <1>3, <4>1, <4>4
        <5> QED BY <5>2, <5>3
      <4>6. IsFront(parts, text, fold, e, cut)
        BY <3>4, <3>7, <4>5 DEF IsFront
      <4> QED BY <3>3, <3>4, <3>7, <4>6 DEF LeftMeans
    <3>8. LeftMeans(parts, text, fold, c, R[e])
      BY <3>3, <3>4, <3>6, <3>7 DEF LeftMeans
    <3> QED BY <3>1, <3>8
  <2> QED BY <2>3, <2>4
<1> QED BY <1>9, <1>10, <1>11

\* What is found, and after how many steps.
StartFound(parts, text, fold, last, from, steps, r) ==
  /\ r \in Result /\ steps <= r.steps
  /\ r.at # None => HasCut(parts, text, fold, 0, last, r.at, from)
  /\ r.at = None /\ r.steps <= MaxSteps =>
       \A to : ~HasCut(parts, text, fold, 0, last, to, from)

\* match_left finds a start if there is one, and none if there is none.
LEMMA MatchLeft ==
  ASSUME NEW parts \in Seq(PartType), NEW text \in Seq(Bytes), NEW fold,
         NEW last \in Nat, last <= Len(parts),
         NEW from \in Nat, from <= Len(text), NEW steps \in Nat, NEW r,
         r = match_left(parts, last, text, from, steps, fold)
  PROVE  StartFound(parts, text, fold, last, from, steps, r)
<1> DEFINE S == Cursors(0..Len(parts))
           R == Leftward(parts, text, fold)
           Good == {c \in S : LeftMeans(parts, text, fold, c, R[c])}
           zero == 0
           c == Cursor(last, from, zero, steps)
<1>1. /\ \A d \in S : R[d] \in Result
      /\ \A d \in S : R[d] = LeftStep(parts, text, fold, R, d)
  <2>1. R \in [S -> Result]
    BY LeftExists
  <2>2. \A d \in S : R[d] = LeftStep(parts, text, fold, R, d)
    BY LeftExists
  <2> HIDE DEF R, S
  <2> QED BY <2>1, <2>2
<1> HIDE DEF R
<1>2. ASSUME NEW d \in S, \A e \in S : LeftRank(parts)[e] < LeftRank(parts)[d] => e \in Good
      PROVE  d \in Good
  <2>1. \A e : LeftAt(parts, d, e) => LeftMeans(parts, text, fold, e, R[e])
    BY <1>2 DEF LeftAt
  <2>2. R[d] = LeftStep(parts, text, fold, R, d)
    BY <1>1
  <2>3. CASE d.part = 0
    <3>1. R[d] = [at |-> d.at, steps |-> d.steps]
      BY <2>2, <2>3 DEF LeftStep
    <3> QED BY <2>3, <3>1, LeftAtEnd
  <2>4. CASE d.part # 0 /\ parts[d.part].kind = "bytes"
    <3>1. LeftMeans(parts, text, fold, d, LeftStep(parts, text, fold, R, d))
      BY <1>1, <2>1, <2>4, LeftAtBytes
    <3> QED BY <2>2, <3>1
  <2>5. CASE d.part # 0 /\ parts[d.part].kind # "bytes"
    <3>1. LeftMeans(parts, text, fold, d, LeftStep(parts, text, fold, R, d))
      BY <1>1, <2>1, <2>5, LeftAtGap
    <3> QED BY <2>2, <3>1
  <2> QED BY <2>3, <2>4, <2>5
<1>3. LeftRank(parts) \in [S -> Nat]
  BY LeftRanked
<1> HIDE DEF Good, S
<1>4. \A d \in S : d \in Good
  BY <1>2, <1>3, ByRank
<1>5. c \in S /\ c.part = last /\ c.at = from /\ c.tried = 0 /\ c.steps = steps
  <2>1. last \in 0..Len(parts) /\ MaxGap \in Nat
    BY PatternAssumption
  <2> QED BY <2>1 DEF S, Cursors, Cursor
<1>6. r = R[c]
  BY LeftIs DEF R
<1> HIDE DEF c
<1>7. R[c] \in Result /\ LeftMeans(parts, text, fold, c, R[c])
  BY <1>1, <1>4, <1>5 DEF Good
<1>8. r \in Result /\ steps <= r.steps
  BY <1>5, <1>6, <1>7 DEF LeftMeans
<1>9. r.at # None => HasCut(parts, text, fold, 0, last, r.at, from)
  BY <1>5, <1>6, <1>7 DEF LeftMeans, HasCut
<1>10. ASSUME r.at = None, r.steps <= MaxSteps, NEW to,
              HasCut(parts, text, fold, 0, last, to, from)
       PROVE  FALSE
  <2>1. PICK cut : Chain(parts, text, fold, 0, last, cut) /\ cut[last] = from
    BY <1>10 DEF HasCut
  <2>2. ASSUME last # 0, parts[last].kind # "bytes"
        PROVE  cut[last - 1] + (parts[last].min + 0) <= from
    <3>1. last \in (0 + 1)..last /\ last \in 1..Len(parts) /\ last - 1 \in 0..last
      BY <2>2
    <3>2. Fits(parts[last], text, cut[last - 1], cut[last], fold) /\ cut[last - 1] \in 0..Len(text)
      BY <2>1, <3>1 DEF Chain
    <3>3. parts[last].min \in Nat
      BY <3>1, PartFacts
    <3> QED BY <2>1, <2>2, <3>2, <3>3 DEF Fits
  <2>3. IsFront(parts, text, fold, c, cut)
    BY <1>5, <2>1, <2>2 DEF IsFront
  <2> QED BY <1>5, <1>6, <1>7, <1>10, <2>3 DEF LeftMeans
<1> QED BY <1>8, <1>9, <1>10 DEF StartFound

-----------------------------------------------------------------------------
(* What verify finds.                                                      *)

\* A signature as it is kept: its anchor is a run of bytes in one of its parts.
SigOK(sig) ==
  /\ sig.parts \in Seq(PartType) /\ sig.anchor.part \in 1..Len(sig.parts)
  /\ sig.parts[sig.anchor.part].kind = "bytes"
  /\ sig.anchor.start \in Nat \ {0} /\ sig.anchor.len \in Nat \ {0}
  /\ sig.anchor.start + sig.anchor.len <= Len(AnchorBytes(sig)) + 1
  /\ \A i \in sig.anchor.start..(sig.anchor.start + sig.anchor.len - 1) : AnchorBytes(sig)[i] # Wildcard
  /\ sig.piece \in BOOLEAN

\* A cut before the anchor's part, that part and a cut behind it are a cut.
LEMMA ChainJoin ==
  ASSUME NEW parts, NEW text, NEW fold, NEW L \in Nat, NEW a \in 1..L, NEW x, NEW from, NEW to,
         NEW y,
         HasCut(parts, text, fold, 0, a - 1, x, from), Fits(parts[a], text, from, to, fold),
         HasCut(parts, text, fold, a, L, to, y)
  PROVE  \E cut : /\ Chain(parts, text, fold, 0, L, cut) /\ cut[0] = x /\ cut[a - 1] = from
                  /\ cut[a] = to /\ cut[L] = y
<1>1. PICK left : Chain(parts, text, fold, 0, a - 1, left) /\ left[0] = x /\ left[a - 1] = from
  BY DEF HasCut
<1>2. PICK right : Chain(parts, text, fold, a, L, right) /\ right[a] = to /\ right[L] = y
  BY DEF HasCut
<1> DEFINE cut == [p \in 0..L |-> IF p < a THEN left[p] ELSE right[p]]
<1>3. \A p \in 0..L : (p < a => p \in 0..(a - 1)) /\ (~(p < a) => p \in a..L)
  OBVIOUS
<1>4. cut \in [0..L -> 0..Len(text)]
  BY <1>1, <1>2, <1>3 DEF Chain
<1>5. /\ \A p \in 0..(a - 1) : cut[p] = left[p]
      /\ \A p \in a..L : cut[p] = right[p]
  OBVIOUS
<1> HIDE DEF cut
<1>6. ASSUME NEW p \in (0 + 1)..L PROVE Fits(parts[p], text, cut[p - 1], cut[p], fold)
  <2>1. CASE p < a
    <3>1. p \in (0 + 1)..(a - 1) /\ p \in 0..(a - 1) /\ p - 1 \in 0..(a - 1)
      BY <2>1
    <3>2. Fits(parts[p], text, left[p - 1], left[p], fold)
      BY <1>1, <3>1 DEF Chain
    <3>3. cut[p] = left[p] /\ cut[p - 1] = left[p - 1]
      BY <1>5, <3>1
    <3> QED BY <3>2, <3>3
  <2>2. CASE p = a
    <3>1. a - 1 \in 0..(a - 1) /\ a \in a..L
      OBVIOUS
    <3>2. cut[a - 1] = from /\ cut[a] = to
      BY <1>1, <1>2, <1>5, <3>1
    <3> QED BY <2>2, <3>2
  <2>3. CASE p > a
    <3>1. p \in (a + 1)..L /\ p \in a..L /\ p - 1 \in a..L
      BY <2>3
    <3>2. Fits(parts[p], text, right[p - 1], right[p], fold)
      BY <1>2, <3>1 DEF Chain
    <3>3. cut[p] = right[p] /\ cut[p - 1] = right[p - 1]
      BY <1>5, <3>1
    <3> QED BY <3>2, <3>3
  <2> QED BY <2>1, <2>2, <2>3
<1>7. 0 \in 0..(a - 1) /\ a - 1 \in 0..(a - 1) /\ a \in a..L /\ L \in a..L
  OBVIOUS
<1>8. cut[0] = x /\ cut[a - 1] = from /\ cut[a] = to /\ cut[L] = y
  BY <1>1, <1>2, <1>5, <1>7
<1> QED BY <1>4, <1>6, <1>8 DEF Chain

\* A cut has cuts before and behind each of its parts.
LEMMA ChainSplit ==
  ASSUME NEW parts, NEW text, NEW fold, NEW L \in Nat, NEW a \in 1..L, NEW cut,
         Chain(parts, text, fold, 0, L, cut)
  PROVE  /\ HasCut(parts, text, fold, 0, a - 1, cut[0], cut[a - 1])
         /\ HasCut(parts, text, fold, a, L, cut[a], cut[L])
         /\ Fits(parts[a], text, cut[a - 1], cut[a], fold)
         /\ cut[a - 1] \in 0..Len(text) /\ cut[a] \in 0..Len(text)
<1> DEFINE h == 0
           j == a - 1
<1>1. h \in Nat /\ j \in Nat /\ a \in Nat /\ h <= h /\ h <= j /\ j <= L /\ h <= a /\ a <= L /\ L <= L
  OBVIOUS
<1>0. Chain(parts, text, fold, h, L, cut)
  OBVIOUS
<1>2. h \in h..j /\ j \in h..j /\ a \in a..L /\ L \in a..L /\ a \in (0 + 1)..L /\ j \in 0..L /\ a \in 0..L
  OBVIOUS
<1> HIDE DEF h, j
<1>3. PICK left : Chain(parts, text, fold, h, j, left) /\ Agree(left, cut, h, j)
  BY <1>0, <1>1, ChainPiece
<1>4. PICK right : Chain(parts, text, fold, a, L, right) /\ Agree(right, cut, a, L)
  BY <1>0, <1>1, ChainPiece
<1>5. HasCut(parts, text, fold, h, j, cut[h], cut[j])
  BY <1>2, <1>3 DEF HasCut, Agree
<1>6. HasCut(parts, text, fold, a, L, cut[a], cut[L])
  BY <1>2, <1>4 DEF HasCut, Agree
<1>7. Fits(parts[a], text, cut[a - 1], cut[a], fold) /\ cut[j] \in 0..Len(text) /\ cut[a] \in 0..Len(text)
  BY <1>2 DEF Chain
<1> QED BY <1>5, <1>6, <1>7 DEF h, j

\* What a match is.
LEMMA MatchIsCut ==
  ASSUME NEW sig, SigOK(sig), NEW file, NEW anchorAt
  PROVE  Matches(sig, file, anchorAt) <=>
           \E cut : /\ Chain(sig.parts, file.text, sig.fold, 0, Len(sig.parts), cut)
                    /\ anchorAt = cut[sig.anchor.part - 1] + (sig.anchor.start - 1)
                    /\ sig.fullword => on_word_boundaries(file.text, cut[0], cut[Len(sig.parts)])
                    /\ InPlace(sig, file, cut[0])
<1>1. DOMAIN sig.parts = (0 + 1)..Len(sig.parts)
  BY DEF SigOK
<1> QED BY <1>1 DEF Matches, Chain

\* verify claims no match that is none, and misses none for which the first fit
\* is as good as any, while its steps last.
THEOREM VerifyAgrees ==
  ASSUME NEW sig, SigOK(sig), NEW file, file.text \in Seq(Bytes), NEW anchorAt \in Nat,
         NEW steps \in Nat, NEW v, v = verify(sig, file, anchorAt, steps)
  PROVE  /\ v.steps \in Nat /\ steps <= v.steps /\ v.matched \in BOOLEAN
         /\ v.matched => Matches(sig, file, anchorAt)
         /\ Matches(sig, file, anchorAt) /\ FirstFitSuffices(sig) /\ v.steps <= MaxSteps => v.matched
<1> DEFINE parts == sig.parts
           text == file.text
           fold == sig.fold
           a == sig.anchor.part
           L == Len(parts)
           st == sig.anchor.start - 1
           from == anchorAt - st
           bytes == AnchorBytes(sig)
           n == Len(bytes)
           to == from + n
           left == match_left(parts, a - 1, text, from, steps, fold)
           right == match_right(parts, a + 1, text, to, left.steps, fold)
           no(s) == [matched |-> FALSE, steps |-> s]
           bad == anchorAt < st \/ ~bytes_match(bytes, text, from, fold)
           good == /\ sig.fullword => on_word_boundaries(text, left.at, right.at)
                   /\ InPlace(sig, file, left.at)
<1>1. /\ parts \in Seq(PartType) /\ L \in Nat /\ a \in 1..L /\ a - 1 \in Nat /\ a - 1 <= L /\ a + 1 \in Nat
      /\ 1 <= a + 1 /\ a + 1 <= L + 1 /\ parts[a].kind = "bytes" /\ st \in Nat /\ text \in Seq(Bytes)
      /\ Len(text) \in Nat /\ a + 1 - 1 = a
  <2>1. /\ parts \in Seq(PartType) /\ a \in 1..L /\ parts[a].kind = "bytes" /\ sig.anchor.start \in Nat \ {0}
        /\ text \in Seq(Bytes)
    BY DEF SigOK
  <2>2. L \in Nat /\ Len(text) \in Nat
    BY <2>1
  <2>3. st \in Nat
    BY <2>1
  <2> HIDE DEF parts, a, L, st, text
  <2> QED BY <2>1, <2>2, <2>3
<1>2. bytes = parts[a].bytes /\ n \in Nat
  <2>1. Len(parts[a].bytes) \in Nat
    BY <1>1, PartFacts
  <2> QED BY <2>1 DEF AnchorBytes
<1>3. v = IF bad THEN no(steps)
          ELSE IF left.at = None THEN no(left.steps)
          ELSE IF right.at = None THEN no(right.steps)
          ELSE [matched |-> good, steps |-> right.steps]
  BY DEF verify
<1>4. from \in Int /\ from + st = anchorAt /\ (~(anchorAt < st) => from \in Nat)
  <2> HIDE DEF st
  <2> QED BY <1>1
<1>5. ASSUME NEW cut, Chain(parts, text, fold, 0, L, cut), anchorAt = cut[a - 1] + st
      PROVE  /\ ~bad /\ cut[a - 1] = from /\ cut[a] = to
             /\ HasCut(parts, text, fold, 0, a - 1, cut[0], from)
             /\ HasCut(parts, text, fold, a, L, to, cut[L])
  <2> HIDE DEF parts, a, L, text, fold, st, n
  <2>1. /\ HasCut(parts, text, fold, 0, a - 1, cut[0], cut[a - 1])
        /\ HasCut(parts, text, fold, a, L, cut[a], cut[L])
        /\ Fits(parts[a], text, cut[a - 1], cut[a], fold)
        /\ cut[a - 1] \in 0..Len(text) /\ cut[a] \in 0..Len(text)
    BY <1>1, <1>5, ChainSplit
  <2>2. cut[a - 1] \in Nat
    BY <1>1, <2>1
  <2>3. ~(anchorAt < st) /\ cut[a - 1] = from
    <3> DEFINE x == cut[a - 1]
    <3>1. x \in Nat /\ anchorAt = x + st
      BY <1>5, <2>2
    <3> HIDE DEF x
    <3>2. ~(anchorAt < st) /\ x = anchorAt - st
      BY <1>1, <3>1
    <3> QED BY <3>2 DEF x
  <2>4. cut[a] = cut[a - 1] + Len(parts[a].bytes) /\ bytes_match(parts[a].bytes, text, cut[a - 1], fold)
    BY <1>1, <2>1 DEF Fits
  <2>5. cut[a] = to /\ bytes_match(bytes, text, from, fold)
    BY <1>2, <2>3, <2>4 DEF n
  <2> QED BY <2>1, <2>3, <2>5
<1>6. Matches(sig, file, anchorAt) <=>
        \E cut : /\ Chain(parts, text, fold, 0, L, cut) /\ anchorAt = cut[a - 1] + st
                 /\ sig.fullword => on_word_boundaries(text, cut[0], cut[L])
                 /\ InPlace(sig, file, cut[0])
  BY MatchIsCut
<1>7. CASE bad
  <2>1. v = no(steps)
    BY <1>3, <1>7
  <2>2. ~Matches(sig, file, anchorAt)
    <3> HIDE DEF bad
    <3> QED BY <1>5, <1>6, <1>7
  <2>3. v.steps = steps /\ v.matched = FALSE
    BY <2>1
  <2>4. v.steps \in Nat /\ steps <= v.steps
    BY <2>3
  <2> QED BY <2>2, <2>3, <2>4
<1>8. CASE ~bad
  <2>1. from \in Nat /\ to \in Nat /\ from <= Len(text) /\ to <= Len(text)
    <3>1. from \in Nat
      BY <1>4, <1>8
    <3>2. from + n <= Len(text)
      BY <1>8 DEF bytes_match
    <3>3. Len(text) \in Nat
      BY <1>1
    <3> DEFINE z == Len(text)
    <3> HIDE DEF from, n, text, z
    <3>4. from \in Nat /\ n \in Nat /\ z \in Nat /\ from + n <= z
      BY <1>2, <3>1, <3>2, <3>3 DEF z
    <3>5. from <= z /\ to \in Nat /\ to <= z
      BY <3>4
    <3> QED BY <3>1, <3>5 DEF z
  <2>2. Fits(parts[a], text, from, to, fold)
    BY <1>1, <1>2, <1>8 DEF Fits
  <2> HIDE DEF parts, text, fold, a, L, from, n, to, bytes, st, bad
  <2>3. /\ left \in Result /\ steps <= left.steps
        /\ left.at # None => HasCut(parts, text, fold, 0, a - 1, left.at, from)
        /\ left.at = None /\ left.steps <= MaxSteps =>
             \A x : ~HasCut(parts, text, fold, 0, a - 1, x, from)
    <3> DEFINE b == a - 1
               l == left
    <3>1. b \in Nat /\ b <= Len(parts) /\ l = match_left(parts, b, text, from, steps, fold)
      BY <1>1 DEF L
    <3> HIDE DEF b, l
    <3>2. StartFound(parts, text, fold, b, from, steps, l)
      BY <1>1, <2>1, <3>1, MatchLeft
    <3> QED BY <3>2 DEF b, l, StartFound
  <2>4. left.steps \in Nat
    BY <2>3 DEF Result
  <2> HIDE DEF left
  <2>5. /\ right \in Result /\ left.steps <= right.steps
        /\ right.at # None => HasCut(parts, text, fold, a, L, to, right.at)
        /\ right.at = None /\ right.steps <= MaxSteps =>
             \A x : ~HasCut(parts, text, fold, a, L, to, x)
    <3> DEFINE b == a + 1
               l == right
    <3>1. /\ b \in Nat /\ 1 <= b /\ b <= Len(parts) + 1
          /\ l = match_right(parts, b, text, to, left.steps, fold)
      BY <1>1 DEF L
    <3>b. b - 1 = a
      BY <1>1
    <3> HIDE DEF b, l
    <3>2. EndFound(parts, text, fold, b, to, left.steps, l)
      BY <1>1, <2>1, <2>4, <3>1, MatchRight
    <3> QED BY <3>2, <3>b DEF l, L, EndFound
  <2>6. right.steps \in Nat
    BY <2>5 DEF Result
  <2> HIDE DEF right
  <2>7. CASE left.at = None
    <3>1. v = no(left.steps)
      BY <1>3, <1>8, <2>7
    <3>2. v.steps = left.steps /\ v.matched = FALSE
      BY <3>1
    <3>3. ASSUME Matches(sig, file, anchorAt), v.steps <= MaxSteps PROVE FALSE
      BY <1>5, <1>6, <2>3, <2>7, <3>2, <3>3
    <3> QED BY <2>3, <2>4, <3>2, <3>3
  <2>8. CASE left.at # None /\ right.at = None
    <3>1. v = no(right.steps)
      BY <1>3, <1>8, <2>8
    <3>2. v.steps = right.steps /\ v.matched = FALSE
      BY <3>1
    <3>3. ASSUME Matches(sig, file, anchorAt), v.steps <= MaxSteps PROVE FALSE
      BY <1>5, <1>6, <2>5, <2>8, <3>2, <3>3
    <3>4. steps <= right.steps
      BY <2>3, <2>4, <2>5, <2>6
    <3> QED BY <2>6, <3>2, <3>3, <3>4
  <2>9. CASE left.at # None /\ right.at # None
    <3>1. v = [matched |-> good, steps |-> right.steps]
      BY <1>3, <1>8, <2>9
    <3>2. v.steps = right.steps /\ v.matched = good
      BY <3>1
    <3>3. steps <= right.steps
      BY <2>3, <2>4, <2>5, <2>6
    <3>4. HasCut(parts, text, fold, 0, a - 1, left.at, from) /\ HasCut(parts, text, fold, a, L, to, right.at)
      BY <2>3, <2>5, <2>9
    <3>5. ASSUME good PROVE Matches(sig, file, anchorAt)
      <4>1. PICK cut : /\ Chain(parts, text, fold, 0, L, cut) /\ cut[0] = left.at /\ cut[a - 1] = from
                       /\ cut[a] = to /\ cut[L] = right.at
        BY <1>1, <2>2, <3>4, ChainJoin
      <4>2. anchorAt = cut[a - 1] + st
        BY <1>4, <4>1
      <4> QED BY <1>6, <3>5, <4>1, <4>2
    <3>6. ASSUME Matches(sig, file, anchorAt), FirstFitSuffices(sig) PROVE good
      <4>1. PICK cut : /\ Chain(parts, text, fold, 0, L, cut) /\ anchorAt = cut[a - 1] + st
                       /\ sig.fullword => on_word_boundaries(text, cut[0], cut[L])
                       /\ InPlace(sig, file, cut[0])
        BY <1>6, <3>6
      <4>2. cut[a - 1] = from /\ cut[a] = to
        BY <1>5, <4>1
      <4>3. ASSUME a = 1 PROVE left.at = cut[0]
        <5>1. a - 1 = 0
          BY <4>3
        <5>2. left.at = from
          BY <3>4, <5>1 DEF HasCut
        <5> QED BY <4>2, <5>1, <5>2
      <4>4. ASSUME L = 1 PROVE right.at = cut[L] /\ a = 1
        <5>1. a = L
          BY <1>1, <4>4
        <5>2. right.at = to
          BY <3>4, <5>1 DEF HasCut
        <5> QED BY <4>2, <4>4, <5>1, <5>2
      <4>5. sig.fullword => L = 1
        BY <3>6 DEF FirstFitSuffices, L, parts
      <4>6. sig.offset.base # "anywhere" => a = 1
        BY <3>6 DEF FirstFitSuffices, a
      <4>7. InPlace(sig, file, left.at)
        <5>1. CASE sig.offset.base = "anywhere"
          BY <5>1 DEF InPlace
        <5>2. CASE sig.offset.base # "anywhere"
          BY <4>1, <4>3, <4>6, <5>2
        <5> QED BY <5>1, <5>2
      <4>8. sig.fullword => on_word_boundaries(text, left.at, right.at)
        BY <4>1, <4>3, <4>4, <4>5
      <4> QED BY <4>7, <4>8
    <3>7. good \in BOOLEAN
      OBVIOUS
    <3> HIDE DEF good
    <3> QED BY <2>6, <3>2, <3>3, <3>5, <3>6, <3>7
  <2> QED BY <2>7, <2>8, <2>9
<1> QED BY <1>7, <1>8

-----------------------------------------------------------------------------
(* Where a signature matches, its anchor is found.                         *)

\* What a search's anchors find at a place.
AnchorAt(sig, text, at) ==
  at \in 0..Len(text) /\ bytes_match(lowered(Window(sig.parts, sig.anchor)), lowered(text), at, FALSE)

\* Lowering changes no length.
LEMMA LoweredFacts ==
  ASSUME NEW S, NEW s \in Seq(S)
  PROVE  /\ Len(lowered(s)) = Len(s) /\ DOMAIN lowered(s) = 1..Len(s)
         /\ \A i \in 1..Len(s) : lowered(s)[i] = to_ascii_lowercase(s[i])
<1> DEFINE T == {to_ascii_lowercase(s[i]) : i \in 1..Len(s)}
<1>1. lowered(s) = [i \in 1..Len(s) |-> to_ascii_lowercase(s[i])]
  BY DEF lowered
<1>2. Len(s) \in Nat
  OBVIOUS
<1>3. \A i \in 1..Len(s) : to_ascii_lowercase(s[i]) \in T
  OBVIOUS
<1> HIDE DEF T
<1>4. lowered(s) \in [1..Len(s) -> T]
  BY <1>1, <1>3
<1>5. Len(lowered(s)) = Len(s)
  BY <1>2, <1>4
<1> QED BY <1>1, <1>5

\* The bytes of the anchor's part.
LEMMA AnchorBytesTyped ==
  ASSUME NEW sig, SigOK(sig)
  PROVE  AnchorBytes(sig) \in Seq(Bytes \cup {Wildcard})
<1> DEFINE part == sig.parts[sig.anchor.part]
<1>1. sig.parts \in Seq(PartType) /\ sig.anchor.part \in 1..Len(sig.parts)
  BY DEF SigOK
<1>2. part \in PartType
  BY <1>1
<1> HIDE DEF part
<1>3. part.bytes \in Seq(Bytes \cup {Wildcard})
  BY <1>2 DEF PartType
<1> QED BY <1>3 DEF AnchorBytes, part

\* A part of a sequence is the sequence of the elements there.
LEMMA SubSeqIs ==
  ASSUME NEW b, NEW m \in Nat, NEW l \in Nat, NEW n, n = m + l - 1
  PROVE  SubSeq(b, m, n) = [i \in 1..l |-> b[i + m - 1]]
<1>1. (n - m) + 1 = l /\ n \in Int
  OBVIOUS
<1> QED BY <1>1

\* The anchor's window: so many bytes of its part, from the anchor's start.
LEMMA WindowFacts ==
  ASSUME NEW sig, SigOK(sig), NEW w, w = Window(sig.parts, sig.anchor)
  PROVE  /\ w \in Seq(Bytes \cup {Wildcard}) /\ Len(w) = sig.anchor.len
         /\ \A k \in 1..sig.anchor.len :
              /\ w[k] = AnchorBytes(sig)[k + (sig.anchor.start - 1)] /\ w[k] # Wildcard
              /\ k + (sig.anchor.start - 1) \in DOMAIN AnchorBytes(sig)
<1> DEFINE b == AnchorBytes(sig)
           m == sig.anchor.start
           n == m + sig.anchor.len - 1
           l == sig.anchor.len
           size == Len(b)
<1>1. sig.parts \in Seq(PartType) /\ sig.anchor.part \in 1..Len(sig.parts)
  BY DEF SigOK
<1>2. b \in Seq(Bytes \cup {Wildcard})
  BY AnchorBytesTyped
<1>3. size \in Nat /\ DOMAIN b = 1..size
  BY <1>2
<1>4. m \in Nat /\ m >= 1 /\ l \in Nat /\ l >= 1 /\ m + l <= size + 1
  BY DEF SigOK
<1>5. w = SubSeq(b, m, n)
  BY DEF Window, AnchorBytes
<1>6. \A i \in m..n : b[i] # Wildcard
  BY DEF SigOK
<1>s. n = m + l - 1
  OBVIOUS
<1> HIDE DEF b, m, n, l, size
<1>7. \A i \in m..n : i \in 1..size
  BY <1>3, <1>4, <1>s
<1>8. w = [i \in 1..l |-> b[i + m - 1]]
  <2> QED BY <1>4, <1>5, <1>s, SubSeqIs
<1>9. ASSUME NEW k \in 1..l
      PROVE  /\ w[k] = b[k + (m - 1)] /\ w[k] # Wildcard /\ k + (m - 1) \in 1..size
             /\ w[k] \in Bytes \cup {Wildcard}
  <2>1. k + (m - 1) \in m..n /\ k + m - 1 = k + (m - 1)
    BY <1>4, <1>s
  <2>2. w[k] = b[k + (m - 1)]
    BY <1>8, <2>1
  <2>3. k + (m - 1) \in 1..size
    BY <1>7, <2>1
  <2> QED BY <1>2, <1>3, <1>6, <2>1, <2>2, <2>3
<1>10. w \in [1..l -> Bytes \cup {Wildcard}]
  BY <1>8, <1>9
<1>11. w \in Seq(Bytes \cup {Wildcard}) /\ Len(w) = l
  BY <1>4, <1>10
<1> QED BY <1>3, <1>9, <1>11 DEF l, m, b, size

\* A signature's anchor occurs wherever the signature matches.
LEMMA AnchorFound ==
  ASSUME NEW sig, SigOK(sig), NEW file, file.text \in Seq(Bytes), NEW at \in Nat,
         Matches(sig, file, at)
  PROVE  AnchorAt(sig, file.text, at)
<1> DEFINE text == file.text
           a == sig.anchor.part
           L == Len(sig.parts)
           b == AnchorBytes(sig)
           st == sig.anchor.start - 1
           l == sig.anchor.len
           w == Window(sig.parts, sig.anchor)
           size == Len(text)
           n == Len(b)
<1>1. PICK cut : /\ Chain(sig.parts, file.text, sig.fold, 0, L, cut)
                 /\ at = cut[a - 1] + st
  BY MatchIsCut
<1>2. sig.parts \in Seq(PartType) /\ a \in 1..L /\ L \in Nat /\ sig.parts[a].kind = "bytes"
  BY DEF SigOK
<1>3. Fits(sig.parts[a], text, cut[a - 1], cut[a], sig.fold) /\ cut[a - 1] \in 0..size
  BY <1>1, <1>2, ChainSplit
<1> DEFINE from == cut[a - 1]
<1>4. bytes_match(b, text, from, sig.fold)
  BY <1>2, <1>3 DEF Fits, AnchorBytes
<1>5. size \in Nat /\ from \in Nat
  BY <1>3
<1>6. /\ w \in Seq(Bytes \cup {Wildcard}) /\ Len(w) = l
      /\ \A k \in 1..l : w[k] = b[k + st] /\ w[k] # Wildcard /\ k + st \in DOMAIN b
  <2> HIDE DEF w
  <2>1. w = Window(sig.parts, sig.anchor)
    BY DEF w
  <2> QED BY <2>1, WindowFacts
<1>7. b \in Seq(Bytes \cup {Wildcard})
  BY AnchorBytesTyped
<1>8. n \in Nat /\ st \in Nat /\ l \in Nat /\ st + l <= n
  <2>1. n \in Nat /\ sig.anchor.start \in Nat /\ sig.anchor.start >= 1 /\ sig.anchor.len \in Nat
        /\ sig.anchor.start + sig.anchor.len <= n + 1
    BY <1>7 DEF SigOK
  <2> HIDE DEF n
  <2> QED BY <2>1
<1>9. from + n <= size /\ \A i \in DOMAIN b : eq(b[i], text[from + i], sig.fold)
  BY <1>4 DEF bytes_match
<1>10. /\ Len(lowered(w)) = l /\ DOMAIN lowered(w) = 1..l
       /\ \A i \in 1..l : lowered(w)[i] = to_ascii_lowercase(w[i])
  BY <1>6, LoweredFacts
<1>11. /\ Len(lowered(text)) = size
       /\ \A i \in 1..size : lowered(text)[i] = to_ascii_lowercase(text[i])
  BY LoweredFacts
<1>12. at = from + st
  BY <1>1
<1> HIDE DEF text, a, b, st, l, w, size, n, from
<1>13. at \in 0..size /\ at + l <= size
  BY <1>5, <1>8, <1>9, <1>12
<1>14. ASSUME NEW k \in 1..l PROVE lowered(w)[k] = lowered(text)[at + k]
  <2>1. eq(b[k + st], text[from + (k + st)], sig.fold) /\ w[k] = b[k + st] /\ w[k] # Wildcard
    BY <1>6, <1>9
  <2>2. from + (k + st) = at + k /\ at + k \in 1..size
    BY <1>5, <1>8, <1>9, <1>12
  <2>3. to_ascii_lowercase(w[k]) = to_ascii_lowercase(text[at + k])
    BY <2>1, <2>2 DEF eq
  <2> QED BY <1>10, <1>11, <2>2, <2>3
<1>15. bytes_match(lowered(w), lowered(text), at, FALSE)
  BY <1>10, <1>11, <1>13, <1>14 DEF bytes_match, eq
<1> QED BY <1>13, <1>15 DEF AnchorAt, w, text, size

-----------------------------------------------------------------------------
(* The folds, each of which stays among values no step of it leaves.       *)

\* A fold's values, each step's a value again.
IsFold(h, G, V, base, n) ==
  /\ h \in [SUBSET (1..n) -> V] /\ h[{}] = base
  /\ \A t \in SUBSET (1..n) :
       t # {} => /\ Max(t) \in 1..n /\ h[t \ {Max(t)}] \in V
                /\ h[t] = G[<<Max(t), h[t \ {Max(t)}]>>]

\* There is such a fold.
LEMMA FoldGiven ==
  ASSUME NEW V, NEW base, base \in V, NEW n \in Nat, NEW G, IsStep(G, V, n)
  PROVE  \E h : IsFold(h, G, V, base, n)
<1>1. PICK h \in [SUBSET (1..n) -> V] : h = FoldBody(G, base, n, h)
  <2>1. HasFold(G, V, base, n)
    BY FoldExists
  <2> QED BY <2>1 DEF HasFold
<1>2. \A t \in SUBSET (1..n) : h[t] = IF t = {} THEN base ELSE G[<<Max(t), h[t \ {Max(t)}]>>]
  BY <1>1 DEF FoldBody
<1>3. {} \in SUBSET (1..n)
  OBVIOUS
<1>4. \A t \in SUBSET (1..n) : t # {} => Max(t) \in 1..n /\ h[t \ {Max(t)}] \in V
  <2>1. \A t \in SUBSET (1..n) : t # {} => Max(t) \in 1..n
    BY MaxOfSome
  <2>2. \A t \in SUBSET (1..n) : t \ {Max(t)} \in SUBSET (1..n)
    OBVIOUS
  <2> QED BY <1>1, <2>1, <2>2
<1> QED BY <1>2, <1>3, <1>4 DEF IsFold

\* parse_hex joins one token after the other.
JoinedBody(tokens, h) ==
  [t \in SUBSET DOMAIN tokens |->
     IF t = {} THEN <<>> ELSE Join(h[t \ {Max(t)}], tokens[Max(t)])]
JoinedFold(tokens) == CHOOSE h : h = JoinedBody(tokens, h)

\* It is a fold.
LEMMA JoinedIsFold ==
  ASSUME NEW tokens
  PROVE  FoldLeft(Join, <<>>, tokens) = JoinedFold(tokens)[DOMAIN tokens]
BY DEF FoldLeft, MapThenFoldSet, JoinedFold, JoinedBody

\* It stays among values that no step leaves.
LEMMA JoinedStays ==
  ASSUME NEW n \in Nat, NEW tokens, DOMAIN tokens = 1..n,
         NEW V, <<>> \in V,
         \A i \in 1..n : \A x \in V : Join(x, tokens[i]) \in V
  PROVE  FoldLeft(Join, <<>>, tokens) \in V
<1> DEFINE G == [p \in (1..n) \X V |-> Join(p[2], tokens[p[1]])]
           H == JoinedFold(tokens)
           base == <<>>
<1>1. \A p \in (1..n) \X V : Join(p[2], tokens[p[1]]) \in V
  OBVIOUS
<1>2. IsStep(G, V, n) /\ \A i \in 1..n, x \in V : G[<<i, x>>] = Join(x, tokens[i])
  BY <1>1 DEF IsStep
<1>0. base \in V /\ base = <<>>
  OBVIOUS
<1> HIDE DEF G, base
<1>3. PICK h : IsFold(h, G, V, base, n)
  BY <1>0, <1>2, FoldGiven
<1>4. h = JoinedBody(tokens, h)
  <2>1. \A t \in SUBSET (1..n) : h[t] = IF t = {} THEN base ELSE Join(h[t \ {Max(t)}], tokens[Max(t)])
    BY <1>2, <1>3 DEF IsFold
  <2>2. h = [t \in SUBSET (1..n) |-> h[t]]
    BY <1>3 DEF IsFold
  <2> QED BY <1>0, <2>1, <2>2 DEF JoinedBody
<1>5. H = JoinedBody(tokens, H)
  BY <1>4 DEF JoinedFold
<1> HIDE DEF H
<1>6. \A t \in SUBSET (1..n) : H[t] = IF t = {} THEN base ELSE Join(H[t \ {Max(t)}], tokens[Max(t)])
  BY <1>0, <1>5 DEF JoinedBody
<1>7. Follows(H, G, V, base, n)
  <2>1. \A t \in SUBSET (1..n) : t # {} => Max(t) \in 1..n
    BY MaxOfSome
  <2>2. {} \in SUBSET (1..n)
    OBVIOUS
  <2> QED BY <1>2, <1>6, <2>1, <2>2 DEF Follows
<1>8. Runs(H, G, V, base, n)
  BY <1>0, <1>2, <1>7, FoldRuns
<1>9. H[1..n] \in V
  BY <1>8 DEF Runs
<1> QED BY <1>9, JoinedIsFold DEF H

\* How many bytes a part fixes.
FixedIn(part) == Cardinality({i \in DOMAIN part.bytes : part.bytes[i] # Wildcard})

\* fixed_bytes counts part by part.
FixingBody(parts, h) ==
  [t \in SUBSET DOMAIN parts |->
     IF t = {} THEN 0 ELSE h[t \ {Max(t)}] + FixedIn(parts[Max(t)])]
FixingFold(parts) == CHOOSE h : h = FixingBody(parts, h)

\* It is a fold.
LEMMA FixingIsFold ==
  ASSUME NEW parts
  PROVE  fixed_bytes(parts) = FixingFold(parts)[DOMAIN parts]
BY DEF fixed_bytes, FixedIn, FoldLeft, MapThenFoldSet, FixingFold, FixingBody

\* It stays among values that no step leaves.
LEMMA FixingStays ==
  ASSUME NEW n \in Nat, NEW parts, DOMAIN parts = 1..n,
         NEW V, 0 \in V,
         \A i \in 1..n : \A x \in V : x + FixedIn(parts[i]) \in V
  PROVE  fixed_bytes(parts) \in V
<1> DEFINE G == [p \in (1..n) \X V |-> p[2] + FixedIn(parts[p[1]])]
           H == FixingFold(parts)
           base == 0
<1>1. \A p \in (1..n) \X V : p[2] + FixedIn(parts[p[1]]) \in V
  OBVIOUS
<1>2. IsStep(G, V, n) /\ \A i \in 1..n, x \in V : G[<<i, x>>] = x + FixedIn(parts[i])
  BY <1>1 DEF IsStep
<1>0. base \in V /\ base = 0
  OBVIOUS
<1> HIDE DEF G, base
<1>3. PICK h : IsFold(h, G, V, base, n)
  BY <1>0, <1>2, FoldGiven
<1>4. h = FixingBody(parts, h)
  <2>1. \A t \in SUBSET (1..n) : h[t] = IF t = {} THEN base ELSE h[t \ {Max(t)}] + FixedIn(parts[Max(t)])
    BY <1>2, <1>3 DEF IsFold
  <2>2. h = [t \in SUBSET (1..n) |-> h[t]]
    BY <1>3 DEF IsFold
  <2> QED BY <1>0, <2>1, <2>2 DEF FixingBody
<1>5. H = FixingBody(parts, H)
  BY <1>4 DEF FixingFold
<1> HIDE DEF H
<1>6. \A t \in SUBSET (1..n) : H[t] = IF t = {} THEN base ELSE H[t \ {Max(t)}] + FixedIn(parts[Max(t)])
  BY <1>0, <1>5 DEF FixingBody
<1>7. Follows(H, G, V, base, n)
  <2>1. \A t \in SUBSET (1..n) : t # {} => Max(t) \in 1..n
    BY MaxOfSome
  <2>2. {} \in SUBSET (1..n)
    OBVIOUS
  <2> QED BY <1>2, <1>6, <2>1, <2>2 DEF Follows
<1>8. Runs(H, G, V, base, n)
  BY <1>0, <1>2, <1>7, FoldRuns
<1>9. H[1..n] \in V
  BY <1>8 DEF Runs
<1> QED BY <1>9, FixingIsFold DEF H

\* How rare a window's bytes are.
Rare(b) == IF b \in Common THEN 1 ELSE 3
rarity(window) == FoldLeft(LAMBDA n, b : n + IF b \in Common THEN 1 ELSE 3, 0, window)

\* window_score adds up how rare each byte is.
ScoreBody(window, h) ==
  [t \in SUBSET DOMAIN window |->
     IF t = {} THEN 0 ELSE h[t \ {Max(t)}] + Rare(window[Max(t)])]
ScoreFold(window) == CHOOSE h : h = ScoreBody(window, h)

\* It is a fold.
LEMMA ScoreIsFold ==
  ASSUME NEW window
  PROVE  rarity(window) = ScoreFold(window)[DOMAIN window]
BY DEF rarity, Rare, FoldLeft, MapThenFoldSet, ScoreFold, ScoreBody

\* It stays among values that no step leaves.
LEMMA ScoreStays ==
  ASSUME NEW n \in Nat, NEW window, DOMAIN window = 1..n,
         NEW V, 0 \in V,
         \A i \in 1..n : \A x \in V : x + Rare(window[i]) \in V
  PROVE  rarity(window) \in V
<1> DEFINE G == [p \in (1..n) \X V |-> p[2] + Rare(window[p[1]])]
           H == ScoreFold(window)
           base == 0
<1>1. \A p \in (1..n) \X V : p[2] + Rare(window[p[1]]) \in V
  OBVIOUS
<1>2. IsStep(G, V, n) /\ \A i \in 1..n, x \in V : G[<<i, x>>] = x + Rare(window[i])
  BY <1>1 DEF IsStep
<1>0. base \in V /\ base = 0
  OBVIOUS
<1> HIDE DEF G, base
<1>3. PICK h : IsFold(h, G, V, base, n)
  BY <1>0, <1>2, FoldGiven
<1>4. h = ScoreBody(window, h)
  <2>1. \A t \in SUBSET (1..n) : h[t] = IF t = {} THEN base ELSE h[t \ {Max(t)}] + Rare(window[Max(t)])
    BY <1>2, <1>3 DEF IsFold
  <2>2. h = [t \in SUBSET (1..n) |-> h[t]]
    BY <1>3 DEF IsFold
  <2> QED BY <1>0, <2>1, <2>2 DEF ScoreBody
<1>5. H = ScoreBody(window, H)
  BY <1>4 DEF ScoreFold
<1> HIDE DEF H
<1>6. \A t \in SUBSET (1..n) : H[t] = IF t = {} THEN base ELSE H[t \ {Max(t)}] + Rare(window[Max(t)])
  BY <1>0, <1>5 DEF ScoreBody
<1>7. Follows(H, G, V, base, n)
  <2>1. \A t \in SUBSET (1..n) : t # {} => Max(t) \in 1..n
    BY MaxOfSome
  <2>2. {} \in SUBSET (1..n)
    OBVIOUS
  <2> QED BY <1>2, <1>6, <2>1, <2>2 DEF Follows
<1>8. Runs(H, G, V, base, n)
  BY <1>0, <1>2, <1>7, FoldRuns
<1>9. H[1..n] \in V
  BY <1>8 DEF Runs
<1> QED BY <1>9, ScoreIsFold DEF H

\* A pattern set takes in one body signature after the other.
IngestBody(lines, none, h) ==
  [t \in SUBSET DOMAIN lines |->
     IF t = {} THEN none ELSE ingest(h[t \ {Max(t)}], lines[Max(t)])]
IngestFold(lines, none) == CHOOSE h : h = IngestBody(lines, none, h)

\* It is a fold.
LEMMA IngestIsFold ==
  ASSUME NEW lines, NEW none
  PROVE  FoldLeft(ingest, none, lines) = IngestFold(lines, none)[DOMAIN lines]
BY DEF FoldLeft, MapThenFoldSet, IngestFold, IngestBody

\* It stays among values that no step leaves.
LEMMA IngestStays ==
  ASSUME NEW n \in Nat, NEW lines, NEW none, DOMAIN lines = 1..n,
         NEW V, none \in V,
         \A i \in 1..n : \A x \in V : ingest(x, lines[i]) \in V
  PROVE  FoldLeft(ingest, none, lines) \in V
<1> DEFINE G == [p \in (1..n) \X V |-> ingest(p[2], lines[p[1]])]
           H == IngestFold(lines, none)
           base == none
<1>1. \A p \in (1..n) \X V : ingest(p[2], lines[p[1]]) \in V
  OBVIOUS
<1>2. IsStep(G, V, n) /\ \A i \in 1..n, x \in V : G[<<i, x>>] = ingest(x, lines[i])
  BY <1>1 DEF IsStep
<1>0. base \in V /\ base = none
  OBVIOUS
<1> HIDE DEF G, base
<1>3. PICK h : IsFold(h, G, V, base, n)
  BY <1>0, <1>2, FoldGiven
<1>4. h = IngestBody(lines, none, h)
  <2>1. \A t \in SUBSET (1..n) : h[t] = IF t = {} THEN base ELSE ingest(h[t \ {Max(t)}], lines[Max(t)])
    BY <1>2, <1>3 DEF IsFold
  <2>2. h = [t \in SUBSET (1..n) |-> h[t]]
    BY <1>3 DEF IsFold
  <2> QED BY <1>0, <2>1, <2>2 DEF IngestBody
<1>5. H = IngestBody(lines, none, H)
  BY <1>4 DEF IngestFold
<1> HIDE DEF H
<1>6. \A t \in SUBSET (1..n) : H[t] = IF t = {} THEN base ELSE ingest(H[t \ {Max(t)}], lines[Max(t)])
  BY <1>0, <1>5 DEF IngestBody
<1>7. Follows(H, G, V, base, n)
  <2>1. \A t \in SUBSET (1..n) : t # {} => Max(t) \in 1..n
    BY MaxOfSome
  <2>2. {} \in SUBSET (1..n)
    OBVIOUS
  <2> QED BY <1>2, <1>6, <2>1, <2>2 DEF Follows
<1>8. Runs(H, G, V, base, n)
  BY <1>0, <1>2, <1>7, FoldRuns
<1>9. H[1..n] \in V
  BY <1>8 DEF Runs
<1> QED BY <1>9, IngestIsFold DEF H

\* A pattern set takes in one logical signature after the other.
LogicalBody(lines, none, h) ==
  [t \in SUBSET DOMAIN lines |->
     IF t = {} THEN none ELSE parse_logical(h[t \ {Max(t)}], lines[Max(t)])]
LogicalFold(lines, none) == CHOOSE h : h = LogicalBody(lines, none, h)

\* It is a fold.
LEMMA LogicalIsFold ==
  ASSUME NEW lines, NEW none
  PROVE  FoldLeft(parse_logical, none, lines) = LogicalFold(lines, none)[DOMAIN lines]
BY DEF FoldLeft, MapThenFoldSet, LogicalFold, LogicalBody

\* It stays among values that no step leaves.
LEMMA LogicalStays ==
  ASSUME NEW n \in Nat, NEW lines, NEW none, DOMAIN lines = 1..n,
         NEW V, none \in V,
         \A i \in 1..n : \A x \in V : parse_logical(x, lines[i]) \in V
  PROVE  FoldLeft(parse_logical, none, lines) \in V
<1> DEFINE G == [p \in (1..n) \X V |-> parse_logical(p[2], lines[p[1]])]
           H == LogicalFold(lines, none)
           base == none
<1>1. \A p \in (1..n) \X V : parse_logical(p[2], lines[p[1]]) \in V
  OBVIOUS
<1>2. IsStep(G, V, n) /\ \A i \in 1..n, x \in V : G[<<i, x>>] = parse_logical(x, lines[i])
  BY <1>1 DEF IsStep
<1>0. base \in V /\ base = none
  OBVIOUS
<1> HIDE DEF G, base
<1>3. PICK h : IsFold(h, G, V, base, n)
  BY <1>0, <1>2, FoldGiven
<1>4. h = LogicalBody(lines, none, h)
  <2>1. \A t \in SUBSET (1..n) : h[t] = IF t = {} THEN base ELSE parse_logical(h[t \ {Max(t)}], lines[Max(t)])
    BY <1>2, <1>3 DEF IsFold
  <2>2. h = [t \in SUBSET (1..n) |-> h[t]]
    BY <1>3 DEF IsFold
  <2> QED BY <1>0, <2>1, <2>2 DEF LogicalBody
<1>5. H = LogicalBody(lines, none, H)
  BY <1>4 DEF LogicalFold
<1> HIDE DEF H
<1>6. \A t \in SUBSET (1..n) : H[t] = IF t = {} THEN base ELSE parse_logical(H[t \ {Max(t)}], lines[Max(t)])
  BY <1>0, <1>5 DEF LogicalBody
<1>7. Follows(H, G, V, base, n)
  <2>1. \A t \in SUBSET (1..n) : t # {} => Max(t) \in 1..n
    BY MaxOfSome
  <2>2. {} \in SUBSET (1..n)
    OBVIOUS
  <2> QED BY <1>2, <1>6, <2>1, <2>2 DEF Follows
<1>8. Runs(H, G, V, base, n)
  BY <1>0, <1>2, <1>7, FoldRuns
<1>9. H[1..n] \in V
  BY <1>8 DEF Runs
<1> QED BY <1>9, LogicalIsFold DEF H

\* A logical signature's pieces are stored one after the other.
SharedBody(variants, none, h) ==
  [t \in SUBSET DOMAIN variants |->
     IF t = {} THEN none ELSE Share(h[t \ {Max(t)}], variants[Max(t)])]
SharedFold(variants, none) == CHOOSE h : h = SharedBody(variants, none, h)

\* It is a fold.
LEMMA SharedIsFold ==
  ASSUME NEW variants, NEW none
  PROVE  FoldLeft(Share, none, variants) = SharedFold(variants, none)[DOMAIN variants]
BY DEF FoldLeft, MapThenFoldSet, SharedFold, SharedBody

\* It stays among values that no step leaves.
LEMMA SharedStays ==
  ASSUME NEW n \in Nat, NEW variants, NEW none, DOMAIN variants = 1..n,
         NEW V, none \in V,
         \A i \in 1..n : \A x \in V : Share(x, variants[i]) \in V
  PROVE  FoldLeft(Share, none, variants) \in V
<1> DEFINE G == [p \in (1..n) \X V |-> Share(p[2], variants[p[1]])]
           H == SharedFold(variants, none)
           base == none
<1>1. \A p \in (1..n) \X V : Share(p[2], variants[p[1]]) \in V
  OBVIOUS
<1>2. IsStep(G, V, n) /\ \A i \in 1..n, x \in V : G[<<i, x>>] = Share(x, variants[i])
  BY <1>1 DEF IsStep
<1>0. base \in V /\ base = none
  OBVIOUS
<1> HIDE DEF G, base
<1>3. PICK h : IsFold(h, G, V, base, n)
  BY <1>0, <1>2, FoldGiven
<1>4. h = SharedBody(variants, none, h)
  <2>1. \A t \in SUBSET (1..n) : h[t] = IF t = {} THEN base ELSE Share(h[t \ {Max(t)}], variants[Max(t)])
    BY <1>2, <1>3 DEF IsFold
  <2>2. h = [t \in SUBSET (1..n) |-> h[t]]
    BY <1>3 DEF IsFold
  <2> QED BY <1>0, <2>1, <2>2 DEF SharedBody
<1>5. H = SharedBody(variants, none, H)
  BY <1>4 DEF SharedFold
<1> HIDE DEF H
<1>6. \A t \in SUBSET (1..n) : H[t] = IF t = {} THEN base ELSE Share(H[t \ {Max(t)}], variants[Max(t)])
  BY <1>0, <1>5 DEF SharedBody
<1>7. Follows(H, G, V, base, n)
  <2>1. \A t \in SUBSET (1..n) : t # {} => Max(t) \in 1..n
    BY MaxOfSome
  <2>2. {} \in SUBSET (1..n)
    OBVIOUS
  <2> QED BY <1>2, <1>6, <2>1, <2>2 DEF Follows
<1>8. Runs(H, G, V, base, n)
  BY <1>0, <1>2, <1>7, FoldRuns
<1>9. H[1..n] \in V
  BY <1>8 DEF Runs
<1> QED BY <1>9, SharedIsFold DEF H

\* SumOver adds up one after the other.
SumBody(subs, f, h) ==
  [t \in SUBSET DOMAIN subs |->
     IF t = {} THEN 0 ELSE h[t \ {Max(t)}] + f[subs[Max(t)]]]
SumFold(subs, f) == CHOOSE h : h = SumBody(subs, f, h)

\* It is a fold.
LEMMA SumIsFold ==
  ASSUME NEW subs, NEW f
  PROVE  SumOver(subs, f) = SumFold(subs, f)[DOMAIN subs]
BY DEF SumOver, FoldLeft, MapThenFoldSet, SumFold, SumBody

\* It stays among values that no step leaves.
LEMMA SumStays ==
  ASSUME NEW n \in Nat, NEW subs, NEW f, DOMAIN subs = 1..n,
         NEW V, 0 \in V,
         \A i \in 1..n : \A x \in V : x + f[subs[i]] \in V
  PROVE  SumOver(subs, f) \in V
<1> DEFINE G == [p \in (1..n) \X V |-> p[2] + f[subs[p[1]]]]
           H == SumFold(subs, f)
           base == 0
<1>1. \A p \in (1..n) \X V : p[2] + f[subs[p[1]]] \in V
  OBVIOUS
<1>2. IsStep(G, V, n) /\ \A i \in 1..n, x \in V : G[<<i, x>>] = x + f[subs[i]]
  BY <1>1 DEF IsStep
<1>0. base \in V /\ base = 0
  OBVIOUS
<1> HIDE DEF G, base
<1>3. PICK h : IsFold(h, G, V, base, n)
  BY <1>0, <1>2, FoldGiven
<1>4. h = SumBody(subs, f, h)
  <2>1. \A t \in SUBSET (1..n) : h[t] = IF t = {} THEN base ELSE h[t \ {Max(t)}] + f[subs[Max(t)]]
    BY <1>2, <1>3 DEF IsFold
  <2>2. h = [t \in SUBSET (1..n) |-> h[t]]
    BY <1>3 DEF IsFold
  <2> QED BY <1>0, <2>1, <2>2 DEF SumBody
<1>5. H = SumBody(subs, f, H)
  BY <1>4 DEF SumFold
<1> HIDE DEF H
<1>6. \A t \in SUBSET (1..n) : H[t] = IF t = {} THEN base ELSE H[t \ {Max(t)}] + f[subs[Max(t)]]
  BY <1>0, <1>5 DEF SumBody
<1>7. Follows(H, G, V, base, n)
  <2>1. \A t \in SUBSET (1..n) : t # {} => Max(t) \in 1..n
    BY MaxOfSome
  <2>2. {} \in SUBSET (1..n)
    OBVIOUS
  <2> QED BY <1>2, <1>6, <2>1, <2>2 DEF Follows
<1>8. Runs(H, G, V, base, n)
  BY <1>0, <1>2, <1>7, FoldRuns
<1>9. H[1..n] \in V
  BY <1>8 DEF Runs
<1> QED BY <1>9, SumIsFold DEF H

\* What one piece adds to a sub-signature's count, and the order they are taken in.
Seen(logical, count, s, i) == IF logical.slot_of[i] = s THEN count[logical.pieces[i]] ELSE 0
Order(logical) == [i \in DOMAIN logical.pieces |-> i]

\* What Tally counts of one sub-signature.
Tallied(logical, count, s) ==
  FoldLeft(LAMBDA n, i : n + IF logical.slot_of[i] = s THEN count[logical.pieces[i]] ELSE 0,
           0, [i \in DOMAIN logical.pieces |-> i])

\* Tally counts one piece after the other.
TallyBody(logical, count, s, h) ==
  [t \in SUBSET DOMAIN Order(logical) |->
     IF t = {} THEN 0 ELSE h[t \ {Max(t)}] + Seen(logical, count, s, Order(logical)[Max(t)])]
TallyFold(logical, count, s) == CHOOSE h : h = TallyBody(logical, count, s, h)

\* It is a fold.
LEMMA TallyIsFold ==
  ASSUME NEW logical, NEW count, NEW s
  PROVE  Tallied(logical, count, s) = TallyFold(logical, count, s)[DOMAIN Order(logical)]
BY DEF Tallied, Seen, Order, FoldLeft, MapThenFoldSet, TallyFold, TallyBody

\* It stays among values that no step leaves.
LEMMA TallyStays ==
  ASSUME NEW n \in Nat, NEW logical, NEW count, NEW s, DOMAIN Order(logical) = 1..n,
         NEW V, 0 \in V,
         \A i \in 1..n : \A x \in V : x + Seen(logical, count, s, Order(logical)[i]) \in V
  PROVE  Tallied(logical, count, s) \in V
<1> DEFINE G == [p \in (1..n) \X V |-> p[2] + Seen(logical, count, s, Order(logical)[p[1]])]
           H == TallyFold(logical, count, s)
           base == 0
<1>1. \A p \in (1..n) \X V : p[2] + Seen(logical, count, s, Order(logical)[p[1]]) \in V
  OBVIOUS
<1>2. IsStep(G, V, n) /\ \A i \in 1..n, x \in V : G[<<i, x>>] = x + Seen(logical, count, s, Order(logical)[i])
  BY <1>1 DEF IsStep
<1>0. base \in V /\ base = 0
  OBVIOUS
<1> HIDE DEF G, base
<1>3. PICK h : IsFold(h, G, V, base, n)
  BY <1>0, <1>2, FoldGiven
<1>4. h = TallyBody(logical, count, s, h)
  <2>1. \A t \in SUBSET (1..n) : h[t] = IF t = {} THEN base ELSE h[t \ {Max(t)}] + Seen(logical, count, s, Order(logical)[Max(t)])
    BY <1>2, <1>3 DEF IsFold
  <2>2. h = [t \in SUBSET (1..n) |-> h[t]]
    BY <1>3 DEF IsFold
  <2> QED BY <1>0, <2>1, <2>2 DEF TallyBody
<1>5. H = TallyBody(logical, count, s, H)
  BY <1>4 DEF TallyFold
<1> HIDE DEF H
<1>6. \A t \in SUBSET (1..n) : H[t] = IF t = {} THEN base ELSE H[t \ {Max(t)}] + Seen(logical, count, s, Order(logical)[Max(t)])
  BY <1>0, <1>5 DEF TallyBody
<1>7. Follows(H, G, V, base, n)
  <2>1. \A t \in SUBSET (1..n) : t # {} => Max(t) \in 1..n
    BY MaxOfSome
  <2>2. {} \in SUBSET (1..n)
    OBVIOUS
  <2> QED BY <1>2, <1>6, <2>1, <2>2 DEF Follows
<1>8. Runs(H, G, V, base, n)
  BY <1>0, <1>2, <1>7, FoldRuns
<1>9. H[1..n] \in V
  BY <1>8 DEF Runs
<1> QED BY <1>9, TallyIsFold DEF H

-----------------------------------------------------------------------------
(* The anchor chosen for a signature.                                      *)

\* The image of a finite set is finite.
LEMMA FiniteImage ==
  ASSUME NEW S, IsFiniteSet(S), NEW f
  PROVE  IsFiniteSet({f[x] : x \in S})
<1> DEFINE T == {f[x] : x \in S}
           g == [x \in S |-> f[x]]
<1>1. g \in [S -> T]
  OBVIOUS
<1>2. \A y \in T : \E x \in S : g[x] = y
  OBVIOUS
<1>3. g \in Surjection(S, T)
  BY <1>1, <1>2 DEF Surjection
<1> QED BY <1>3, FS_Surjection

\* A strict order that tells any two elements apart.
IsOrder(R, S) ==
  /\ \A v \in S : <<v, v>> \notin R
  /\ \A u, v, w \in S : <<u, v>> \in R /\ <<v, w>> \in R => <<u, w>> \in R
  /\ \A v, w \in S : v # w => <<v, w>> \in R \/ <<w, v>> \in R

\* A finite set has a first element.
LEMMA FirstExists ==
  ASSUME NEW S, IsFiniteSet(S), S # {}, NEW R, IsOrder(R, S)
  PROVE  \E w \in S : \A v \in S \ {w} : <<w, v>> \in R
<1> DEFINE ahead(w) == {v \in S : <<v, w>> \in R}
           sizes == {Cardinality(ahead(w)) : w \in S}
<1>1. \A w \in S : IsFiniteSet(ahead(w)) /\ Cardinality(ahead(w)) \in Nat
  <2> SUFFICES ASSUME NEW w \in S PROVE IsFiniteSet(ahead(w)) /\ Cardinality(ahead(w)) \in Nat
    OBVIOUS
  <2>1. ahead(w) \in SUBSET S
    OBVIOUS
  <2> HIDE DEF ahead
  <2>2. IsFiniteSet(ahead(w))
    BY <2>1, FS_Subset
  <2> QED BY <2>2, FS_CardinalityType
<1>2. sizes \in SUBSET Nat /\ sizes # {}
  <2> HIDE DEF ahead
  <2> QED BY <1>1
<1> HIDE DEF sizes
<1>3. Min(sizes) \in sizes /\ \A y \in sizes : Min(sizes) <= y
  BY <1>2, LeastNumber
<1>4. PICK w \in S : Cardinality(ahead(w)) = Min(sizes)
  BY <1>3 DEF sizes
<1>5. ASSUME NEW v \in S \ {w} PROVE <<w, v>> \in R
  <2>1. SUFFICES ASSUME <<v, w>> \in R PROVE FALSE
    BY DEF IsOrder
  <2>2. ahead(v) \in SUBSET ahead(w) /\ v \in ahead(w) /\ v \notin ahead(v)
    BY <2>1 DEF IsOrder
  <2>3. Cardinality(ahead(v)) \in sizes
    BY DEF sizes
  <2> HIDE DEF ahead
  <2>4. Cardinality(ahead(v)) <= Cardinality(ahead(w)) /\ Cardinality(ahead(v)) # Cardinality(ahead(w))
    BY <1>1, <2>2, FS_Subset
  <2>5. Cardinality(ahead(w)) <= Cardinality(ahead(v))
    BY <1>3, <1>4, <2>3
  <2> QED BY <1>1, <2>4, <2>5
<1> QED BY <1>5

\* A window's score is a number.
LEMMA ScoreTyped ==
  ASSUME NEW S, NEW window \in Seq(S)
  PROVE  window_score(window) \in Nat
<1> DEFINE n == Len(window)
           zero == 0
<1>1. n \in Nat /\ DOMAIN window = 1..n /\ zero \in Nat /\ zero = 0
  OBVIOUS
<1>2. \A i \in 1..n : \A x \in Nat : x + Rare(window[i]) \in Nat
  BY DEF Rare
<1>3. rarity(window) \in Nat
  <2> HIDE DEF n
  <2> QED BY <1>1, <1>2, ScoreStays
<1>4. IsFiniteSet(DOMAIN window)
  BY <1>1, FS_Interval
<1>5. IsFiniteSet({window[i] : i \in DOMAIN window})
  BY <1>4, FiniteImage
<1>6. Cardinality({window[i] : i \in DOMAIN window}) \in Nat
  BY <1>5, FS_CardinalityType
<1> HIDE DEF n, zero
<1>7. window_score(window) = rarity(window) + Cardinality({window[i] : i \in DOMAIN window})
  BY DEF window_score, rarity, FoldLeft, MapThenFoldSet
<1> QED BY <1>3, <1>6, <1>7

\* There are finitely many windows.
LEMMA WindowsFinite ==
  ASSUME NEW parts \in Seq(PartType)
  PROVE  IsFiniteSet(Windows(parts))
<1> DEFINE A == DOMAIN parts
           B == 1..MaxSize
           C == MinAnchor..MaxAnchor
           S == (A \X B) \X C
           f == [x \in S |-> [part |-> x[1][1], start |-> x[1][2], len |-> x[2]]]
<1>1. IsFiniteSet(A) /\ IsFiniteSet(B) /\ IsFiniteSet(C)
  <2>1. A = 1..Len(parts) /\ Len(parts) \in Nat
    OBVIOUS
  <2>2. MaxSize \in Nat /\ MinAnchor \in Nat /\ MaxAnchor \in Nat
    BY PatternAssumption
  <2> QED BY <2>1, <2>2, FS_Interval
<1> HIDE DEF A, B, C
<1>2. IsFiniteSet(S)
  BY <1>1, FS_Product
<1>3. Windows(parts) \in SUBSET {f[x] : x \in S}
  <2> SUFFICES ASSUME NEW w \in Windows(parts) PROVE w \in {f[x] : x \in S}
    OBVIOUS
  <2>3. PICK p \in A, s \in B, n \in C : w = [part |-> p, start |-> s, len |-> n]
    BY DEF Windows, A, B, C
  <2>1. <<<<p, s>>, n>> \in S
    OBVIOUS
  <2>2. f[<<<<p, s>>, n>>] = [part |-> p, start |-> s, len |-> n]
    BY <2>1
  <2> QED BY <2>1, <2>2, <2>3
<1> HIDE DEF S, f
<1>4. IsFiniteSet({f[x] : x \in S})
  BY <1>2, FiniteImage
<1> QED BY <1>3, <1>4, FS_Subset

\* A window's fields.
IsWindow(parts, w) ==
  /\ w.part \in DOMAIN parts /\ w.start \in Nat /\ w.start >= 1 /\ w.len \in Nat /\ w.len >= 1
  /\ w.len <= MaxAnchor /\ w = [part |-> w.part, start |-> w.start, len |-> w.len]

\* Every window has them.
LEMMA WindowTyped ==
  ASSUME NEW parts, NEW w \in Windows(parts)
  PROVE  IsWindow(parts, w)
<1>1. PICK p \in DOMAIN parts, s \in 1..MaxSize, n \in MinAnchor..MaxAnchor :
        w = [part |-> p, start |-> s, len |-> n]
  BY DEF Windows
<1>2. w.part = p /\ w.start = s /\ w.len = n
  BY <1>1
<1>3. MaxSize \in Nat /\ MinAnchor \in Nat \ {0} /\ MaxAnchor \in Nat
  BY PatternAssumption
<1>4. s \in Nat /\ s >= 1 /\ n \in Nat /\ n >= 1 /\ n <= MaxAnchor
  BY <1>3
<1> QED BY <1>1, <1>2, <1>4 DEF IsWindow

\* Two windows that start at one place are not of two widths.
LEMMA NoShorterWindow ==
  ASSUME NEW parts \in Seq(PartType), NEW v, NEW w, IsWindow(parts, v), IsWindow(parts, w),
         Searchable(parts, v), Searchable(parts, w), v.part = w.part, v.start = w.start,
         v.len < w.len
  PROVE  FALSE
<1> DEFINE b == parts[v.part].bytes
           s == v.start
           k == s + v.len - 1
           e == s + w.len - 1
           n == Len(b)
<1>1. s \in Nat /\ v.len \in Nat /\ w.len \in Nat /\ v.len < w.len /\ w.len <= MaxAnchor /\ MaxAnchor \in Nat
  BY PatternAssumption DEF IsWindow
<1>2. parts[v.part] \in PartType
  BY DEF IsWindow
<1>3. b \in Seq(Bytes \cup {Wildcard})
  <2> DEFINE q == parts[v.part]
  <2>1. q \in PartType
    BY <1>2
  <2> HIDE DEF q
  <2>2. q.bytes \in Seq(Bytes \cup {Wildcard})
    BY <2>1 DEF PartType
  <2> QED BY <2>2 DEF q
<1>4. n \in Nat
  BY <1>3
<1>5. e <= n /\ \A i \in s..e : b[i] # Wildcard
  BY DEF Searchable, Fixed
<1>6. v.len = MaxAnchor \/ ~(k < n /\ b[k + 1] # Wildcard)
  BY DEF Searchable
<1>7. k + 1 \in s..e /\ k < n
  <2> DEFINE x == v.len
             y == w.len
  <2>1. x \in Nat /\ y \in Nat /\ x < y /\ k = s + x - 1 /\ e = s + y - 1
    BY <1>1
  <2> HIDE DEF x, y, k, e, s, n
  <2> QED BY <1>1, <1>4, <1>5, <2>1
<1>8. b[k + 1] # Wildcard
  BY <1>5, <1>7
<1> HIDE DEF k, n, b
<1> QED BY <1>1, <1>6, <1>7, <1>8

\* So they are one.
LEMMA WindowsApart ==
  ASSUME NEW parts \in Seq(PartType), NEW v, NEW w, IsWindow(parts, v), IsWindow(parts, w),
         Searchable(parts, v), Searchable(parts, w), v.part = w.part, v.start = w.start
  PROVE  v = w
<1>1. v.len \in Nat /\ w.len \in Nat
  BY DEF IsWindow
<1>2. ~(v.len < w.len) /\ ~(w.len < v.len)
  BY NoShorterWindow
<1>3. v.len = w.len
  BY <1>1, <1>2
<1> QED BY <1>3 DEF IsWindow

\* The anchor chosen is a window.
LEMMA AnchorChosen ==
  ASSUME NEW parts \in Seq(PartType), NEW w, w = best_anchor(parts), w # None
  PROVE  IsWindow(parts, w) /\ Searchable(parts, w)
<1> DEFINE S == {x \in Windows(parts) : Searchable(parts, x)}
           score(x) == window_score(Window(parts, x))
           before(x, y) == x.part < y.part \/ (x.part = y.part /\ x.start < y.start)
           first(x, y) == score(y) < score(x) \/ (score(y) = score(x) /\ before(x, y))
           R == {p \in S \X S : first(p[1], p[2])}
<1>1. IsFiniteSet(S)
  BY WindowsFinite, FS_Subset
<1>2. \A x \in S : IsWindow(parts, x) /\ Searchable(parts, x)
  BY WindowTyped
<1>3. \A x \in S : score(x) \in Nat /\ x.part \in Nat /\ x.start \in Nat
  <2> SUFFICES ASSUME NEW x \in S PROVE score(x) \in Nat /\ x.part \in Nat /\ x.start \in Nat
    OBVIOUS
  <2>1. IsWindow(parts, x) /\ Searchable(parts, x)
    BY <1>2
  <2>2. x.part \in DOMAIN parts /\ x.start \in Nat /\ x.part \in Nat
    BY <2>1 DEF IsWindow
  <2> DEFINE b == parts[x.part].bytes
             m == x.start
             l == x.len
             e == m + l - 1
             B == Bytes \cup {Wildcard}
  <2>3. b \in Seq(B)
    <3> DEFINE q == parts[x.part]
    <3>1. q \in PartType
      BY <2>2
    <3> HIDE DEF q
    <3>2. q.bytes \in Seq(Bytes \cup {Wildcard})
      BY <3>1 DEF PartType
    <3> QED BY <3>2 DEF q
  <2>4. e <= Len(b) /\ Len(b) \in Nat /\ m \in Nat /\ m >= 1 /\ l \in Nat
    BY <2>1, <2>3 DEF Searchable, IsWindow
  <2>e. e = m + l - 1
    OBVIOUS
  <2> HIDE DEF b, m, l, e, B
  <2>5. m \in Int /\ e \in Int /\ \A i \in m..e : b[i] \in B
    BY <2>3, <2>4, <2>e
  <2>6. SubSeq(b, m, e) \in Seq(B)
    BY <2>5, SubSeqProperties
  <2>7. Window(parts, x) = SubSeq(b, m, e)
    BY DEF Window, b, m, e, l
  <2>8. score(x) \in Nat
    BY <2>6, <2>7, ScoreTyped
  <2> QED BY <2>2, <2>8
<1>4. \A x, y \in S : x.part = y.part /\ x.start = y.start => x = y
  BY <1>2, WindowsApart
<1>5. w = Best(S, parts)
  BY DEF best_anchor
<1>6. \A x, y \in S : <<x, y>> \in R <=> first(x, y)
  OBVIOUS
<1>7. S # {} /\ w = CHOOSE x \in S : \A y \in S \ {x} : first(x, y)
  BY <1>5 DEF Best
<1> HIDE DEF S, R, score
<1>8. IsOrder(R, S)
  <2>1. \A x \in S : ~first(x, x)
    BY <1>3
  <2>2. \A x, y, z \in S : first(x, y) /\ first(y, z) => first(x, z)
    BY <1>3
  <2>3. \A x, y \in S : x # y => first(x, y) \/ first(y, x)
    BY <1>3, <1>4
  <2> QED BY <1>6, <2>1, <2>2, <2>3 DEF IsOrder
<1>9. PICK x \in S : \A y \in S \ {x} : <<x, y>> \in R
  BY <1>1, <1>7, <1>8, FirstExists
<1>10. \A y \in S \ {x} : first(x, y)
  BY <1>6, <1>9
<1>11. w \in S
  <2> HIDE DEF first
  <2> QED BY <1>7, <1>9, <1>10
<1> QED BY <1>2, <1>11

\* What build_signature keeps is a signature.
LEMMA BuiltOK ==
  ASSUME NEW line, NEW parts, parts # None => parts \in Seq(PartType), NEW m,
         NEW sig, sig = build_signature(line, parts, m), sig.kept
  PROVE  SigOK(sig) /\ sig.piece = FALSE /\ sig.parts = parts
<1> DEFINE no == [kept |-> FALSE]
           w == best_anchor(parts)
<1>1. no.kept = FALSE
  OBVIOUS
<1>2. sig # no
  BY <1>1
<1>3. parts # None /\ sig = Anchored(line, parts, w)
  BY <1>2 DEF build_signature
<1> HIDE DEF w
<1>4. /\ w # None
      /\ sig = [kept |-> TRUE, target |-> line.target, offset |-> line.offset, parts |-> parts,
                anchor |-> w, piece |-> FALSE, fold |-> FALSE, fullword |-> FALSE]
  BY <1>2, <1>3 DEF Anchored
<1>5. sig.parts = parts /\ sig.anchor = w /\ sig.piece = FALSE
  BY <1>4
<1>6. parts \in Seq(PartType)
  BY <1>3
<1>7. IsWindow(parts, w) /\ Searchable(parts, w)
  BY <1>4, <1>6, AnchorChosen DEF w
<1>8. AnchorBytes(sig) = parts[w.part].bytes
  BY <1>5 DEF AnchorBytes
<1>9. w.part \in 1..Len(parts) /\ w.start \in Nat \ {0} /\ w.len \in Nat \ {0}
  BY <1>6, <1>7 DEF IsWindow
<1>10. /\ parts[w.part].kind = "bytes" /\ w.start + w.len - 1 <= Len(parts[w.part].bytes)
       /\ \A i \in w.start..(w.start + w.len - 1) : parts[w.part].bytes[i] # Wildcard
  BY <1>7 DEF Searchable, Fixed
<1>11. w.start + w.len <= Len(parts[w.part].bytes) + 1
  <2> DEFINE b == parts[w.part].bytes
             q == parts[w.part]
             n == Len(b)
             s == w.start
             l == w.len
  <2>1. q \in PartType
    BY <1>6, <1>9
  <2>2. n \in Nat
    <3> HIDE DEF q
    <3>1. q.bytes \in Seq(Bytes \cup {Wildcard})
      BY <2>1 DEF PartType
    <3>2. Len(q.bytes) \in Nat
      BY <3>1
    <3> QED BY <3>2 DEF q
  <2>3. s \in Nat /\ l \in Nat /\ s + l - 1 <= n
    BY <1>9, <1>10
  <2> HIDE DEF n, s, l
  <2>4. s + l <= n + 1
    BY <2>2, <2>3
  <2> QED BY <2>4 DEF n, s, l
<1> QED BY <1>5, <1>6, <1>8, <1>9, <1>10, <1>11 DEF SigOK

-----------------------------------------------------------------------------
(* From a line to its signatures.                                          *)

\* What signatures are made of.
WindowType == [part : Nat, start : Nat, len : Nat]
SigType == [kept : {TRUE}, target : Targets, offset : OffsetType, parts : Seq(PartType),
            anchor : WindowType, piece : BOOLEAN, fold : BOOLEAN, fullword : BOOLEAN]
Sigs(piece) == {s \in SigType : SigOK(s) /\ s.piece = piece}

\* A signature kept is one.
LEMMA BuiltTyped ==
  ASSUME NEW line, line.target \in Targets, line.offset \in OffsetType,
         NEW parts, parts # None => parts \in Seq(PartType), NEW m,
         NEW sig, sig = build_signature(line, parts, m), sig.kept
  PROVE  sig \in Sigs(FALSE) /\ sig.parts = parts
<1> DEFINE no == [kept |-> FALSE]
           w == best_anchor(parts)
<1>1. no.kept = FALSE
  OBVIOUS
<1>2. sig # no
  BY <1>1
<1>3. parts # None /\ sig = Anchored(line, parts, w)
  BY <1>2 DEF build_signature
<1> HIDE DEF w
<1>4. /\ w # None
      /\ sig = [kept |-> TRUE, target |-> line.target, offset |-> line.offset, parts |-> parts,
                anchor |-> w, piece |-> FALSE, fold |-> FALSE, fullword |-> FALSE]
  BY <1>2, <1>3 DEF Anchored
<1>5. parts \in Seq(PartType)
  BY <1>3
<1>6. IsWindow(parts, w)
  BY <1>4, <1>5, AnchorChosen DEF w
<1>7. w \in WindowType
  <2>1. w.part \in Nat /\ w.start \in Nat /\ w.len \in Nat
        /\ w = [part |-> w.part, start |-> w.start, len |-> w.len]
    BY <1>5, <1>6 DEF IsWindow
  <2> QED BY <2>1 DEF WindowType
<1>8. sig \in SigType /\ sig.parts = parts /\ sig.piece = FALSE
  BY <1>4, <1>5, <1>7 DEF SigType
<1>9. SigOK(sig)
  BY BuiltOK
<1> QED BY <1>8, <1>9 DEF Sigs

\* A run of bytes, and a gap.
LEMMA PartsTyped ==
  ASSUME NEW b \in Seq(Bytes \cup {Wildcard}), NEW min \in Nat, NEW max \in Nat
  PROVE  BytesPart(b) \in PartType /\ Gap(min, max) \in PartType
<1>1. <<>> \in Seq(Bytes \cup {Wildcard})
  OBVIOUS
<1> QED BY <1>1 DEF BytesPart, Gap, PartType

\* A part's fields.
LEMMA PartFields ==
  ASSUME NEW p \in PartType
  PROVE  p.bytes \in Seq(Bytes \cup {Wildcard}) /\ p.min \in Nat /\ p.max \in Nat
BY DEF PartType

\* The first of some parts, and the rest.
LEMMA SomeParts ==
  ASSUME NEW S, NEW s \in Seq(S), s # <<>>
  PROVE  /\ Len(s) \in Nat /\ Len(s) >= 1 /\ s[1] \in S /\ s[Len(s)] \in S /\ Tail(s) \in Seq(S)
         /\ SubSeq(s, 1, Len(s) - 1) \in Seq(S)
<1>1. Len(s) \in Nat /\ Len(s) >= 1
  OBVIOUS
<1>2. s[1] \in S /\ s[Len(s)] \in S
  BY <1>1
<1>3. Tail(s) \in Seq(S)
  OBVIOUS
<1> DEFINE m == 1
           n == Len(s) - 1
<1>4. m \in Int /\ n \in Int /\ \A i \in m..n : s[i] \in S
  BY <1>1
<1> HIDE DEF m, n
<1>5. SubSeq(s, m, n) \in Seq(S)
  BY <1>4, SubSeqProperties
<1> QED BY <1>1, <1>2, <1>3, <1>5 DEF m, n

\* A token joins parts to parts.
LEMMA JoinTyped ==
  ASSUME NEW parts \in Seq(PartType), NEW token \in PartType
  PROVE  Join(parts, token) \in Seq(PartType)
<1> DEFINE last == parts[Len(parts)]
           init == SubSeq(parts, 1, Len(parts) - 1)
           max == IF Unbounded \in {last.max, token.max} THEN Unbounded ELSE last.max + token.max
           min == last.min + token.min
           bytes == last.bytes \o token.bytes
<1>1. CASE parts # <<>> /\ last.kind = token.kind
  <2>1. init \in Seq(PartType) /\ last \in PartType
    BY <1>1, SomeParts
  <2>2. Join(parts, token) = Append(init, IF token.kind = "bytes" THEN BytesPart(bytes) ELSE Gap(min, max))
    BY <1>1 DEF Join
  <2> HIDE DEF init, last
  <2>3. /\ last.bytes \in Seq(Bytes \cup {Wildcard}) /\ last.min \in Nat /\ last.max \in Nat
        /\ token.bytes \in Seq(Bytes \cup {Wildcard}) /\ token.min \in Nat /\ token.max \in Nat
    BY <2>1, PartFields
  <2>4. Unbounded \in Nat
    BY PatternAssumption DEF Unbounded
  <2>5. bytes \in Seq(Bytes \cup {Wildcard}) /\ min \in Nat /\ max \in Nat
    <3>1. bytes \in Seq(Bytes \cup {Wildcard})
      BY <2>3
    <3>2. min \in Nat
      BY <2>3
    <3> DEFINE x == last.max
               y == token.max
    <3>3. x \in Nat /\ y \in Nat /\ max \in {Unbounded, x + y}
      BY <2>3
    <3> HIDE DEF x, y, max
    <3>4. max \in Nat
      BY <2>4, <3>3
    <3> QED BY <3>1, <3>2, <3>4
  <2> HIDE DEF bytes, min, max
  <2>6. BytesPart(bytes) \in PartType /\ Gap(min, max) \in PartType
    BY <2>5, PartsTyped
  <2> QED BY <2>1, <2>2, <2>6
<1>2. CASE ~(parts # <<>> /\ last.kind = token.kind)
  <2>1. Join(parts, token) = Append(parts, token)
    BY <1>2 DEF Join
  <2> QED BY <2>1
<1> QED BY <1>1, <1>2

\* parse_hex makes parts of tokens, if it understands them.
LEMMA HexTyped ==
  ASSUME NEW tokens \in Seq(PartType), NEW parts, parts = parse_hex(tokens), parts # None
  PROVE  parts \in Seq(PartType) /\ parts # <<>>
<1> DEFINE n == Len(tokens)
           V == Seq(PartType)
           joined == FoldLeft(Join, <<>>, tokens)
           front == TrimFront(joined)
           back == TrimBack(front)
<1>1. n \in Nat /\ DOMAIN tokens = 1..n /\ <<>> \in V /\ \A i \in 1..n : tokens[i] \in PartType
  OBVIOUS
<1>2. \A i \in 1..n : \A x \in V : Join(x, tokens[i]) \in V
  BY <1>1, JoinTyped
<1> HIDE DEF n
<1>3. joined \in V
  <2> HIDE DEF V
  <2> QED BY <1>1, <1>2, JoinedStays
<1>4. parts = Understood(back)
  BY DEF parse_hex
<1> HIDE DEF joined
<1>5. front \in V
  <2>1. joined # <<>> => Tail(joined) \in V
    BY <1>3, SomeParts
  <2> QED BY <1>3, <2>1 DEF TrimFront
<1> HIDE DEF front
<1>6. back \in V
  <2>1. front # <<>> => SubSeq(front, 1, Len(front) - 1) \in V
    BY <1>5, SomeParts
  <2> QED BY <1>5, <2>1 DEF TrimBack
<1> HIDE DEF back
<1> QED BY <1>4, <1>6 DEF Understood

\* Every other byte of a wide run is a zero.
LEMMA WidenedTyped ==
  ASSUME NEW b \in Seq(Bytes \cup {Wildcard})
  PROVE  Widened(b) \in Seq(Bytes \cup {Wildcard})
<1> DEFINE n == Len(b)
           B == Bytes \cup {Wildcard}
           w(i) == IF i % 2 = 1 THEN b[(i + 1) \div 2] ELSE "0"
<1>1. n \in Nat /\ 2 * n \in Nat /\ \A i \in 1..n : b[i] \in B
  OBVIOUS
<1>2. "0" \in B
  BY DEF Bytes
<1>3. Widened(b) = [i \in 1..2 * n |-> w(i)]
  BY DEF Widened
<1> HIDE DEF n, B
<1>4. ASSUME NEW i \in 1..2 * n PROVE w(i) \in B
  <2>1. i % 2 = 1 => (i + 1) \div 2 \in 1..n
    <3>1. i \in Nat /\ 1 <= i /\ i <= 2 * n
      BY <1>1
    <3> DEFINE k == (i + 1) \div 2
    <3>2. k \in Int /\ 2 * k <= i + 1 /\ i + 1 < 2 * k + 2
      BY <3>1
    <3> HIDE DEF k
    <3>3. k >= 1
      BY <3>1, <3>2
    <3>4. ASSUME i % 2 = 1 PROVE k <= n
      <4>1. i # 2 * n
        BY <1>1, <3>1, <3>4
      <4>2. i + 1 <= 2 * n
        BY <1>1, <3>1, <4>1
      <4> QED BY <1>1, <3>2, <4>2
    <3>5. i % 2 = 1 => k \in 1..n
      BY <1>1, <3>2, <3>3, <3>4
    <3> QED BY <3>5 DEF k
  <2> QED BY <1>1, <1>2, <2>1
<1>5. Widened(b) \in [1..2 * n -> B]
  BY <1>3, <1>4
<1> QED BY <1>1, <1>5 DEF B

\* A sub-signature has one form at least.
LEMMA FormsTyped ==
  ASSUME NEW piece, NEW parts \in Seq(PartType), parts # <<>>
  PROVE  Forms(piece, parts) \in Seq(Seq(PartType)) /\ Forms(piece, parts) # <<>>
<1> DEFINE wide == <<BytesPart(Widened(parts[1].bytes))>>
           narrow == parts
           V == Seq(PartType)
<1>1. wide \in V
  <2> DEFINE p == parts[1]
             b == Widened(p.bytes)
             z == 0
  <2>1. p \in PartType
    BY SomeParts
  <2> HIDE DEF p
  <2>2. p.bytes \in Seq(Bytes \cup {Wildcard})
    BY <2>1, PartFields
  <2>3. b \in Seq(Bytes \cup {Wildcard}) /\ z \in Nat
    BY <2>2, WidenedTyped
  <2> HIDE DEF b, z
  <2>4. BytesPart(b) \in PartType
    BY <2>3, PartsTyped
  <2>5. <<BytesPart(b)>> \in Seq(PartType)
    BY <2>4
  <2> QED BY <2>5 DEF p, b
<1>2. narrow \in V
  OBVIOUS
<1>3. Forms(piece, parts) = (IF "w" \in piece.modifiers /\ "a" \notin piece.modifiers THEN <<>> ELSE <<narrow>>)
                               \o (IF "w" \in piece.modifiers THEN <<wide>> ELSE <<>>)
  BY DEF Forms
<1> HIDE DEF wide, narrow, V
<1>4. /\ <<>> \o <<wide>> \in Seq(V) /\ <<>> \o <<wide>> # <<>>
      /\ <<narrow>> \o <<wide>> \in Seq(V) /\ <<narrow>> \o <<wide>> # <<>>
      /\ <<narrow>> \o <<>> \in Seq(V) /\ <<narrow>> \o <<>> # <<>>
  BY <1>1, <1>2
<1> QED BY <1>3, <1>4 DEF V

\* The signatures one sub-signature stands for.
LEMMA PieceTyped ==
  ASSUME NEW piece, piece.tokens \in Seq(PartType), piece.target \in Targets,
         piece.offset \in OffsetType, NEW q, q = parse_piece(piece), q # None
  PROVE  q \in Seq(Sigs(TRUE)) /\ q # <<>>
<1> DEFINE parts == parse_hex(piece.tokens)
           forms == Forms(piece, parts)
           built == BuildForms(piece, forms)
           fold == "i" \in piece.modifiers
           full == "f" \in piece.modifiers
           flag(s) == [s EXCEPT !.piece = TRUE, !.fold = fold, !.fullword = full]
<1>1. parts # None /\ q = Flagged(piece, built)
  BY DEF parse_piece, PieceOf
<1>2. parts \in Seq(PartType) /\ parts # <<>>
  BY <1>1, HexTyped
<1> HIDE DEF parts
<1>3. forms \in Seq(Seq(PartType)) /\ forms # <<>>
  BY <1>2, FormsTyped
<1> HIDE DEF forms
<1> DEFINE n == Len(forms)
<1>4. n \in Nat /\ n >= 1 /\ DOMAIN forms = 1..n /\ \A i \in 1..n : forms[i] \in Seq(PartType)
  BY <1>3
<1> HIDE DEF n
<1>5. built = [i \in 1..n |-> build_signature(piece, forms[i], MinAnchor)]
  BY <1>4 DEF BuildForms
<1> HIDE DEF built
<1>6. DOMAIN built = 1..n /\ \A i \in 1..n : built[i] = build_signature(piece, forms[i], MinAnchor)
  BY <1>5
<1>7. (\A i \in 1..n : built[i].kept) /\ q = [i \in 1..n |-> flag(built[i])]
  BY <1>1, <1>6 DEF Flagged
<1>8. ASSUME NEW i \in 1..n PROVE flag(built[i]) \in Sigs(TRUE)
  <2> DEFINE s == built[i]
             f == flag(s)
  <2>1. s \in Sigs(FALSE)
    <3>1. forms[i] \in Seq(PartType) /\ s = build_signature(piece, forms[i], MinAnchor) /\ s.kept
      BY <1>4, <1>6, <1>7
    <3> HIDE DEF s
    <3> QED BY <3>1, BuiltTyped
  <2> HIDE DEF s
  <2>2. s \in SigType /\ SigOK(s)
    BY <2>1 DEF Sigs
  <2>0. fold \in BOOLEAN /\ full \in BOOLEAN
    OBVIOUS
  <2> HIDE DEF fold, full
  <2>3. f \in SigType /\ f.parts = s.parts /\ f.anchor = s.anchor /\ f.piece = TRUE
    BY <2>0, <2>2 DEF SigType
  <2> HIDE DEF f
  <2>4. SigOK(f)
    BY <2>2, <2>3 DEF SigOK, AnchorBytes
  <2>5. f \in Sigs(TRUE)
    BY <2>3, <2>4 DEF Sigs
  <2> QED BY <2>5 DEF f, s
<1> HIDE DEF flag
<1>9. q \in [1..n -> Sigs(TRUE)]
  BY <1>7, <1>8
<1>10. q \in Seq(Sigs(TRUE)) /\ Len(q) = n
  <2> DEFINE S == Sigs(TRUE)
  <2>1. q \in [1..n -> S]
    BY <1>9
  <2> HIDE DEF S
  <2>2. q \in Seq(S) /\ Len(q) = n
    BY <1>4, <2>1
  <2> QED BY <2>2 DEF S
<1>11. q # <<>>
  BY <1>4, <1>10
<1> QED BY <1>10, <1>11

\* The bytes a sub-signature fixes are a number.
LEMMA NarrowTyped ==
  ASSUME NEW parts \in Seq(PartType)
  PROVE  fixed_bytes_narrow(parts) \in Nat
<1> DEFINE n == Len(parts)
           zero == 0
<1>1. n \in Nat /\ DOMAIN parts = 1..n /\ zero \in Nat /\ zero = 0
  OBVIOUS
<1>2. ASSUME NEW i \in 1..n PROVE FixedIn(parts[i]) \in Nat
  <2> DEFINE p == parts[i]
             S == {k \in DOMAIN p.bytes : p.bytes[k] # Wildcard}
  <2>1. p \in PartType
    OBVIOUS
  <2> HIDE DEF p
  <2>2. p.bytes \in Seq(Bytes \cup {Wildcard})
    BY <2>1, PartFields
  <2>3. DOMAIN p.bytes = 1..Len(p.bytes) /\ Len(p.bytes) \in Nat
    BY <2>2
  <2>4. IsFiniteSet(DOMAIN p.bytes)
    BY <2>3, FS_Interval
  <2>5. S \in SUBSET DOMAIN p.bytes
    OBVIOUS
  <2> HIDE DEF S
  <2>6. IsFiniteSet(S)
    BY <2>4, <2>5, FS_Subset
  <2>7. Cardinality(S) \in Nat
    BY <2>6, FS_CardinalityType
  <2> QED BY <2>7 DEF S, p, FixedIn
<1>3. \A i \in 1..n : \A x \in Nat : x + FixedIn(parts[i]) \in Nat
  BY <1>2
<1>4. fixed_bytes(parts) \in Nat
  <2> HIDE DEF n, zero
  <2> QED BY <1>1, <1>3, FixingStays
<1> DEFINE f == fixed_bytes(parts)
<1> HIDE DEF f
<1>5. f \in Nat /\ f \div 2 \in Nat
  <2>1. f \in Nat
    BY <1>4 DEF f
  <2> QED BY <2>1
<1> QED BY <1>5 DEF fixed_bytes_narrow, f

-----------------------------------------------------------------------------
(* An expression whose weakest way fixes bytes does not hold of nothing.   *)

\* A node of an expression: what it counts and which nodes it is made of.
LEMMA NodeFacts ==
  ASSUME NEW expr, IsExpr(expr), NEW i \in DOMAIN expr, NEW node, node = expr[i]
  PROVE  /\ Len(expr) \in Nat /\ Len(expr) >= 1 /\ DOMAIN expr = 1..Len(expr)
         /\ node.subs \in Seq(Nat) /\ node.args \in Seq(Nat)
         /\ node.op \in {"seen", "count", "total", "all", "any"} /\ node.compare \in {">", "<", "="}
         /\ node.limit \in Nat /\ node.distinct \in Nat
         /\ node.op \in OfSubs => Len(node.subs) >= 1 /\ node.subs[1] \in Range(node.subs)
         /\ node.op \notin OfSubs => Len(node.args) >= 1 /\ node.args[1] \in Range(node.args)
         /\ Range(node.subs) \subseteq subsignatures(expr)
         /\ \A j \in Range(node.args) : j \in DOMAIN expr /\ j < i
<1>1. expr \in Seq(NodeType) /\ expr # <<>>
  BY DEF IsExpr
<1>2. Len(expr) \in Nat /\ Len(expr) >= 1 /\ DOMAIN expr = 1..Len(expr) /\ node \in NodeType
  BY <1>1
<1>3. /\ node.subs \in Seq(Nat) /\ node.args \in Seq(Nat)
      /\ node.op \in {"seen", "count", "total", "all", "any"} /\ node.compare \in {">", "<", "="}
      /\ node.limit \in Nat /\ node.distinct \in Nat
  BY <1>2 DEF NodeType, OfSubs
<1>4. IF node.op \in OfSubs THEN node.subs # <<>> ELSE node.args # <<>>
  BY DEF IsExpr
<1>5. \A s \in Seq(Nat) : s # <<>> => Len(s) >= 1 /\ s[1] \in Range(s)
  <2> SUFFICES ASSUME NEW s \in Seq(Nat), s # <<>> PROVE Len(s) >= 1 /\ s[1] \in Range(s)
    OBVIOUS
  <2>1. Len(s) >= 1 /\ 1 \in DOMAIN s
    OBVIOUS
  <2> QED BY <2>1 DEF Range
<1>6. Range(node.subs) \subseteq subsignatures(expr)
  BY DEF subsignatures
<1>7. \A j \in Range(node.args) : j \in DOMAIN expr /\ j < i
  <2>1. Range(node.args) \subseteq 1..(i - 1)
    BY DEF IsExpr
  <2>2. \A j \in 1..(i - 1) : j \in 1..Len(expr) /\ j < i
    BY <1>2
  <2> QED BY <1>2, <2>1, <2>2
<1> QED BY <1>2, <1>3, <1>4, <1>5, <1>6, <1>7

\* What SumOver adds up is all it depends on.
LEMMA SumLocal ==
  ASSUME NEW S, NEW subs \in Seq(S), NEW f, NEW g, \A s \in Range(subs) : f[s] = g[s]
  PROVE  SumOver(subs, f) = SumOver(subs, g)
<1>1. DOMAIN subs = 1..Len(subs) /\ Len(subs) \in Nat
  OBVIOUS
<1>2. \A i \in DOMAIN subs : f[subs[i]] = g[subs[i]]
  BY DEF Range
<1>3. \A t \in SUBSET DOMAIN subs : t # {} => Max(t) \in DOMAIN subs
  BY <1>1, MaxOfSome
<1>4. ASSUME NEW h PROVE SumBody(subs, f, h) = SumBody(subs, g, h)
  BY <1>2, <1>3 DEF SumBody
<1>5. SumFold(subs, f) = SumFold(subs, g)
  BY <1>4 DEF SumFold
<1> QED BY <1>5, SumIsFold

\* It is a number.
LEMMA SumTyped ==
  ASSUME NEW S, NEW subs \in Seq(S), NEW f, \A s \in Range(subs) : f[s] \in Nat
  PROVE  SumOver(subs, f) \in Nat
<1> DEFINE n == Len(subs)
           zero == 0
<1>1. n \in Nat /\ DOMAIN subs = 1..n /\ zero \in Nat /\ zero = 0
  OBVIOUS
<1>2. \A i \in 1..n : f[subs[i]] \in Nat
  BY <1>1 DEF Range
<1>3. \A i \in 1..n : \A x \in Nat : x + f[subs[i]] \in Nat
  BY <1>2
<1> HIDE DEF n, zero
<1> QED BY <1>1, <1>3, SumStays

\* Nothing adds up to nothing.
LEMMA SumZero ==
  ASSUME NEW S, NEW subs \in Seq(S), NEW f, \A s \in Range(subs) : f[s] = 0
  PROVE  SumOver(subs, f) = 0
<1> DEFINE n == Len(subs)
           zero == 0
           V == {0}
<1>1. n \in Nat /\ DOMAIN subs = 1..n /\ zero \in V /\ zero = 0
  OBVIOUS
<1>2. \A i \in 1..n : f[subs[i]] = 0
  BY <1>1 DEF Range
<1>3. \A i \in 1..n : \A x \in V : x + f[subs[i]] \in V
  BY <1>2
<1>4. SumOver(subs, f) \in V
  <2> HIDE DEF n, zero, V
  <2> QED BY <1>1, <1>3, SumStays
<1> QED BY <1>4

\* A least number of some.
LEMMA LeastOf ==
  ASSUME NEW X, NEW x \in X, NEW f, \A y \in X : f[y] \in Nat
  PROVE  LET m == Min({f[y] : y \in X}) IN m \in Nat /\ \A y \in X : m <= f[y]
<1> DEFINE t == {f[y] : y \in X}
<1>1. t \in SUBSET Nat /\ t # {} /\ \A y \in X : f[y] \in t
  OBVIOUS
<1> HIDE DEF t
<1>2. Min(t) \in t /\ \A y \in t : Min(t) <= y
  BY <1>1, LeastNumber
<1>3. Min(t) \in Nat /\ \A y \in X : Min(t) <= f[y]
  BY <1>1, <1>2
<1> QED BY <1>3 DEF t

-----------------------------------------------------------------------------
(* How many bytes it needs.                                                *)

\* required_bytes as the recursion it is.
NeedStep(expr, fixed, f, i) == NodeNeeds(expr[i], fixed, f)
NeedBody(expr, fixed, f) == [i \in DOMAIN expr |-> NeedStep(expr, fixed, f, i)]
Need(expr, fixed) == CHOOSE f : f = NeedBody(expr, fixed, f)

\* required_bytes is that recursion.
LEMMA NeedIs ==
  ASSUME NEW expr, NEW fixed
  PROVE  required_bytes(expr, fixed) = Need(expr, fixed)[Len(expr)]
BY DEF required_bytes, Need, NeedBody, NeedStep

\* One step makes a number of numbers, and looks at earlier nodes only.
LEMMA NeedStepTyped ==
  ASSUME NEW expr, IsExpr(expr), NEW fixed, \A s \in subsignatures(expr) : fixed[s] \in Nat,
         NEW i \in DOMAIN expr, NEW f, \A j \in DOMAIN expr : j < i => f[j] \in Nat
  PROVE  NeedStep(expr, fixed, f, i) \in Nat
<1> DEFINE node == expr[i]
<1>1. /\ node.subs \in Seq(Nat) /\ node.args \in Seq(Nat)
      /\ node.op \in {"seen", "count", "total", "all", "any"}
      /\ node.op \in OfSubs => node.subs[1] \in Range(node.subs)
      /\ node.op \notin OfSubs => node.args[1] \in Range(node.args)
      /\ Range(node.subs) \subseteq subsignatures(expr)
      /\ \A j \in Range(node.args) : j \in DOMAIN expr /\ j < i
  <2> HIDE DEF node
  <2>1. node = expr[i]
    BY DEF node
  <2> QED BY <2>1, NodeFacts
<1>2. \A s \in Range(node.subs) : fixed[s] \in Nat
  BY <1>1
<1>3. \A j \in Range(node.args) : f[j] \in Nat
  BY <1>1
<1>4. node.op \in OfSubs => fixed[node.subs[1]] \in Nat
  BY <1>1, <1>2
<1>5. node.op \in OfSubs => Min({fixed[s] : s \in Range(node.subs)}) \in Nat
  BY <1>1, <1>2, LeastOf
<1>6. node.op \notin OfSubs => Min({f[j] : j \in Range(node.args)}) \in Nat
  BY <1>1, <1>3, LeastOf
<1>7. SumOver(node.args, f) \in Nat
  BY <1>1, <1>3, SumTyped
<1>8. (node.op \in OfSubs) <=> (node.op \in {"seen", "count", "total"})
  BY DEF OfSubs
<1> HIDE DEF node
<1>9. CASE node.op = "seen"
  BY <1>4, <1>8, <1>9 DEF NeedStep, NodeNeeds, node
<1>10. CASE node.op = "count"
  BY <1>4, <1>8, <1>10 DEF NeedStep, NodeNeeds, node
<1>11. CASE node.op = "total"
  BY <1>5, <1>8, <1>11 DEF NeedStep, NodeNeeds, node
<1>12. CASE node.op = "all"
  BY <1>7, <1>12 DEF NeedStep, NodeNeeds, node
<1>13. CASE node.op = "any"
  BY <1>6, <1>8, <1>13 DEF NeedStep, NodeNeeds, node
<1> QED BY <1>1, <1>9, <1>10, <1>11, <1>12, <1>13

\* It looks at earlier nodes only.
LEMMA NeedStepLocal ==
  ASSUME NEW expr, IsExpr(expr), NEW fixed, NEW i \in DOMAIN expr, NEW f, NEW g,
         \A j \in DOMAIN expr : j < i => f[j] = g[j]
  PROVE  NeedStep(expr, fixed, f, i) = NeedStep(expr, fixed, g, i)
<1> DEFINE node == expr[i]
<1>1. node.args \in Seq(Nat) /\ \A j \in Range(node.args) : j \in DOMAIN expr /\ j < i
  <2> HIDE DEF node
  <2>1. node = expr[i]
    BY DEF node
  <2> QED BY <2>1, NodeFacts
<1>2. \A j \in Range(node.args) : f[j] = g[j]
  BY <1>1
<1>3. SumOver(node.args, f) = SumOver(node.args, g)
  BY <1>1, <1>2, SumLocal
<1>4. {f[j] : j \in Range(node.args)} = {g[j] : j \in Range(node.args)}
  BY <1>2
<1> QED BY <1>3, <1>4 DEF NeedStep, NodeNeeds

\* There is such a recursion, and it yields numbers.
LEMMA NeedSolved ==
  ASSUME NEW expr, IsExpr(expr), NEW fixed, \A s \in subsignatures(expr) : fixed[s] \in Nat
  PROVE  LET need == Need(expr, fixed) IN
         \A i \in DOMAIN expr : need[i] \in Nat /\ need[i] = NeedStep(expr, fixed, need, i)
<1> DEFINE S == DOMAIN expr
           n == Len(expr)
           zero == 0
           rank == [i \in S |-> i]
           G == [p \in [S -> Nat] \X S |-> NeedStep(expr, fixed, p[1], p[2])]
<1>1. n \in Nat /\ n >= 1 /\ S = 1..n
  <2>1. expr \in Seq(NodeType) /\ expr # <<>>
    BY DEF IsExpr
  <2> QED BY <2>1
<1>2. rank \in [S -> 0..n] /\ zero \in Nat /\ \A i \in S : rank[i] = i
  BY <1>1
<1>3. \A p \in [S -> Nat] \X S : NeedStep(expr, fixed, p[1], p[2]) \in Nat
  <2> SUFFICES ASSUME NEW f \in [S -> Nat], NEW i \in S PROVE NeedStep(expr, fixed, f, i) \in Nat
    OBVIOUS
  <2>1. \A j \in DOMAIN expr : j < i => f[j] \in Nat
    OBVIOUS
  <2> QED BY <2>1, NeedStepTyped
<1>4. G \in [[S -> Nat] \X S -> Nat] /\ \A f \in [S -> Nat], i \in S : G[<<f, i>>] = NeedStep(expr, fixed, f, i)
  BY <1>3
<1> HIDE DEF G, rank, S, n, zero
<1>5. ASSUME NEW f \in [S -> Nat], NEW g \in [S -> Nat], NEW i \in S,
             \A e \in S : rank[e] < rank[i] => f[e] = g[e]
      PROVE  G[<<f, i>>] = G[<<g, i>>]
  <2>1. \A j \in DOMAIN expr : j < i => f[j] = g[j]
    BY <1>2, <1>5 DEF S
  <2>2. NeedStep(expr, fixed, f, i) = NeedStep(expr, fixed, g, i)
    BY <2>1, NeedStepLocal DEF S
  <2> QED BY <1>4, <2>2
<1>6. LooksBack(G, S, Nat, rank)
  BY <1>4, <1>5 DEF LooksBack
<1>7. PICK f \in [S -> Nat] : Recurs(f, G, S)
  BY <1>1, <1>2, <1>6, RecursionExists
<1>8. f = NeedBody(expr, fixed, f)
  BY <1>4, <1>7 DEF Recurs, NeedBody, S
<1> DEFINE need == Need(expr, fixed)
<1>9. need = NeedBody(expr, fixed, need)
  BY <1>8 DEF Need
<1> HIDE DEF need
<1>10. \A i \in S : need[i] = NeedStep(expr, fixed, need, i)
  BY <1>9 DEF NeedBody, S
<1> DEFINE Good == {i \in 0..n : \A j \in S : j <= i => need[j] \in Nat}
<1>11. 0 \in Good
  BY <1>1
<1>12. ASSUME NEW i \in 1..n, i - 1 \in Good PROVE i \in Good
  <2>1. \A j \in DOMAIN expr : j < i => need[j] \in Nat
    BY <1>1, <1>12 DEF S
  <2>2. i \in DOMAIN expr
    BY <1>1 DEF S
  <2>3. NeedStep(expr, fixed, need, i) \in Nat
    BY <2>1, <2>2, NeedStepTyped
  <2>4. need[i] \in Nat
    BY <1>10, <2>2, <2>3 DEF S
  <2>5. \A j \in S : j <= i => j < i \/ j = i
    BY <1>1
  <2>6. i \in 0..n
    BY <1>1
  <2> QED BY <2>1, <2>4, <2>5, <2>6 DEF S
<1> HIDE DEF Good
<1>13. \A i \in 0..n : i \in Good
  BY <1>1, <1>11, <1>12, UpTo
<1>14. \A i \in S : need[i] \in Nat
  <2>1. n \in Good
    BY <1>1, <1>13
  <2> QED BY <1>1, <2>1 DEF Good
<1> QED BY <1>10, <1>14 DEF need, S

-----------------------------------------------------------------------------
(* Whether it holds.                                                       *)

\* holds as the recursion it is.
HoldStep(expr, counts, f, i) == NodeHolds(expr[i], counts, f)
HoldBody(expr, counts, f) == [i \in DOMAIN expr |-> HoldStep(expr, counts, f, i)]
Value(expr, counts) == CHOOSE f : f = HoldBody(expr, counts, f)

\* holds is that recursion.
LEMMA HoldIs ==
  ASSUME NEW expr, NEW counts
  PROVE  holds(expr, counts) = Value(expr, counts)[Len(expr)]
BY DEF holds, Value, HoldBody, HoldStep

\* A comparison holds or does not.
LEMMA CountedTyped ==
  ASSUME NEW compare \in {">", "<", "="}, NEW n, NEW limit
  PROVE  Counted(compare, n, limit) \in BOOLEAN
<1>1. CASE compare = ">"
  <2>1. Counted(compare, n, limit) <=> n > limit
    BY <1>1 DEF Counted
  <2>2. Counted(compare, n, limit) = (n > limit)
    BY <1>1 DEF Counted
  <2> QED BY <2>2
<1>2. CASE compare = "<"
  <2>2. Counted(compare, n, limit) = (n < limit)
    BY <1>2 DEF Counted
  <2> QED BY <2>2
<1>3. CASE compare = "="
  <2>2. Counted(compare, n, limit) = (n = limit)
    BY <1>3 DEF Counted
  <2> QED BY <2>2
<1> QED BY <1>1, <1>2, <1>3

\* One step says yes or no.
LEMMA HoldStepTyped ==
  ASSUME NEW expr, IsExpr(expr), NEW counts, NEW i \in DOMAIN expr,
         NEW f \in [DOMAIN expr -> BOOLEAN]
  PROVE  HoldStep(expr, counts, f, i) \in BOOLEAN
<1> DEFINE node == expr[i]
<1>1. node.op \in {"seen", "count", "total", "all", "any"} /\ node.compare \in {">", "<", "="}
  <2> HIDE DEF node
  <2>1. node = expr[i]
    BY DEF node
  <2> QED BY <2>1, NodeFacts
<1>2. \A n, limit : Counted(node.compare, n, limit) \in BOOLEAN
  BY <1>1, CountedTyped
<1> HIDE DEF node
<1>9. CASE node.op = "seen"
  BY <1>9 DEF HoldStep, NodeHolds, node
<1>10. CASE node.op = "count"
  BY <1>2, <1>10 DEF HoldStep, NodeHolds, node
<1>11. CASE node.op = "total"
  BY <1>2, <1>11 DEF HoldStep, NodeHolds, node
<1>12. CASE node.op = "all"
  BY <1>12 DEF HoldStep, NodeHolds, node
<1>13. CASE node.op = "any"
  BY <1>13 DEF HoldStep, NodeHolds, node
<1> QED BY <1>1, <1>9, <1>10, <1>11, <1>12, <1>13

\* It looks at earlier nodes only.
LEMMA HoldStepLocal ==
  ASSUME NEW expr, IsExpr(expr), NEW counts, NEW i \in DOMAIN expr, NEW f, NEW g,
         \A j \in DOMAIN expr : j < i => f[j] = g[j]
  PROVE  HoldStep(expr, counts, f, i) = HoldStep(expr, counts, g, i)
<1> DEFINE node == expr[i]
<1>1. node.op \in {"seen", "count", "total", "all", "any"} /\ \A j \in Range(node.args) : j \in DOMAIN expr /\ j < i
  <2> HIDE DEF node
  <2>1. node = expr[i]
    BY DEF node
  <2> QED BY <2>1, NodeFacts
<1>2. \A j \in Range(node.args) : f[j] = g[j]
  BY <1>1
<1> HIDE DEF node
<1>9. CASE node.op = "seen"
  BY <1>9 DEF HoldStep, NodeHolds, node
<1>10. CASE node.op = "count"
  BY <1>10 DEF HoldStep, NodeHolds, node
<1>11. CASE node.op = "total"
  BY <1>11 DEF HoldStep, NodeHolds, node
<1>12. CASE node.op = "all"
  BY <1>2, <1>12 DEF HoldStep, NodeHolds, node
<1>13. CASE node.op = "any"
  BY <1>2, <1>13 DEF HoldStep, NodeHolds, node
<1> QED BY <1>1, <1>9, <1>10, <1>11, <1>12, <1>13

\* There is such a recursion.
LEMMA HoldSolved ==
  ASSUME NEW expr, IsExpr(expr), NEW counts
  PROVE  LET value == Value(expr, counts) IN
         \A i \in DOMAIN expr : value[i] = HoldStep(expr, counts, value, i)
<1> DEFINE S == DOMAIN expr
           n == Len(expr)
           no == FALSE
           B == BOOLEAN
           rank == [i \in S |-> i]
           G == [p \in [S -> B] \X S |-> HoldStep(expr, counts, p[1], p[2])]
<1>1. n \in Nat /\ n >= 1 /\ S = 1..n
  <2>1. expr \in Seq(NodeType) /\ expr # <<>>
    BY DEF IsExpr
  <2> QED BY <2>1
<1>2. rank \in [S -> 0..n] /\ no \in B /\ \A i \in S : rank[i] = i
  BY <1>1
<1>3. \A p \in [S -> B] \X S : HoldStep(expr, counts, p[1], p[2]) \in B
  <2> SUFFICES ASSUME NEW f \in [S -> B], NEW i \in S PROVE HoldStep(expr, counts, f, i) \in B
    OBVIOUS
  <2> QED BY HoldStepTyped
<1>4. G \in [[S -> B] \X S -> B] /\ \A f \in [S -> B], i \in S : G[<<f, i>>] = HoldStep(expr, counts, f, i)
  BY <1>3
<1> HIDE DEF G, rank, S, n, no, B
<1>5. ASSUME NEW f \in [S -> B], NEW g \in [S -> B], NEW i \in S,
             \A e \in S : rank[e] < rank[i] => f[e] = g[e]
      PROVE  G[<<f, i>>] = G[<<g, i>>]
  <2>1. \A j \in DOMAIN expr : j < i => f[j] = g[j]
    BY <1>2, <1>5 DEF S
  <2>2. HoldStep(expr, counts, f, i) = HoldStep(expr, counts, g, i)
    BY <2>1, HoldStepLocal DEF S
  <2> QED BY <1>4, <2>2
<1>6. LooksBack(G, S, B, rank)
  BY <1>4, <1>5 DEF LooksBack
<1>7. PICK f \in [S -> B] : Recurs(f, G, S)
  BY <1>1, <1>2, <1>6, RecursionExists
<1>8. f = HoldBody(expr, counts, f)
  BY <1>4, <1>7 DEF Recurs, HoldBody, S
<1> DEFINE value == Value(expr, counts)
<1>9. value = HoldBody(expr, counts, value)
  BY <1>8 DEF Value
<1> HIDE DEF value
<1> QED BY <1>9 DEF HoldBody, value

\* Whether a node asks for a byte, and whether it holds of nothing.
Asks(need, i) == need[i] # 0
Counters(expr, counts) == \A s \in subsignatures(expr) : counts[s] = 0

\* No comparison that asks for bytes holds of zero.
LEMMA CountedZero ==
  ASSUME NEW compare, NEW limit \in Nat, NEW n, n = 0,
         compare = ">" \/ (compare = "=" /\ limit > 0)
  PROVE  ~Counted(compare, n, limit)
<1>1. CASE compare = ">"
  <2>1. Counted(compare, n, limit) = (n > limit)
    BY <1>1 DEF Counted
  <2>2. ~(n > limit)
    OBVIOUS
  <2> QED BY <2>1, <2>2
<1>2. CASE compare = "=" /\ limit > 0
  <2>1. Counted(compare, n, limit) = (n = limit)
    BY <1>2 DEF Counted
  <2>2. ~(n = limit)
    BY <1>2
  <2> QED BY <2>1, <2>2
<1> QED BY <1>1, <1>2

\* A node that asks for bytes does not hold of nothing.
LEMMA StepFails ==
  ASSUME NEW expr, IsExpr(expr), NEW fixed, \A s \in subsignatures(expr) : fixed[s] \in Nat,
         NEW counts, Counters(expr, counts), NEW need, NEW value, NEW i \in DOMAIN expr,
         \A j \in DOMAIN expr : need[j] \in Nat,
         \A j \in DOMAIN expr : j < i => (value[j] => need[j] = 0),
         NeedStep(expr, fixed, need, i) # 0
  PROVE  ~HoldStep(expr, counts, value, i)
<1> DEFINE node == expr[i]
           total == SumOver(node.subs, counts)
<1>1. /\ node.subs \in Seq(Nat) /\ node.args \in Seq(Nat)
      /\ node.op \in {"seen", "count", "total", "all", "any"} /\ node.compare \in {">", "<", "="}
      /\ node.limit \in Nat
      /\ node.op \in OfSubs => node.subs[1] \in Range(node.subs)
      /\ node.op \notin OfSubs => node.args[1] \in Range(node.args)
      /\ Range(node.subs) \subseteq subsignatures(expr)
      /\ \A j \in Range(node.args) : j \in DOMAIN expr /\ j < i
  <2> HIDE DEF node
  <2>1. node = expr[i]
    BY DEF node
  <2> QED BY <2>1, NodeFacts
<1>2. \A s \in Range(node.subs) : counts[s] = 0
  BY <1>1 DEF Counters
<1>3. total = 0
  BY <1>1, <1>2, SumZero
<1>4. (node.op \in OfSubs) <=> (node.op \in {"seen", "count", "total"})
  BY DEF OfSubs
<1>5. ASSUME node.compare = ">" \/ (node.compare = "=" /\ node.limit > 0)
      PROVE  ~Counted(node.compare, total, node.limit)
  <2> HIDE DEF total, node
  <2> QED BY <1>1, <1>3, <1>5, CountedZero
<1>6. \A j \in Range(node.args) : value[j] => need[j] = 0
  BY <1>1
<1>7. \A j \in Range(node.args) : need[j] \in Nat
  BY <1>1
<1> HIDE DEF node, total
<1>9. CASE node.op = "seen"
  <2>1. counts[node.subs[1]] = 0
    BY <1>1, <1>2, <1>4, <1>9
  <2>2. ~(counts[node.subs[1]] > 0)
    BY <2>1
  <2> QED BY <1>9, <2>2 DEF HoldStep, NodeHolds, node
<1>10. CASE node.op = "count"
  <2>1. node.compare = ">" \/ (node.compare = "=" /\ node.limit > 0)
    BY <1>10 DEF NeedStep, NodeNeeds, node
  <2> QED BY <1>5, <1>10, <2>1 DEF HoldStep, NodeHolds, node, total
<1>11. CASE node.op = "total"
  <2>1. node.compare = ">"
    BY <1>11 DEF NeedStep, NodeNeeds, node
  <2> QED BY <1>5, <1>11, <2>1 DEF HoldStep, NodeHolds, node, total
<1>12. CASE node.op = "all"
  <2>1. SumOver(node.args, need) # 0
    BY <1>12 DEF NeedStep, NodeNeeds, node
  <2>2. ~(\A j \in Range(node.args) : value[j])
    <3> SUFFICES ASSUME \A j \in Range(node.args) : value[j] PROVE FALSE
      OBVIOUS
    <3>1. \A j \in Range(node.args) : need[j] = 0
      BY <1>6
    <3>2. SumOver(node.args, need) = 0
      BY <1>1, <3>1, SumZero
    <3> QED BY <2>1, <3>2
  <2> QED BY <1>12, <2>2 DEF HoldStep, NodeHolds, node
<1>13. CASE node.op = "any"
  <2>1. Min({need[j] : j \in Range(node.args)}) # 0
    BY <1>13 DEF NeedStep, NodeNeeds, node
  <2>2. ~(\E j \in Range(node.args) : value[j])
    <3> SUFFICES ASSUME NEW j \in Range(node.args), value[j] PROVE FALSE
      OBVIOUS
    <3> DEFINE m == Min({need[k] : k \in Range(node.args)})
    <3>1. need[j] = 0
      BY <1>6
    <3>2. m \in Nat /\ m <= need[j]
      BY <1>7, LeastOf
    <3>3. m # 0
      BY <2>1
    <3> HIDE DEF m
    <3> QED BY <3>1, <3>2, <3>3
  <2> QED BY <1>13, <2>2 DEF HoldStep, NodeHolds, node
<1> QED BY <1>1, <1>9, <1>10, <1>11, <1>12, <1>13

\* An expression that asks for bytes does not hold of a sample without a piece.
THEOREM NothingHolds ==
  ASSUME NEW expr, IsExpr(expr), NEW fixed, \A s \in subsignatures(expr) : fixed[s] \in Nat,
         ~(required_bytes(expr, fixed) < Floor(expr)), NEW counts, Counters(expr, counts)
  PROVE  ~holds(expr, counts)
<1> DEFINE n == Len(expr)
           need == Need(expr, fixed)
           value == Value(expr, counts)
           S == DOMAIN expr
           Good == {i \in 0..n : \A j \in S : j <= i => (value[j] => need[j] = 0)}
<1>1. n \in Nat /\ n >= 1 /\ S = 1..n
  <2>1. expr \in Seq(NodeType) /\ expr # <<>>
    BY DEF IsExpr
  <2> QED BY <2>1
<1>2. \A i \in S : need[i] \in Nat /\ need[i] = NeedStep(expr, fixed, need, i)
  BY NeedSolved
<1>3. \A i \in S : value[i] = HoldStep(expr, counts, value, i)
  BY HoldSolved
<1> HIDE DEF need, value, n
<1>4. 0 \in Good
  BY <1>1
<1>5. ASSUME NEW i \in 1..n, i - 1 \in Good PROVE i \in Good
  <2>1. i \in S /\ i \in 0..n
    BY <1>1
  <2>2. \A j \in S : j < i => (value[j] => need[j] = 0)
    BY <1>1, <1>5
  <2>3. NeedStep(expr, fixed, need, i) # 0 => ~HoldStep(expr, counts, value, i)
    BY <1>2, <2>1, <2>2, StepFails
  <2>4. value[i] => need[i] = 0
    BY <1>2, <1>3, <2>1, <2>3
  <2>5. \A j \in S : j <= i => j < i \/ j = i
    BY <1>1
  <2> QED BY <2>1, <2>2, <2>4, <2>5
<1> HIDE DEF Good
<1>6. \A i \in 0..n : i \in Good
  BY <1>1, <1>4, <1>5, UpTo
<1>7. value[n] => need[n] = 0
  <2>1. n \in Good /\ n \in S
    BY <1>1, <1>6
  <2> QED BY <1>1, <2>1 DEF Good
<1>8. need[n] # 0
  <2>1. Floor(expr) \in Nat \ {0}
    BY PatternAssumption DEF Floor
  <2>2. required_bytes(expr, fixed) = need[n]
    BY NeedIs DEF need, n
  <2>3. need[n] \in Nat
    BY <1>1, <1>2
  <2> QED BY <2>1, <2>2, <2>3
<1>9. ~value[n]
  BY <1>7, <1>8
<1> QED BY <1>9, HoldIs DEF value, n

-----------------------------------------------------------------------------
(* Sequences one after the other.                                          *)

\* FlattenSeq puts the sequences one after the other.
Flattens(seqs, f) ==
  f = [i \in 1..Len(seqs) |-> IF i = 1 THEN seqs[i] ELSE f[i - 1] \o seqs[i]]
Flattening(seqs) == CHOOSE f : Flattens(seqs, f)

\* It is the fold of the sequences.
LEMMA FlattenIs ==
  ASSUME NEW seqs
  PROVE  FlattenSeq(seqs) = IF Len(seqs) = 0 THEN seqs ELSE Flattening(seqs)[Len(seqs)]
BY DEF FlattenSeq, Flattening, Flattens

\* There is such a flattening.
LEMMA FlattenExists ==
  ASSUME NEW S, NEW seqs \in Seq(Seq(S))
  PROVE  /\ DOMAIN Flattening(seqs) = 1..Len(seqs)
         /\ \A i \in 1..Len(seqs) :
              Flattening(seqs)[i] = IF i = 1 THEN seqs[i] ELSE Flattening(seqs)[i - 1] \o seqs[i]
<1> DEFINE n == Len(seqs)
           Ok(i, f) == \A j \in 1..i : f[j] = IF j = 1 THEN seqs[j] ELSE f[j - 1] \o seqs[j]
           Good == {i \in 0..n : \E f : Ok(i, f)}
<1>1. n \in Nat
  OBVIOUS
<1> HIDE DEF n
<1>2. 0 \in Good
  <2>1. \E f : Ok(0, f)
    OBVIOUS
  <2> QED BY <1>1, <2>1
<1>3. ASSUME NEW i \in 1..n, i - 1 \in Good PROVE i \in Good
  <2>1. PICK f : Ok(i - 1, f)
    BY <1>3
  <2> DEFINE g == [j \in 1..i |-> IF j < i THEN f[j] ELSE IF i = 1 THEN seqs[i] ELSE f[i - 1] \o seqs[i]]
  <2>2. i \in Nat /\ i \in 1..i /\ (i # 1 => i - 1 \in 1..i /\ i - 1 < i)
    OBVIOUS
  <2>3. ASSUME NEW j \in 1..i PROVE g[j] = IF j = 1 THEN seqs[j] ELSE g[j - 1] \o seqs[j]
    <3>1. CASE j < i
      <4>1. g[j] = f[j] /\ j \in 1..(i - 1)
        BY <3>1
      <4>2. j # 1 => g[j - 1] = f[j - 1]
        BY <3>1
      <4> HIDE DEF g
      <4> QED BY <2>1, <4>1, <4>2
    <3>2. CASE j = i
      <4>1. g[i] = IF i = 1 THEN seqs[i] ELSE f[i - 1] \o seqs[i]
        BY <2>2
      <4>2. i # 1 => g[i - 1] = f[i - 1]
        BY <2>2
      <4> HIDE DEF g
      <4> QED BY <3>2, <4>1, <4>2
    <3> QED BY <3>1, <3>2
  <2> HIDE DEF g
  <2>4. Ok(i, g)
    BY <2>3
  <2> HIDE DEF Ok
  <2> QED BY <2>4, <1>1
<1> HIDE DEF Good
<1>4. n \in Good
  <2>1. \A i \in 0..n : i \in Good
    BY <1>1, <1>2, <1>3, UpTo
  <2> QED BY <1>1, <2>1
<1>5. PICK f : Ok(n, f)
  BY <1>4 DEF Good
<1> DEFINE g == [j \in 1..n |-> f[j]]
<1>6. \A j \in 1..n : g[j] = IF j = 1 THEN seqs[j] ELSE g[j - 1] \o seqs[j]
  <2> SUFFICES ASSUME NEW j \in 1..n PROVE g[j] = IF j = 1 THEN seqs[j] ELSE g[j - 1] \o seqs[j]
    OBVIOUS
  <2>1. g[j] = f[j] /\ (j # 1 => g[j - 1] = f[j - 1])
    BY <1>1
  <2> HIDE DEF g
  <2> QED BY <1>5, <2>1
<1>7. g = [j \in 1..n |-> g[j]]
  OBVIOUS
<1> HIDE DEF g
<1>8. g = [j \in 1..n |-> IF j = 1 THEN seqs[j] ELSE g[j - 1] \o seqs[j]]
  BY <1>6, <1>7
<1>9. Flattens(seqs, g)
  BY <1>8 DEF Flattens, n
<1>10. Flattens(seqs, Flattening(seqs))
  BY <1>9 DEF Flattening
<1> QED BY <1>10 DEF Flattens

\* What is put together is of the elements that are put together.
LEMMA FlattenTyped ==
  ASSUME NEW S, NEW seqs \in Seq(Seq(S))
  PROVE  FlattenSeq(seqs) \in Seq(S)
<1> DEFINE n == Len(seqs)
           f == Flattening(seqs)
           Good == {i \in 0..n : i # 0 => f[i] \in Seq(S)}
<1>1. n \in Nat /\ \A i \in 1..n : seqs[i] \in Seq(S)
  OBVIOUS
<1>2. \A i \in 1..n : f[i] = IF i = 1 THEN seqs[i] ELSE f[i - 1] \o seqs[i]
  BY FlattenExists
<1> HIDE DEF n, f
<1>3. 0 \in Good
  BY <1>1
<1>4. ASSUME NEW i \in 1..n, i - 1 \in Good PROVE i \in Good
  <2>0. i \in 0..n
    BY <1>1
  <2>1. CASE i = 1
    BY <1>1, <1>2, <2>0, <2>1
  <2>2. CASE i # 1
    <3>0. i - 1 # 0
      BY <2>2
    <3>1. f[i - 1] \in Seq(S)
      BY <1>4, <3>0
    <3>2. seqs[i] \in Seq(S) /\ f[i] = f[i - 1] \o seqs[i]
      BY <1>1, <1>2, <2>2
    <3>3. f[i - 1] \o seqs[i] \in Seq(S)
      BY <3>1, <3>2
    <3>4. f[i] \in Seq(S)
      BY <3>2, <3>3
    <3> QED BY <2>0, <3>4
  <2> QED BY <2>1, <2>2
<1> HIDE DEF Good
<1>5. \A i \in 0..n : i \in Good
  BY <1>1, <1>3, <1>4, UpTo
<1>6. CASE n = 0
  <2>1. seqs = <<>>
    BY <1>6 DEF n
  <2>2. FlattenSeq(seqs) = seqs
    BY <1>6, FlattenIs DEF n
  <2>3. <<>> \in Seq(S)
    OBVIOUS
  <2>4. FlattenSeq(seqs) = <<>>
    BY <2>1, <2>2
  <2> QED BY <2>3, <2>4
<1>7. CASE n # 0
  <2>1. n \in Good
    BY <1>1, <1>5
  <2>2. f[n] \in Seq(S)
    BY <1>7, <2>1 DEF Good
  <2>3. FlattenSeq(seqs) = f[n]
    BY <1>7, FlattenIs DEF n, f
  <2> QED BY <2>2, <2>3
<1> QED BY <1>6, <1>7

-----------------------------------------------------------------------------
(* A logical signature's pieces are stored among the signatures.           *)

SigSet == Sigs(TRUE) \cup Sigs(FALSE)
VariantType == [sig : Sigs(TRUE), slot : Nat]
Extends(old, new) == \A i \in DOMAIN old : i \in DOMAIN new /\ new[i] = old[i]
ArePieces(pieces, signatures) ==
  pieces \in Seq(Nat) /\ \A i \in DOMAIN pieces : /\ pieces[i] \in DOMAIN signatures
                                                 /\ signatures[pieces[i]].piece = TRUE
Shares(old) ==
  {acc \in [signatures : Seq(SigSet), pieces : Seq(Nat), slot_of : Seq(Nat)] :
     Extends(old, acc.signatures) /\ ArePieces(acc.pieces, acc.signatures)}

\* One more at the end of a sequence.
LEMMA OneMore ==
  ASSUME NEW S, NEW s \in Seq(S), NEW x \in S
  PROVE  /\ Append(s, x) \in Seq(S) /\ Len(s) \in Nat /\ DOMAIN s = 1..Len(s)
         /\ DOMAIN Append(s, x) = 1..(Len(s) + 1)
         /\ Append(s, x)[Len(s) + 1] = x /\ \A i \in DOMAIN s : Append(s, x)[i] = s[i]
OBVIOUS

\* One more piece, stored or found stored.
LEMMA ShareTyped ==
  ASSUME NEW old, NEW acc \in Shares(old), NEW v \in VariantType
  PROVE  Share(acc, v) \in Shares(old)
<1> DEFINE sigs == acc.signatures
           n == Len(sigs)
           next == n + 1
           same == {i \in DOMAIN sigs : sigs[i] = v.sig}
           id == Min(same \cup {next})
           new == IF id = next THEN Append(sigs, v.sig) ELSE sigs
           pieces == Append(acc.pieces, id)
           slots == Append(acc.slot_of, v.slot)
<1>1. /\ sigs \in Seq(SigSet) /\ acc.pieces \in Seq(Nat) /\ acc.slot_of \in Seq(Nat)
      /\ Extends(old, sigs) /\ ArePieces(acc.pieces, sigs)
  BY DEF Shares
<1>2. v.sig \in Sigs(TRUE) /\ v.slot \in Nat /\ v.sig.piece = TRUE
  <2>1. v.sig \in Sigs(TRUE) /\ v.slot \in Nat
    BY DEF VariantType
  <2> QED BY <2>1 DEF Sigs
<1>3. v.sig \in SigSet
  BY <1>2 DEF SigSet
<1>4. n \in Nat /\ DOMAIN sigs = 1..n /\ next \in Nat
  BY <1>1
<1>5. id \in same \cup {next} /\ id \in Nat
  <2> DEFINE t == same \cup {next}
  <2>1. t \in SUBSET Nat /\ t # {}
    BY <1>4
  <2> HIDE DEF t
  <2>2. Min(t) \in t
    BY <2>1, LeastNumber
  <2> QED BY <2>1, <2>2 DEF t
<1>6. /\ new \in Seq(SigSet) /\ Extends(sigs, new) /\ id \in DOMAIN new /\ new[id] = v.sig
  <2>1. CASE id = next
    <3>1. new = Append(sigs, v.sig)
      BY <2>1
    <3>2. /\ new \in Seq(SigSet) /\ DOMAIN new = 1..next /\ new[next] = v.sig
          /\ \A i \in DOMAIN sigs : new[i] = sigs[i]
      BY <1>1, <1>3, <3>1, OneMore
    <3> HIDE DEF new, sigs, id
    <3>3. next \in 1..next /\ \A i \in 1..n : i \in 1..next
      BY <1>4
    <3> QED BY <1>4, <2>1, <3>2, <3>3 DEF Extends
  <2>2. CASE id # next
    <3>1. new = sigs /\ id \in same
      BY <1>5, <2>2
    <3> HIDE DEF new, id
    <3> QED BY <1>1, <3>1 DEF Extends
  <2> QED BY <2>1, <2>2
<1>7. Share(acc, v) = [signatures |-> new, pieces |-> pieces, slot_of |-> slots]
  BY DEF Share
<1> HIDE DEF new, id, sigs
<1>8. Extends(old, new)
  BY <1>1, <1>6 DEF Extends
<1>9. /\ pieces \in Seq(Nat) /\ slots \in Seq(Nat)
      /\ \A i \in DOMAIN pieces : pieces[i] = id \/ (i \in DOMAIN acc.pieces /\ pieces[i] = acc.pieces[i])
  BY <1>1, <1>2, <1>5
<1> HIDE DEF pieces, slots
<1>10. ArePieces(pieces, new)
  <2> SUFFICES ASSUME NEW i \in DOMAIN pieces
               PROVE  pieces[i] \in DOMAIN new /\ new[pieces[i]].piece = TRUE
    BY <1>9 DEF ArePieces
  <2>1. CASE pieces[i] = id
    BY <1>2, <1>6, <2>1
  <2>2. CASE i \in DOMAIN acc.pieces /\ pieces[i] = acc.pieces[i]
    BY <1>1, <1>6, <2>2 DEF ArePieces, Extends
  <2> QED BY <1>9, <2>1, <2>2
<1> QED BY <1>6, <1>7, <1>8, <1>9, <1>10 DEF Shares

\* All of them.
LEMMA SharedTyped ==
  ASSUME NEW old \in Seq(SigSet), NEW variants \in Seq(VariantType)
  PROVE  FoldLeft(Share, [signatures |-> old, pieces |-> <<>>, slot_of |-> <<>>], variants) \in Shares(old)
<1> DEFINE none == [signatures |-> old, pieces |-> <<>>, slot_of |-> <<>>]
           n == Len(variants)
           V == Shares(old)
<1>1. n \in Nat /\ DOMAIN variants = 1..n /\ \A i \in 1..n : variants[i] \in VariantType
  OBVIOUS
<1>2. none \in V
  <2>1. Extends(old, old)
    BY DEF Extends
  <2>2. <<>> \in Seq(Nat) /\ DOMAIN <<>> = {}
    OBVIOUS
  <2>3. ArePieces(<<>>, old)
    BY <2>2 DEF ArePieces
  <2> QED BY <2>1, <2>2, <2>3 DEF Shares
<1>3. \A i \in 1..n : \A x \in V : Share(x, variants[i]) \in V
  BY <1>1, ShareTyped
<1> HIDE DEF none, n, V
<1>4. FoldLeft(Share, none, variants) \in V
  BY <1>1, <1>2, <1>3, SharedStays
<1> QED BY <1>4 DEF none, V

-----------------------------------------------------------------------------
(* The signatures of a database.                                           *)

LogicalType(lines) ==
  [file_size : {lines[i].file_size : i \in DOMAIN lines}, expression : {lines[i].expr : i \in DOMAIN lines},
   slots : {DOMAIN lines[i].pieces : i \in DOMAIN lines}, pieces : Seq(Nat), slot_of : Seq(Nat)]
LogicalOK(l, signatures) ==
  /\ ArePieces(l.pieces, signatures) /\ IsExpr(l.expression) /\ l.slots = subsignatures(l.expression)
  /\ \A counts : Counters(l.expression, counts) => ~holds(l.expression, counts)
Patterns(lines) ==
  {p \in [signatures : Seq(SigSet), logicals : Seq(LogicalType(lines))] :
     \A l \in DOMAIN p.logicals : LogicalOK(p.logicals[l], p.signatures)}

\* The signatures of a logical signature's pieces.
Built(line) == [s \in DOMAIN line.pieces |-> parse_piece(PieceLine(line, s))]
BuiltAll(line, built) ==
  /\ DOMAIN built = DOMAIN line.pieces /\ DOMAIN built \subseteq Nat
  /\ built = [s \in DOMAIN built |-> built[s]] /\ DOMAIN built = 1..Len(line.pieces)
  /\ Len(line.pieces) \in Nat
  /\ \A s \in DOMAIN built : built[s] \in Seq(Sigs(TRUE)) /\ built[s] # <<>>

\* Each is understood.
LEMMA BuiltPieces ==
  ASSUME NEW line, IsLogical(line), NEW built, built = Built(line),
         ~(\E s \in DOMAIN built : built[s] = None)
  PROVE  BuiltAll(line, built)
<1>1. line.pieces \in Seq(PieceType) /\ line.target \in Targets
  BY DEF IsLogical
<1>2. DOMAIN line.pieces = 1..Len(line.pieces) /\ Len(line.pieces) \in Nat
  BY <1>1
<1>3. DOMAIN built = DOMAIN line.pieces /\ \A s \in DOMAIN built : built[s] = parse_piece(PieceLine(line, s))
  BY DEF Built
<1>4. built = [s \in DOMAIN built |-> built[s]]
  BY DEF Built
<1>5. ASSUME NEW s \in DOMAIN built PROVE built[s] \in Seq(Sigs(TRUE)) /\ built[s] # <<>>
  <2> DEFINE piece == PieceLine(line, s)
             q == built[s]
             p == line.pieces[s]
  <2>1. p \in PieceType
    BY <1>1, <1>3
  <2> HIDE DEF p
  <2>2. p.tokens \in Seq(PartType) /\ p.offset \in OffsetType
    BY <2>1 DEF PieceType
  <2>3. piece.tokens = p.tokens /\ piece.offset = p.offset /\ piece.target = line.target
    BY DEF PieceLine, p
  <2>4. q = parse_piece(piece) /\ q # None
    BY <1>3
  <2> HIDE DEF piece, q
  <2>5. piece.tokens \in Seq(PartType) /\ piece.target \in Targets /\ piece.offset \in OffsetType
    BY <1>1, <2>2, <2>3
  <2>6. q \in Seq(Sigs(TRUE)) /\ q # <<>>
    BY <2>4, <2>5, PieceTyped
  <2> QED BY <2>6 DEF q
<1>6. DOMAIN built \subseteq Nat
  BY <1>2, <1>3
<1> QED BY <1>2, <1>3, <1>4, <1>5, <1>6 DEF BuiltAll

\* What is stored of them.
LEMMA VariantsTyped ==
  ASSUME NEW line, NEW built, BuiltAll(line, built)
  PROVE  Variants(built) \in Seq(VariantType)
<1> DEFINE one(s) == [v \in DOMAIN built[s] |-> [sig |-> built[s][v], slot |-> s]]
           all == [s \in DOMAIN built |-> one(s)]
           n == Len(line.pieces)
           S == Sigs(TRUE)
<1>1. n \in Nat /\ DOMAIN built = 1..n /\ \A s \in DOMAIN built : s \in Nat /\ built[s] \in Seq(S)
  BY DEF BuiltAll
<1>2. ASSUME NEW s \in DOMAIN built PROVE one(s) \in Seq(VariantType)
  <2> DEFINE q == built[s]
             m == Len(q)
  <2>1. q \in Seq(S) /\ s \in Nat
    BY <1>1
  <2> HIDE DEF q, S
  <2>2. m \in Nat /\ DOMAIN q = 1..m /\ \A v \in 1..m : q[v] \in S
    BY <2>1
  <2> HIDE DEF m
  <2>3. \A v \in 1..m : [sig |-> q[v], slot |-> s] \in VariantType
    BY <2>1, <2>2 DEF VariantType, S
  <2>4. one(s) = [v \in 1..m |-> [sig |-> q[v], slot |-> s]]
    BY <2>2 DEF q
  <2>5. one(s) \in [1..m -> VariantType]
    BY <2>3, <2>4
  <2> HIDE DEF one
  <2> QED BY <2>2, <2>5
<1>3. Variants(built) = FlattenSeq(all)
  BY DEF Variants
<1> HIDE DEF one
<1>4. all \in [1..n -> Seq(VariantType)]
  BY <1>1, <1>2
<1> HIDE DEF n, all
<1>5. all \in Seq(Seq(VariantType))
  BY <1>1, <1>4
<1> QED BY <1>3, <1>5, FlattenTyped

\* What is fixed by them.
LEMMA FixedTyped ==
  ASSUME NEW line, NEW built, BuiltAll(line, built)
  PROVE  \A s \in DOMAIN line.pieces : FixedBytes(built)[s] \in Nat
<1> SUFFICES ASSUME NEW s \in DOMAIN line.pieces PROVE FixedBytes(built)[s] \in Nat
  OBVIOUS
<1> DEFINE q == built[s]
           S == Sigs(TRUE)
           g == q[1]
<1>1. s \in DOMAIN built /\ q \in Seq(S) /\ q # <<>>
  BY DEF BuiltAll
<1>2. FixedBytes(built)[s] = fixed_bytes_narrow(g.parts)
  BY <1>1 DEF FixedBytes
<1> HIDE DEF q
<1>3. g \in S
  <2> HIDE DEF S
  <2> QED BY <1>1
<1> HIDE DEF g
<1>4. g \in SigType
  BY <1>3 DEF Sigs
<1>5. g.parts \in Seq(PartType)
  BY <1>4 DEF SigType
<1> QED BY <1>2, <1>5, NarrowTyped

\* One more logical signature.
LEMMA LogicalTyped ==
  ASSUME NEW lines, lines \in Seq(Range(lines)), NEW i \in DOMAIN lines, IsLogical(lines[i]),
         NEW set \in Patterns(lines)
  PROVE  parse_logical(set, lines[i]) \in Patterns(lines)
<1> DEFINE line == lines[i]
           built == Built(line)
           old == set.signatures
           shared == FoldLeft(Share, [signatures |-> old, pieces |-> <<>>, slot_of |-> <<>>], Variants(built))
           fixed == FixedBytes(built)
<1>1. /\ old \in Seq(SigSet) /\ set.logicals \in Seq(LogicalType(lines))
      /\ \A l \in DOMAIN set.logicals : LogicalOK(set.logicals[l], old)
  BY DEF Patterns
<1>2. SUFFICES ASSUME parse_logical(set, line) # set PROVE parse_logical(set, line) \in Patterns(lines)
  OBVIOUS
<1>3. subsignatures(line.expr) = DOMAIN line.pieces /\ parse_logical(set, line) = Kept(set, line, built)
  BY <1>2 DEF parse_logical, Built
<1> HIDE DEF built
<1>4. /\ ~(\E s \in DOMAIN built : built[s] = None)
      /\ ~(required_bytes(line.expr, fixed) < Floor(line.expr))
      /\ parse_logical(set, line) = WithLogical(set, line, shared)
  BY <1>2, <1>3 DEF Kept
<1>5. IsLogical(line) /\ IsExpr(line.expr)
  BY DEF IsLogical
<1>6. BuiltAll(line, built)
  <2> HIDE DEF line
  <2> QED BY <1>4, <1>5, BuiltPieces DEF built
<1>7. \A s \in subsignatures(line.expr) : fixed[s] \in Nat
  <2>1. \A s \in DOMAIN line.pieces : FixedBytes(built)[s] \in Nat
    BY <1>6, FixedTyped
  <2> QED BY <1>3, <2>1
<1>8. shared \in Shares(old)
  <2>1. Variants(built) \in Seq(VariantType)
    BY <1>6, VariantsTyped
  <2> QED BY <1>1, <2>1, SharedTyped
<1> DEFINE expr == line.expr
           l == [file_size |-> line.file_size, expression |-> line.expr, slots |-> DOMAIN line.pieces,
                 pieces |-> shared.pieces, slot_of |-> shared.slot_of]
           logicals == Append(set.logicals, l)
           new == shared.signatures
<1>9. parse_logical(set, line) = [signatures |-> new, logicals |-> logicals]
  BY <1>4 DEF WithLogical
<1> HIDE DEF shared, fixed
<1>10. /\ new \in Seq(SigSet) /\ Extends(old, new) /\ ArePieces(shared.pieces, new)
       /\ shared.pieces \in Seq(Nat) /\ shared.slot_of \in Seq(Nat)
  BY <1>8 DEF Shares
<1> HIDE DEF new, old
<1>11. \A counts : Counters(expr, counts) => ~holds(expr, counts)
  BY <1>4, <1>5, <1>7, NothingHolds
<1>12. l \in LogicalType(lines) /\ LogicalOK(l, new)
  <2>1. l.pieces = shared.pieces /\ l.expression = expr /\ l.slots = DOMAIN line.pieces
    OBVIOUS
  <2>2. l \in LogicalType(lines)
    BY <1>10 DEF LogicalType
  <2> HIDE DEF l, line
  <2>3. LogicalOK(l, new)
    BY <1>3, <1>5, <1>10, <1>11, <2>1 DEF LogicalOK
  <2> QED BY <2>2, <2>3
<1> HIDE DEF l
<1>13. /\ logicals \in Seq(LogicalType(lines))
       /\ \A k \in DOMAIN logicals : logicals[k] = l \/ (k \in DOMAIN set.logicals /\ logicals[k] = set.logicals[k])
  BY <1>1, <1>12
<1> HIDE DEF logicals
<1>14. ASSUME NEW k \in DOMAIN logicals PROVE LogicalOK(logicals[k], new)
  <2>1. CASE logicals[k] = l
    BY <1>12, <2>1
  <2>2. CASE k \in DOMAIN set.logicals /\ logicals[k] = set.logicals[k]
    <3> DEFINE x == logicals[k]
    <3>1. LogicalOK(x, old)
      BY <1>1, <2>2
    <3> HIDE DEF x
    <3>2. ArePieces(x.pieces, old)
      BY <3>1 DEF LogicalOK
    <3>3. ArePieces(x.pieces, new)
      BY <1>10, <3>2 DEF ArePieces, Extends
    <3>4. LogicalOK(x, new)
      BY <3>1, <3>3 DEF LogicalOK
    <3> QED BY <3>4 DEF x
  <2> QED BY <1>13, <2>1, <2>2
<1> QED BY <1>9, <1>10, <1>13, <1>14 DEF Patterns

IngestSets == [signatures : Seq(SigSet), logicals : {<<>>}]

\* One more body signature.
LEMMA IngestTyped ==
  ASSUME NEW set \in IngestSets, NEW line \in BodyLine
  PROVE  ingest(set, line) \in IngestSets
<1> DEFINE parts == parse_hex(line.tokens)
           sig == parse_line(line)
<1>1. line.tokens \in Seq(PartType) /\ line.offset \in OffsetType /\ line.target \in Targets
  BY DEF BodyLine
<1>2. parts # None => parts \in Seq(PartType)
  BY <1>1, HexTyped
<1>3. sig = build_signature(line, parts, MinFixed)
  BY DEF parse_line
<1>4. ingest(set, line) = Stored(set, sig)
  BY DEF ingest
<1> HIDE DEF parts, sig
<1>5. CASE sig.kept
  <2>1. sig \in Sigs(FALSE)
    BY <1>1, <1>2, <1>3, <1>5, BuiltTyped
  <2>2. sig \in SigSet
    BY <2>1 DEF SigSet
  <2>3. Append(set.signatures, sig) \in Seq(SigSet)
    BY <2>2 DEF IngestSets
  <2>4. ingest(set, line) = [set EXCEPT !.signatures = Append(set.signatures, sig)]
    BY <1>4, <1>5 DEF Stored
  <2> QED BY <2>3, <2>4 DEF IngestSets
<1>6. CASE ~sig.kept
  <2>1. ingest(set, line) = set
    BY <1>4, <1>6 DEF Stored
  <2> QED BY <2>1
<1> QED BY <1>5, <1>6

\* All of a database's.
LEMMA PatternsTyped ==
  ASSUME NEW d, IsDatabase(d)
  PROVE  PatternSet(d) \in Patterns(d.logicals)
<1> DEFINE none == [signatures |-> <<>>, logicals |-> <<>>]
           bodies == FoldLeft(ingest, none, d.bodies)
           lines == d.logicals
           m == Len(d.bodies)
           n == Len(lines)
           V == Patterns(lines)
<1>1. /\ d.bodies \in Seq(BodyLine) /\ lines \in Seq(Range(lines))
      /\ \A i \in DOMAIN lines : IsLogical(lines[i])
  BY DEF IsDatabase
<1>2. /\ m \in Nat /\ DOMAIN d.bodies = 1..m /\ \A i \in 1..m : d.bodies[i] \in BodyLine
      /\ n \in Nat /\ DOMAIN lines = 1..n
  BY <1>1
<1>3. none \in IngestSets
  BY DEF IngestSets
<1>4. \A i \in 1..m : \A x \in IngestSets : ingest(x, d.bodies[i]) \in IngestSets
  BY <1>2, IngestTyped
<1> HIDE DEF none, m, n
<1>5. bodies \in IngestSets
  BY <1>2, <1>3, <1>4, IngestStays
<1>6. PatternSet(d) = FoldLeft(parse_logical, bodies, lines)
  BY DEF PatternSet, none
<1> HIDE DEF bodies, lines
<1>7. bodies \in V
  <2>1. <<>> \in Seq(LogicalType(lines)) /\ DOMAIN <<>> = {}
    OBVIOUS
  <2>2. bodies.logicals = <<>> /\ bodies \in [signatures : Seq(SigSet), logicals : Seq(LogicalType(lines))]
    BY <1>5, <2>1 DEF IngestSets
  <2> QED BY <2>1, <2>2 DEF Patterns
<1>8. \A i \in 1..n : \A x \in V : parse_logical(x, lines[i]) \in V
  BY <1>1, <1>2, LogicalTyped
<1> HIDE DEF V
<1>9. FoldLeft(parse_logical, bodies, lines) \in V
  BY <1>2, <1>7, <1>8, LogicalStays
<1> QED BY <1>6, <1>9 DEF V, lines

-----------------------------------------------------------------------------
(* What holds of a search.                                                 *)

\* The index: its signatures are signatures, and its logical signatures' pieces
\* are among them.
IndexOK(signatures, logicals) ==
  /\ signatures \in Seq(SigSet) /\ Len(logicals) \in Nat /\ DOMAIN logicals = 1..Len(logicals)
  /\ \A l \in DOMAIN logicals : LogicalOK(logicals[l], signatures)

\* The thread's scratch: what is not touched is zero, and nothing is marked.
ScratchOK(s) ==
  /\ s = [counts |-> s.counts, touched |-> s.touched, marked |-> s.marked, candidates |-> {}]
  /\ Len(s.counts) \in Nat /\ s.counts \in [1..Len(s.counts) -> Nat]
  /\ Len(s.marked) \in Nat /\ s.marked = [l \in 1..Len(s.marked) |-> FALSE]
  /\ \A i \in 1..Len(s.counts) : i \notin s.touched => s.counts[i] = 0

\* A place's hit, and the places of a signature that were looked at.
HitOf(i, at) == [index |-> i, start |-> at, end |-> at + Signatures[i].anchor.len]
Done(i, file, hits) == {at \in Places(Signatures[i], file) : HitOf(i, at) \notin hits}

\* Of a signature whose first fit is as good as any, every place is found.
SigDone(i, file, hits, counts) ==
  FirstFitSuffices(Signatures[i]) =>
    /\ Signatures[i].piece /\ ~Truncated(file) => counts[i] = Cardinality(Done(i, file, hits))
    /\ ~Signatures[i].piece => \A at \in Places(Signatures[i], file) : HitOf(i, at) \in hits

\* The search: each hit is an anchor's, and what is counted is what was found.
Searching(s, c) ==
  /\ s = [phase |-> "hits", file |-> s.file, hits |-> s.hits, steps |-> s.steps, found |-> None]
  /\ s.file.text \in Seq(Bytes) /\ s.steps \in Nat
  /\ \A h \in s.hits : /\ h.index \in DOMAIN Signatures /\ h.start \in 0..Len(s.file.text)
                       /\ h = HitOf(h.index, h.start)
  /\ Len(c.counts) = Len(Signatures) /\ Len(c.marked) = Len(Logicals)
  /\ \A i \in c.touched : i \in DOMAIN Signatures /\ c.counts[i] > 0 /\ Signatures[i].piece
  /\ Truncated(s.file) => c.touched = {}
  /\ s.steps <= MaxSteps => \A i \in DOMAIN Signatures : SigDone(i, s.file, s.hits, c.counts)
SearchInv ==
  /\ index \in Range(Loaded) /\ ScratchOK(scratch)
  /\ scan.phase \in {"off", "hits", "done"}
  /\ scan.phase = "hits" => Searching(scan, scratch)
  /\ ScanAgrees

\* Every index loaded is one.
LEMMA LoadedIndex ==
  ASSUME index \in Range(Loaded) PROVE IndexOK(Signatures, Logicals)
<1>1. PICK i \in DOMAIN Databases : index = Loaded[i]
  BY DEF Range, Loaded
<1> DEFINE d == Databases[i]
           p == PatternSet(d)
<1>2. index.patterns = p
  BY <1>1 DEF Loaded
<1>3. IsDatabase(d)
  BY IndexAssumption
<1>4. p \in Patterns(d.logicals)
  BY <1>3, PatternsTyped
<1> HIDE DEF p
<1>5. /\ p.signatures \in Seq(SigSet) /\ p.logicals \in Seq(LogicalType(d.logicals))
      /\ \A l \in DOMAIN p.logicals : LogicalOK(p.logicals[l], p.signatures)
  BY <1>4 DEF Patterns
<1>6. Len(p.logicals) \in Nat /\ DOMAIN p.logicals = 1..Len(p.logicals)
  BY <1>5
<1> QED BY <1>2, <1>5, <1>6 DEF IndexOK, Signatures, Logicals

\* Each of its signatures is one.
LEMMA SignatureFacts ==
  ASSUME IndexOK(Signatures, Logicals), NEW i \in DOMAIN Signatures
  PROVE  SigOK(Signatures[i]) /\ Signatures[i].piece \in BOOLEAN
<1> DEFINE s == Signatures[i]
           S == SigSet
<1>1. Signatures \in Seq(S)
  BY DEF IndexOK
<1>2. s \in S
  <2> HIDE DEF S
  <2> QED BY <1>1
<1> HIDE DEF s
<1>3. SigOK(s)
  BY <1>2 DEF SigSet, Sigs
<1> QED BY <1>3 DEF s, SigOK

\* Clearing the scratch leaves nothing in it.
LEMMA ClearEmpties ==
  ASSUME NEW s, ScratchOK(s), NEW t, t = clear(s)
  PROVE  /\ ScratchOK(t) /\ t.touched = {} /\ Len(t.counts) = Len(s.counts) /\ Len(t.marked) = Len(s.marked)
         /\ \A i \in 1..Len(t.counts) : t.counts[i] = 0
<1> DEFINE m == Len(s.counts)
           n == Len(s.marked)
           c == [i \in 1..m |-> 0]
           f == [l \in 1..n |-> FALSE]
<1>1. m \in Nat /\ n \in Nat /\ DOMAIN s.counts = 1..m /\ DOMAIN s.marked = 1..n
  BY DEF ScratchOK
<1>2. t.counts = [i \in 1..m |-> IF i \in s.touched THEN 0 ELSE s.counts[i]]
  BY <1>1 DEF clear
<1>3. \A i \in 1..m : (IF i \in s.touched THEN 0 ELSE s.counts[i]) = 0
  BY DEF ScratchOK
<1>4. t.counts = c
  BY <1>2, <1>3
<1>5. \A l \in 1..n : s.marked[l] = FALSE
  BY DEF ScratchOK
<1>6. t.marked = [l \in 1..n |-> s.marked[l] /\ l \notin s.candidates]
  BY <1>1 DEF clear
<1>7. t.marked = f
  BY <1>5, <1>6
<1>8. t.touched = {} /\ t = [counts |-> t.counts, touched |-> t.touched, marked |-> t.marked, candidates |-> {}]
  BY DEF clear
<1> HIDE DEF m, n
<1>9. Len(c) = m /\ Len(f) = n /\ c \in [1..m -> Nat] /\ \A i \in 1..m : c[i] = 0
  BY <1>1
<1> HIDE DEF c, f
<1>10. Len(t.counts) = m /\ Len(t.marked) = n
  BY <1>4, <1>7, <1>9
<1>11. ScratchOK(t)
  BY <1>1, <1>4, <1>7, <1>8, <1>9, <1>10 DEF ScratchOK, f
<1> QED BY <1>4, <1>8, <1>9, <1>10, <1>11 DEF m, n

\* A scratch that fits an index and has counted nothing.
Prepared(t, m, n) ==
  /\ ScratchOK(t) /\ t.touched = {} /\ Len(t.counts) = m /\ Len(t.marked) = n
  /\ \A i \in 1..m : t.counts[i] = 0

\* Preparing it makes it fit the index.
LEMMA PrepareFits ==
  ASSUME NEW s, ScratchOK(s), NEW m \in Nat, NEW n \in Nat, NEW t, t = prepare(s, m, n)
  PROVE  Prepared(t, m, n)
<1> DEFINE u == clear(s)
           c == [i \in 1..m |-> 0]
           f == [l \in 1..n |-> FALSE]
<1>1. u = clear(s)
  OBVIOUS
<1> HIDE DEF u
<1>2. /\ ScratchOK(u) /\ u.touched = {} /\ \A i \in 1..Len(u.counts) : u.counts[i] = 0
  BY <1>1, ClearEmpties
<1>3. u = [counts |-> u.counts, touched |-> {}, marked |-> u.marked, candidates |-> {}]
  BY <1>2 DEF ScratchOK
<1>4. t = [counts |-> IF Len(u.counts) = m THEN u.counts ELSE c, touched |-> {},
           marked |-> IF Len(u.marked) = n THEN u.marked ELSE f, candidates |-> {}]
  <2> DEFINE x == IF Len(u.counts) = m THEN u.counts ELSE c
             y == IF Len(u.marked) = n THEN u.marked ELSE f
  <2>1. t = [u EXCEPT !.counts = x, !.marked = y]
    BY <1>1 DEF prepare
  <2> DEFINE uc == u.counts
             um == u.marked
  <2>3. u = [counts |-> uc, touched |-> {}, marked |-> um, candidates |-> {}]
    BY <1>3
  <2> HIDE DEF x, y, c, f, uc, um
  <2>2. t = [counts |-> x, touched |-> {}, marked |-> y, candidates |-> {}]
    BY <2>1, <2>3
  <2> QED BY <2>2 DEF x, y
<1>5. Len(c) = m /\ Len(f) = n /\ c \in [1..m -> Nat] /\ \A i \in 1..m : c[i] = 0
  OBVIOUS
<1>6. Len(t.counts) = m /\ t.counts \in [1..m -> Nat] /\ \A i \in 1..m : t.counts[i] = 0
  <2>1. t.counts = IF Len(u.counts) = m THEN u.counts ELSE c
    BY <1>4
  <2> HIDE DEF c, f
  <2>2. CASE Len(u.counts) = m
    BY <1>2, <2>1, <2>2 DEF ScratchOK
  <2>3. CASE Len(u.counts) # m
    BY <1>5, <2>1, <2>3
  <2> QED BY <2>2, <2>3
<1>7. Len(t.marked) = n /\ t.marked = f
  <2>1. t.marked = IF Len(u.marked) = n THEN u.marked ELSE f
    BY <1>4
  <2>2. Len(u.marked) = n => u.marked = f
    BY <1>2 DEF ScratchOK
  <2> HIDE DEF c, f
  <2> QED BY <1>5, <2>1, <2>2
<1>8. t.touched = {} /\ t = [counts |-> t.counts, touched |-> t.touched, marked |-> t.marked, candidates |-> {}]
  BY <1>4
<1> QED BY <1>6, <1>7, <1>8 DEF ScratchOK, Prepared

\* The same index, the same search.
LEMMA SameSearch ==
  ASSUME index' = index
  PROVE  Searching(scan, scratch)' <=> Searching(scan', scratch')
<1>1. Signatures' = Signatures /\ Logicals' = Logicals
  BY DEF Signatures, Logicals
<1>2. ASSUME NEW i, NEW at PROVE HitOf(i, at)' = HitOf(i, at)
  BY <1>1 DEF HitOf
<1>3. ASSUME NEW i PROVE SigDone(i, scan.file, scan.hits, scratch.counts)'
                           <=> SigDone(i, scan'.file, scan'.hits, scratch'.counts)
  BY <1>1 DEF SigDone, Done, HitOf
<1> QED BY <1>1, <1>3 DEF Searching, HitOf

\* A signature's places are in the text.
LEMMA PlacesTyped ==
  ASSUME NEW sig, NEW file, file.text \in Seq(Bytes)
  PROVE  /\ Places(sig, file) \subseteq 0..Len(file.text) /\ Len(file.text) \in Nat
         /\ IsFiniteSet(Places(sig, file))
<1>1. Places(sig, file) \in SUBSET (0..Len(file.text))
  BY DEF Places
<1>2. Len(file.text) \in Nat
  OBVIOUS
<1>3. IsFiniteSet(0..Len(file.text))
  BY <1>2, FS_Interval
<1> QED BY <1>1, <1>2, <1>3, FS_Subset

\* And each of them is a hit.
LEMMA PlacesHit ==
  ASSUME IndexOK(Signatures, Logicals), NEW i \in DOMAIN Signatures, NEW file,
         file.text \in Seq(Bytes),
         NEW at \in Places(Signatures[i], file)
  PROVE  HitOf(i, at) \in Hits(Signatures, file.text)
<1> DEFINE sig == Signatures[i]
           text == file.text
<1>1. SigOK(sig)
  BY SignatureFacts
<1>2. at \in 0..Len(text) /\ Matches(sig, file, at)
  BY DEF Places
<1>3. at \in Nat
  BY <1>2, PlacesTyped
<1>4. AnchorAt(sig, text, at)
  BY <1>1, <1>2, <1>3, AnchorFound
<1> DEFINE h == HitOf(i, at)
<1>5. h = [index |-> i, start |-> at, end |-> at + Signatures[i].anchor.len] /\ h.index = i /\ h.start = at
  BY DEF HitOf
<1> HIDE DEF h
<1>6. bytes_match(lowered(Window(Signatures[h.index].parts, Signatures[h.index].anchor)), lowered(text), h.start, FALSE)
  BY <1>4, <1>5 DEF AnchorAt
<1> DEFINE all == {[index |-> j, start |-> k, end |-> k + Signatures[j].anchor.len] :
                      j \in DOMAIN Signatures, k \in 0..Len(text)}
<1>7. h \in all
  BY <1>2, <1>5
<1> HIDE DEF all
<1>8. h \in {x \in all : bytes_match(lowered(Window(Signatures[x.index].parts, Signatures[x.index].anchor)),
                                    lowered(text), x.start, FALSE)}
  BY <1>6, <1>7
<1>9. Hits(Signatures, text)
        = {x \in all : bytes_match(lowered(Window(Signatures[x.index].parts, Signatures[x.index].anchor)),
                                   lowered(text), x.start, FALSE)}
  BY DEF Hits, all
<1> QED BY <1>8, <1>9 DEF h

\* A hit is of a signature, at a place of the text.
LEMMA HitFacts ==
  ASSUME NEW text, NEW h \in Hits(Signatures, text)
  PROVE  h.index \in DOMAIN Signatures /\ h.start \in 0..Len(text) /\ h = HitOf(h.index, h.start)
<1>1. PICK i \in DOMAIN Signatures, at \in 0..Len(text) :
        h = [index |-> i, start |-> at, end |-> at + Signatures[i].anchor.len]
  BY DEF Hits
<1>2. h.index = i /\ h.start = at
  BY <1>1
<1> QED BY <1>1, <1>2 DEF HitOf

\* A search begins.
LEMMA BeginKeeps ==
  ASSUME SearchInv, NEW file, file.text \in Seq(Bytes), BeginScan(file)
  PROVE  SearchInv'
<1> DEFINE n == Len(Signatures)
           hits == Hits(Signatures, file.text)
<1>1. /\ index' = index /\ scratch' = prepare(scratch, n, Len(Logicals))
      /\ scan' = [phase |-> "hits", file |-> file, hits |-> hits, steps |-> 0, found |-> None]
  BY DEF BeginScan, Quiet
<1>2. index \in Range(Loaded) /\ ScratchOK(scratch) /\ IndexOK(Signatures, Logicals)
  BY LoadedIndex DEF SearchInv
<1>3. n \in Nat /\ DOMAIN Signatures = 1..n /\ Len(Logicals) \in Nat
  BY <1>2 DEF IndexOK
<1>4. /\ ScratchOK(scratch') /\ scratch'.touched = {} /\ Len(scratch'.counts) = n
      /\ Len(scratch'.marked) = Len(Logicals) /\ \A i \in 1..n : scratch'.counts[i] = 0
  <2> DEFINE m == Len(Logicals)
             t == scratch'
  <2>1. t = prepare(scratch, n, m) /\ m \in Nat
    BY <1>1, <1>3
  <2> HIDE DEF n, m, t
  <2>2. /\ ScratchOK(t) /\ t.touched = {} /\ Len(t.counts) = n /\ Len(t.marked) = m
        /\ \A i \in 1..n : t.counts[i] = 0
    <3>1. ScratchOK(scratch) /\ n \in Nat /\ m \in Nat /\ t = prepare(scratch, n, m)
      BY <1>2, <1>3, <2>1
    <3>2. Prepared(t, n, m)
      BY <3>1, PrepareFits
    <3> QED BY <3>2 DEF Prepared
  <2> QED BY <2>2 DEF m, t
<1> HIDE DEF n
<1>5. ASSUME NEW i \in DOMAIN Signatures PROVE SigDone(i, file, hits, scratch'.counts)
  <2>1. \A at \in Places(Signatures[i], file) : HitOf(i, at) \in hits
    BY <1>2, PlacesHit
  <2>2. Done(i, file, hits) = {}
    BY <2>1 DEF Done
  <2>3. Cardinality(Done(i, file, hits)) = 0 /\ scratch'.counts[i] = 0
    BY <1>3, <1>4, <2>2, FS_EmptySet
  <2> HIDE DEF hits
  <2> QED BY <2>1, <2>3 DEF SigDone
<1>6. \A h \in hits : h.index \in DOMAIN Signatures /\ h.start \in 0..Len(file.text) /\ h = HitOf(h.index, h.start)
  BY HitFacts
<1> HIDE DEF hits
<1>7. scan'.phase = "hits" /\ scan'.file = file /\ scan'.hits = hits /\ scan'.steps = 0
  BY <1>1
<1>8. Searching(scan', scratch')
  BY <1>1, <1>4, <1>5, <1>6, <1>7 DEF Searching, n
<1>9. Searching(scan, scratch)'
  BY <1>1, <1>8, SameSearch
<1>10. ScanAgrees'
  BY <1>7 DEF ScanAgrees
<1>11. ScratchOK(scratch)'
  BY <1>4 DEF ScratchOK
<1> QED BY <1>1, <1>2, <1>7, <1>9, <1>10, <1>11 DEF SearchInv, Loaded

\* What ScanAgrees says of a search s of the index at hand.
AsMeant(s) ==
  s.phase = "done" /\ s.steps <= MaxSteps =>
    LET file == s.file
        sure == {i \in Bodies(file) : FirstFitSuffices(Signatures[i])}
        exact == {l \in DOMAIN Logicals : Exact(Logicals[l])}
    IN  /\ s.found \in {None} \cup {Body(i) : i \in Bodies(file)}
                         \cup {LogicalOf(l) : l \in Held(file) \cup (DOMAIN Logicals \ exact)}
        /\ sure # {} => s.found \in {Body(i) : i \in Bodies(file)}
        /\ Bodies(file) = {} =>
             \A l \in Held(file) \cap exact : \E m \in 1..l : s.found = LogicalOf(m)

\* The same index, the same meaning.
LEMMA SameMeaning ==
  ASSUME index' = index
  PROVE  ScanAgrees' <=> AsMeant(scan')
<1>1. Signatures' = Signatures /\ Logicals' = Logicals
  BY DEF Signatures, Logicals
<1>2. ASSUME NEW file PROVE Bodies(file)' = Bodies(file)
  BY <1>1 DEF Bodies
<1>3. ASSUME NEW l PROVE Exact(l)' <=> Exact(l)
  BY <1>1 DEF Exact
<1>4. ASSUME NEW l, NEW file PROVE Occurrences(l, file)' = Occurrences(l, file)
  BY <1>1 DEF Occurrences
<1>5. ASSUME NEW file PROVE Held(file)' = Held(file)
  BY <1>1, <1>4 DEF Held
<1>6. Bodies(scan.file)' = Bodies(scan'.file) /\ Held(scan.file)' = Held(scan'.file)
  BY <1>1 DEF Bodies, Held, Occurrences
<1> QED BY <1>1, <1>3, <1>6 DEF ScanAgrees, AsMeant

\* What a hit's verification says.
Verified(h, v) ==
  /\ h.index \in DOMAIN Signatures /\ h = HitOf(h.index, h.start) /\ h.start \in 0..Len(scan.file.text)
  /\ v.steps \in Nat /\ scan.steps <= v.steps /\ v.matched \in BOOLEAN
  /\ applies_to(Signatures[h.index].target, scan.file.text) /\ v.matched =>
       h.start \in Places(Signatures[h.index], scan.file)
  /\ h.start \in Places(Signatures[h.index], scan.file) =>
       /\ applies_to(Signatures[h.index].target, scan.file.text)
       /\ FirstFitSuffices(Signatures[h.index]) /\ v.steps <= MaxSteps => v.matched

\* It is as the signature means it, while the steps last.
LEMMA HitVerified ==
  ASSUME IndexOK(Signatures, Logicals), Searching(scan, scratch), NEW h \in scan.hits, NEW v,
         v = verify(Signatures[h.index], scan.file, h.start, scan.steps)
  PROVE  Verified(h, v)
<1> DEFINE i == h.index
           at == h.start
           sig == Signatures[i]
           text == scan.file.text
<1>1. /\ text \in Seq(Bytes) /\ scan.steps \in Nat /\ i \in DOMAIN Signatures
      /\ at \in 0..Len(text) /\ h = HitOf(i, at)
  BY DEF Searching
<1>2. SigOK(sig)
  BY <1>1, SignatureFacts
<1>3. at \in Nat
  BY <1>1
<1> DEFINE file == scan.file
           steps == scan.steps
<1>4. v = verify(sig, file, at, steps)
  OBVIOUS
<1>5. file.text \in Seq(Bytes) /\ steps \in Nat
  BY <1>1
<1> HIDE DEF file, steps, sig, at
<1>6. /\ v.steps \in Nat /\ steps <= v.steps /\ v.matched \in BOOLEAN
      /\ v.matched => Matches(sig, file, at)
      /\ Matches(sig, file, at) /\ FirstFitSuffices(sig) /\ v.steps <= MaxSteps => v.matched
  BY <1>2, <1>3, <1>4, <1>5, VerifyAgrees
<1> QED BY <1>1, <1>6 DEF Verified, Places, file, steps, sig, at

\* A place's hit is that place's only.
LEMMA HitApart ==
  ASSUME NEW i, NEW at, NEW j, NEW to, HitOf(i, at) = HitOf(j, to)
  PROVE  i = j /\ at = to
<1>1. HitOf(i, at).index = i /\ HitOf(i, at).start = at
  BY DEF HitOf
<1>2. HitOf(j, to).index = j /\ HitOf(j, to).start = to
  BY DEF HitOf
<1> QED BY <1>1, <1>2

\* What one hit less does to the places found.
LEMMA DoneGrows ==
  ASSUME NEW hits, NEW file, file.text \in Seq(Bytes), NEW i, NEW h \in hits,
         h = HitOf(h.index, h.start)
  PROVE  /\ i # h.index => Done(i, file, hits \ {h}) = Done(i, file, hits)
         /\ i = h.index /\ h.start \notin Places(Signatures[i], file) =>
              Done(i, file, hits \ {h}) = Done(i, file, hits)
         /\ i = h.index /\ h.start \in Places(Signatures[i], file) =>
              Cardinality(Done(i, file, hits \ {h})) = Cardinality(Done(i, file, hits)) + 1
         /\ Cardinality(Done(i, file, hits)) \in Nat
<1> DEFINE P == Places(Signatures[i], file)
           D == Done(i, file, hits)
           Dh == Done(i, file, hits \ {h})
<1>1. IsFiniteSet(P)
  BY PlacesTyped
<1>2. D \in SUBSET P /\ D = {at \in P : HitOf(i, at) \notin hits}
      /\ Dh = {at \in P : HitOf(i, at) \notin hits \/ HitOf(i, at) = h}
  BY DEF Done
<1>3. IsFiniteSet(D) /\ Cardinality(D) \in Nat
  BY <1>1, <1>2, FS_Subset, FS_CardinalityType
<1>4. \A at \in P : HitOf(i, at) = h => i = h.index /\ at = h.start
  BY HitApart
<1> HIDE DEF P, D, Dh
<1>5. i # h.index => Dh = D
  BY <1>2, <1>4
<1>6. h.start \notin P => Dh = D
  BY <1>2, <1>4
<1>7. ASSUME i = h.index, h.start \in P PROVE Cardinality(Dh) = Cardinality(D) + 1
  <2> DEFINE s == h.start
  <2>1. Dh = D \cup {s} /\ s \notin D
    BY <1>2, <1>4, <1>7
  <2> HIDE DEF s
  <2> QED BY <1>3, <2>1, FS_AddElement
<1> QED BY <1>3, <1>5, <1>6, <1>7 DEF P, D, Dh

\* A hit looked at, and counted if it is of a place.
LEMMA SigDoneNext ==
  ASSUME NEW hits, NEW file, file.text \in Seq(Bytes), NEW i, NEW h \in hits,
         h = HitOf(h.index, h.start), NEW c, NEW d, SigDone(i, file, hits, c),
         i # h.index => d[i] = c[i],
         i = h.index /\ FirstFitSuffices(Signatures[i]) =>
           /\ Signatures[i].piece /\ ~Truncated(file) =>
                d[i] = IF h.start \in Places(Signatures[i], file) THEN c[i] + 1 ELSE c[i]
           /\ ~Signatures[i].piece => h.start \notin Places(Signatures[i], file)
  PROVE  SigDone(i, file, hits \ {h}, d)
<1> SUFFICES ASSUME FirstFitSuffices(Signatures[i])
             PROVE  /\ Signatures[i].piece /\ ~Truncated(file) =>
                         d[i] = Cardinality(Done(i, file, hits \ {h}))
                    /\ ~Signatures[i].piece =>
                         \A at \in Places(Signatures[i], file) : HitOf(i, at) \in hits \ {h}
  BY DEF SigDone
<1>1. ASSUME Signatures[i].piece, ~Truncated(file)
      PROVE  d[i] = Cardinality(Done(i, file, hits \ {h}))
  <2>1. c[i] = Cardinality(Done(i, file, hits))
    BY <1>1 DEF SigDone
  <2>2. CASE i # h.index
    BY <2>1, <2>2, DoneGrows
  <2>3. CASE i = h.index /\ h.start \notin Places(Signatures[i], file)
    <3>1. Done(i, file, hits \ {h}) = Done(i, file, hits)
      BY <2>3, DoneGrows
    <3> QED BY <1>1, <2>1, <2>3, <3>1
  <2>4. CASE i = h.index /\ h.start \in Places(Signatures[i], file)
    <3>1. Cardinality(Done(i, file, hits \ {h})) = Cardinality(Done(i, file, hits)) + 1
      BY <2>4, DoneGrows
    <3> QED BY <1>1, <2>1, <2>4, <3>1
  <2> QED BY <2>2, <2>3, <2>4
<1>2. ASSUME ~Signatures[i].piece, NEW at \in Places(Signatures[i], file)
      PROVE  HitOf(i, at) \in hits \ {h}
  <2>1. HitOf(i, at) \in hits
    BY <1>2 DEF SigDone
  <2>2. HitOf(i, at) # h
    BY <1>2, HitApart
  <2> QED BY <2>1, <2>2
<1> QED BY <1>1, <1>2

\* One more seen of the k-th signature.
Note(s, k) == [s EXCEPT !.counts[k] = @ + 1, !.touched = @ \cup {k}]

\* A scratch that has noted one more.
LEMMA NoteFacts ==
  ASSUME NEW s, ScratchOK(s), NEW k \in 1..Len(s.counts), NEW t, t = Note(s, k)
  PROVE  /\ ScratchOK(t) /\ t.touched = s.touched \cup {k} /\ Len(t.counts) = Len(s.counts)
         /\ Len(t.marked) = Len(s.marked) /\ t.counts[k] = s.counts[k] + 1 /\ s.counts[k] \in Nat
         /\ \A i \in 1..Len(s.counts) : i # k => t.counts[i] = s.counts[i]
<1> DEFINE c == s.counts
           m == s.marked
           o == s.touched
           n == Len(c)
           d == [c EXCEPT ![k] = @ + 1]
<1>1. /\ s = [counts |-> c, touched |-> o, marked |-> m, candidates |-> {}]
      /\ n \in Nat /\ c \in [1..n -> Nat] /\ Len(m) \in Nat /\ m = [l \in 1..Len(m) |-> FALSE]
      /\ \A i \in 1..n : i \notin o => c[i] = 0
  BY DEF ScratchOK
<1>2. k \in 1..n
  OBVIOUS
<1> HIDE DEF c, m, o
<1>3. d \in [1..n -> Nat] /\ d[k] = c[k] + 1 /\ \A i \in 1..n : i # k => d[i] = c[i]
  BY <1>1, <1>2
<1>4. Len(d) = n
  BY <1>1, <1>3
<1>5. t = [counts |-> d, touched |-> o \cup {k}, marked |-> m, candidates |-> {}]
  <2>1. t = [[s EXCEPT !.counts[k] = @ + 1] EXCEPT !.touched = @ \cup {k}]
    BY DEF Note
  <2> QED BY <1>1, <2>1
<1> HIDE DEF d, n
<1>6. t.counts = d /\ t.touched = o \cup {k} /\ t.marked = m
  BY <1>5
<1>7. ScratchOK(t)
  BY <1>1, <1>3, <1>4, <1>5, <1>6 DEF ScratchOK
<1>8. c[k] \in Nat
  BY <1>1, <1>2
<1> QED BY <1>3, <1>4, <1>6, <1>7, <1>8 DEF c, m, o, n

\* Giving up is being over the budget.
LEMMA OverIsOver ==
  ASSUME NEW s \in Nat, s > MaxSteps * GiveUpFactor PROVE s > MaxSteps
<1> DEFINE g == GiveUpFactor - 1
           m == MaxSteps
<1>1. g \in Nat /\ m \in Nat /\ GiveUpFactor = g + 1
  BY PatternAssumption
<1> HIDE DEF g, m
<1>2. m * (g + 1) = m * g + m /\ m * g \in Nat
  BY <1>1
<1>3. MaxSteps * GiveUpFactor = m * g + m
  BY <1>1, <1>2 DEF m
<1>4. m * g + m >= m
  BY <1>1, <1>2
<1> DEFINE p == m * g + m
<1>5. p \in Nat /\ p >= m /\ s > p
  BY <1>1, <1>2, <1>3, <1>4
<1> HIDE DEF p
<1>6. s > m
  BY <1>1, <1>5
<1> QED BY <1>6 DEF m

\* Which hits are tried, and which are counted.
Tried(h) == /\ applies_to(Signatures[h.index].target, scan.file.text)
            /\ ~(Signatures[h.index].piece /\ Truncated(scan.file))
After(h, steps) == [scan EXCEPT !.hits = @ \ {h}, !.steps = steps]

\* A hit's three outcomes.
HitOutcome(h, v) ==
  LET tried == Tried(h)
      piece == Signatures[h.index].piece
      steps == IF tried THEN v.steps ELSE scan.steps
      counted == tried /\ v.matched /\ piece
      over == tried /\ steps > MaxSteps * GiveUpFactor
      left == IF counted THEN Note(scratch, h.index) ELSE scratch
  IN  \/ /\ tried /\ v.matched /\ ~piece
         /\ scan' = [After(h, steps) EXCEPT !.phase = "done", !.found = Body(h.index)]
         /\ scratch' = clear(scratch)
      \/ /\ over /\ scan' = [After(h, steps) EXCEPT !.phase = "done"] /\ scratch' = clear(left)
      \/ /\ ~(tried /\ v.matched /\ ~piece) /\ ~over
         /\ scan' = After(h, steps) /\ scratch' = left

\* They are what a hit does.
LEMMA HitIs ==
  ASSUME Hit
  PROVE  \E h \in scan.hits : HitOutcome(h, verify(Signatures[h.index], scan.file, h.start, scan.steps))
<1>1. PICK h \in scan.hits :
        LET v == verify(Signatures[h.index], scan.file, h.start, scan.steps)
            piece == Signatures[h.index].piece
            steps == IF Tried(h) THEN v.steps ELSE scan.steps
            counted == Tried(h) /\ v.matched /\ piece
            over == Tried(h) /\ steps > MaxSteps * GiveUpFactor
        IN  \/ /\ Tried(h) /\ v.matched /\ ~piece
               /\ scan' = [After(h, steps) EXCEPT !.phase = "done", !.found = Body(h.index)]
               /\ scratch' = clear(scratch)
            \/ /\ ~(Tried(h) /\ v.matched /\ ~piece) /\ over
               /\ scan' = [After(h, steps) EXCEPT !.phase = "done"]
               /\ scratch' = clear(IF counted THEN Note(scratch, h.index) ELSE scratch)
            \/ /\ ~(Tried(h) /\ v.matched /\ ~piece) /\ ~over
               /\ scan' = After(h, steps)
               /\ scratch' = IF counted THEN Note(scratch, h.index) ELSE scratch
  BY DEF Hit, Tried, After, Note
<1> DEFINE v == verify(Signatures[h.index], scan.file, h.start, scan.steps)
<1>2. HitOutcome(h, v)
  BY <1>1 DEF HitOutcome
<1> QED BY <1>2

\* What a search is after a hit.
LEMMA AfterIs ==
  ASSUME Searching(scan, scratch), NEW h, NEW steps
  PROVE  /\ After(h, steps) = [phase |-> "hits", file |-> scan.file, hits |-> scan.hits \ {h},
                               steps |-> steps, found |-> None]
         /\ [After(h, steps) EXCEPT !.phase = "done"]
              = [phase |-> "done", file |-> scan.file, hits |-> scan.hits \ {h}, steps |-> steps, found |-> None]
<1> DEFINE f == scan.file
           t == scan.hits
           n == scan.steps
           u == t \ {h}
<1>1. scan = [phase |-> "hits", file |-> f, hits |-> t, steps |-> n, found |-> None]
  BY DEF Searching
<1> HIDE DEF f, n, t
<1>2. After(h, steps) = [[scan EXCEPT !.hits = @ \ {h}] EXCEPT !.steps = steps]
  BY DEF After
<1>3. After(h, steps) = [phase |-> "hits", file |-> f, hits |-> u, steps |-> steps, found |-> None]
  BY <1>1, <1>2
<1> DEFINE w == After(h, steps)
<1> HIDE DEF u, w
<1>4. w = [phase |-> "hits", file |-> f, hits |-> u, steps |-> steps, found |-> None]
  BY <1>3 DEF w
<1>5. [w EXCEPT !.phase = "done"]
        = [phase |-> "done", file |-> f, hits |-> u, steps |-> steps, found |-> None]
  BY <1>4
<1> QED BY <1>4, <1>5 DEF f, t, u, w

\* A search that goes on.
LEMMA HitGoesOn ==
  ASSUME SearchInv, scan.phase = "hits", index' = index, NEW h \in scan.hits, NEW v,
         Verified(h, v),
         NEW steps, steps = (IF Tried(h) THEN v.steps ELSE scan.steps),
         NEW counted \in BOOLEAN, counted <=> Tried(h) /\ v.matched /\ Signatures[h.index].piece,
         ~(Tried(h) /\ v.matched /\ ~Signatures[h.index].piece),
         NEW left, left = (IF counted THEN Note(scratch, h.index) ELSE scratch)
  PROVE  ScratchOK(left) /\ Searching(After(h, steps), left)
<1> DEFINE k == h.index
           n == Len(scratch.counts)
           s == After(h, steps)
           file == scan.file
           hits == scan.hits
<1>1. /\ Searching(scan, scratch) /\ ScratchOK(scratch) /\ IndexOK(Signatures, Logicals)
  BY LoadedIndex DEF SearchInv
<1>2. /\ n = Len(Signatures) /\ n \in Nat /\ DOMAIN Signatures = 1..n /\ k \in DOMAIN Signatures
  BY <1>1 DEF Searching, IndexOK, ScratchOK, Verified
<1>3. /\ s = [phase |-> "hits", file |-> file, hits |-> hits \ {h}, steps |-> steps, found |-> None]
  BY <1>1, AfterIs
<1>4. steps \in Nat /\ scan.steps <= steps /\ scan.steps \in Nat
  BY <1>1 DEF Verified, Searching
<1>5. k \in 1..Len(scratch.counts)
  BY <1>2
<1>6. /\ ScratchOK(left) /\ Len(left.counts) = n /\ Len(left.marked) = Len(scratch.marked)
      /\ counted => /\ left.touched = scratch.touched \cup {k} /\ left.counts[k] = scratch.counts[k] + 1
                    /\ scratch.counts[k] \in Nat
                    /\ \A i \in 1..n : i # k => left.counts[i] = scratch.counts[i]
      /\ ~counted => left = scratch
  <2>1. CASE counted
    <3>1. left = Note(scratch, k)
      BY <2>1
    <3> HIDE DEF k
    <3> QED BY <1>1, <1>5, <2>1, <3>1, NoteFacts
  <2>2. CASE ~counted
    BY <1>1, <2>2
  <2> QED BY <2>1, <2>2
<1> HIDE DEF n
<1>7. \A i \in left.touched : i \in DOMAIN Signatures /\ left.counts[i] > 0 /\ Signatures[i].piece
  <2>1. CASE ~counted
    BY <1>1, <1>6, <2>1 DEF Searching
  <2>2. CASE counted
    <3>1. left.counts[k] > 0
      BY <1>6, <2>2
    <3>2. \A i \in scratch.touched : i \in 1..n /\ scratch.counts[i] > 0 /\ Signatures[i].piece
      BY <1>1, <1>2 DEF Searching
    <3>3. \A i \in scratch.touched : i # k => left.counts[i] > 0
      BY <1>6, <2>2, <3>2
    <3>4. Signatures[k].piece
      BY <2>2
    <3> QED BY <1>2, <1>6, <2>2, <3>1, <3>2, <3>3, <3>4
  <2> QED BY <2>1, <2>2
<1>8. Truncated(file) => left.touched = {}
  <2>1. Truncated(file) => ~counted /\ scratch.touched = {}
    BY <1>1 DEF Tried, Searching
  <2> QED BY <1>6, <2>1
<1>9. ASSUME steps <= MaxSteps, NEW i \in DOMAIN Signatures
      PROVE  SigDone(i, file, hits \ {h}, left.counts)
  <2> DEFINE c == scratch.counts
             d == left.counts
  <2>1. scan.steps <= MaxSteps
    BY <1>4, <1>9, PatternAssumption
  <2>2. SigDone(i, file, hits, c)
    BY <1>1, <1>9, <2>1 DEF Searching
  <2>3. file.text \in Seq(Bytes) /\ h = HitOf(h.index, h.start)
    BY <1>1 DEF Searching
  <2>4. i # h.index => d[i] = c[i]
    BY <1>2, <1>6, <1>9
  <2>5. ASSUME i = h.index, FirstFitSuffices(Signatures[i])
        PROVE  /\ Signatures[i].piece /\ ~Truncated(file) =>
                    d[i] = IF h.start \in Places(Signatures[i], file) THEN c[i] + 1 ELSE c[i]
               /\ ~Signatures[i].piece => h.start \notin Places(Signatures[i], file)
    <3> DEFINE at == h.start \in Places(Signatures[i], file)
               run == applies_to(Signatures[i].target, file.text)
    <3>1. at => run
      BY <2>5 DEF Verified
    <3>2. Tried(h) => v.steps <= MaxSteps
      BY <1>9
    <3>3. at /\ Tried(h) => v.matched
      BY <2>5, <3>2 DEF Verified
    <3>4. run /\ v.matched => at
      BY <2>5 DEF Verified
    <3>5. Tried(h) <=> run /\ ~(Signatures[i].piece /\ Truncated(file))
      BY <2>5 DEF Tried
    <3> HIDE DEF at, run, c, d
    <3>6. ASSUME Signatures[i].piece, ~Truncated(file) PROVE d[i] = IF at THEN c[i] + 1 ELSE c[i]
      <4>1. counted <=> at
        BY <2>5, <3>1, <3>3, <3>4, <3>5, <3>6
      <4>2. counted => d[i] = c[i] + 1
        BY <1>6, <2>5 DEF c, d
      <4>3. ~counted => d[i] = c[i]
        BY <1>6 DEF c, d
      <4> QED BY <4>1, <4>2, <4>3
    <3>7. ASSUME ~Signatures[i].piece PROVE ~at
      BY <2>5, <3>1, <3>3, <3>5, <3>7
    <3> QED BY <3>6, <3>7 DEF at
  <2> HIDE DEF c, d, file, hits
  <2>6. h \in hits
    BY DEF hits
  <2>7. SigDone(i, file, hits \ {h}, d)
    BY <2>2, <2>3, <2>4, <2>5, <2>6, SigDoneNext
  <2> QED BY <2>7 DEF d
<1>10. \A g \in hits \ {h} : /\ g.index \in DOMAIN Signatures /\ g.start \in 0..Len(file.text)
                            /\ g = HitOf(g.index, g.start)
  BY <1>1 DEF Searching
<1>11. file.text \in Seq(Bytes) /\ Len(left.counts) = Len(Signatures) /\ Len(left.marked) = Len(Logicals)
  BY <1>1, <1>2, <1>6 DEF Searching
<1> HIDE DEF file, hits, s
<1>12. s.phase = "hits" /\ s.file = file /\ s.hits = hits \ {h} /\ s.steps = steps /\ s.found = None
  BY <1>3
<1>13. Searching(s, left)
  BY <1>3, <1>4, <1>7, <1>8, <1>9, <1>10, <1>11, <1>12 DEF Searching
<1> QED BY <1>6, <1>13 DEF s

\* A hit is looked at.
LEMMA HitKeeps ==
  ASSUME SearchInv, Hit
  PROVE  SearchInv'
<1>1. index' = index /\ scan.phase = "hits"
  BY DEF Hit
<1>0. PICK h \in scan.hits : HitOutcome(h, verify(Signatures[h.index], scan.file, h.start, scan.steps))
  BY HitIs
<1> DEFINE v == verify(Signatures[h.index], scan.file, h.start, scan.steps)
<1>2. v = verify(Signatures[h.index], scan.file, h.start, scan.steps) /\ HitOutcome(h, v)
  BY <1>0
<1> HIDE DEF v
<1> DEFINE piece == Signatures[h.index].piece
           steps == IF Tried(h) THEN v.steps ELSE scan.steps
           counted == Tried(h) /\ v.matched /\ piece
           over == Tried(h) /\ steps > MaxSteps * GiveUpFactor
           left == IF counted THEN Note(scratch, h.index) ELSE scratch
<1>3. /\ Searching(scan, scratch) /\ ScratchOK(scratch) /\ IndexOK(Signatures, Logicals)
      /\ index \in Range(Loaded)
  BY <1>1, LoadedIndex DEF SearchInv
<1>4. Verified(h, v)
  BY <1>2, <1>3, HitVerified
<1>5. /\ Tried(h) => applies_to(Signatures[h.index].target, scan.file.text)
      /\ Tried(h) \in BOOLEAN /\ piece \in BOOLEAN /\ v.matched \in BOOLEAN /\ v.steps \in Nat
      /\ scan.steps \in Nat
  BY <1>3, <1>4, SignatureFacts DEF Tried, Verified, Searching
<1>6. index' \in Range(Loaded)'
  BY <1>1, <1>3 DEF Loaded
<1>7. CASE /\ Tried(h) /\ v.matched /\ ~piece
           /\ scan' = [After(h, steps) EXCEPT !.phase = "done", !.found = Body(h.index)]
           /\ scratch' = clear(scratch)
  <2>1. scan' = [phase |-> "done", file |-> scan.file, hits |-> scan.hits \ {h}, steps |-> steps,
                 found |-> Body(h.index)]
    <3> DEFINE r == Body(h.index)
    <3>1. scan' = [After(h, steps) EXCEPT !.phase = "done", !.found = r]
      BY <1>7
    <3> HIDE DEF steps, r
    <3>2. scan' = [phase |-> "done", file |-> scan.file, hits |-> scan.hits \ {h}, steps |-> steps,
                   found |-> r]
      <4> DEFINE x == [After(h, steps) EXCEPT !.phase = "done"]
                 f == scan.file
                 u == scan.hits \ {h}
      <4>1. x = [phase |-> "done", file |-> f, hits |-> u, steps |-> steps, found |-> None]
        BY <1>3, AfterIs
      <4>2. scan' = [x EXCEPT !.found = r]
        BY <3>1
      <4> HIDE DEF x, f, u
      <4>3. scan' = [phase |-> "done", file |-> f, hits |-> u, steps |-> steps, found |-> r]
        BY <4>1, <4>2
      <4> QED BY <4>3 DEF f, u
    <3> QED BY <3>2 DEF r
  <2>2. scan'.phase = "done" /\ scan'.file = scan.file /\ scan'.found = Body(h.index)
    BY <2>1
  <2>3. h.start \in Places(Signatures[h.index], scan.file) /\ h.index \in DOMAIN Signatures
    BY <1>4, <1>5, <1>7 DEF Verified
  <2>4. h.index \in Bodies(scan.file)
    BY <1>7, <2>3 DEF Bodies
  <2>5. AsMeant(scan')
    BY <2>2, <2>4 DEF AsMeant
  <2>6. ScratchOK(scratch')
    BY <1>3, <1>7, ClearEmpties
  <2>7. ScanAgrees' /\ ScratchOK(scratch)'
    BY <1>1, <2>5, <2>6, SameMeaning DEF ScratchOK
  <2> QED BY <1>6, <2>2, <2>7 DEF SearchInv
<1> DEFINE cnt == IF counted THEN TRUE ELSE FALSE
<1>8. /\ cnt \in BOOLEAN /\ cnt <=> Tried(h) /\ v.matched /\ Signatures[h.index].piece
  BY <1>5
<1>9. left = (IF cnt THEN Note(scratch, h.index) ELSE scratch)
  BY <1>5
<1>10. steps = (IF Tried(h) THEN v.steps ELSE scan.steps)
  OBVIOUS
<1>11. CASE over /\ scan' = [After(h, steps) EXCEPT !.phase = "done"] /\ scratch' = clear(left)
  <2>1. scan' = [phase |-> "done", file |-> scan.file, hits |-> scan.hits \ {h}, steps |-> steps,
                 found |-> None]
    BY <1>3, <1>11, AfterIs
  <2>2. scan'.phase = "done" /\ scan'.steps = steps
    BY <2>1
  <2>3. steps \in Nat /\ steps > MaxSteps * GiveUpFactor
    BY <1>5, <1>11
  <2> HIDE DEF steps
  <2>4. steps > MaxSteps
    BY <2>3, OverIsOver
  <2>5. ~(steps <= MaxSteps)
    BY <2>3, <2>4, PatternAssumption
  <2>6. AsMeant(scan')
    BY <2>2, <2>5 DEF AsMeant
  <2>7. ScratchOK(left)
    <3>1. h.index \in 1..Len(scratch.counts)
      BY <1>3, <1>4 DEF Verified, Searching, IndexOK
    <3>2. CASE counted
      <4>1. left = Note(scratch, h.index)
        BY <3>2
      <4> HIDE DEF left
      <4> QED BY <1>3, <3>1, <4>1, NoteFacts
    <3>3. CASE ~counted
      BY <1>3, <3>3
    <3> QED BY <3>2, <3>3
  <2> HIDE DEF left
  <2>8. ScratchOK(scratch')
    BY <1>11, <2>7, ClearEmpties
  <2>9. ScanAgrees' /\ ScratchOK(scratch)'
    BY <1>1, <2>6, <2>8, SameMeaning DEF ScratchOK
  <2> QED BY <1>6, <2>2, <2>9 DEF SearchInv
<1>12. CASE ~(Tried(h) /\ v.matched /\ ~piece) /\ ~over /\ scan' = After(h, steps) /\ scratch' = left
  <2>1. ~(Tried(h) /\ v.matched /\ ~Signatures[h.index].piece)
    BY <1>12
  <2>2. scan' = After(h, steps) /\ scratch' = left
    BY <1>12
  <2> HIDE DEF steps, left, cnt
  <2>3. ScratchOK(left) /\ Searching(After(h, steps), left)
    BY <1>1, <1>4, <1>8, <1>9, <1>10, <2>1, HitGoesOn DEF steps
  <2>4. Searching(scan', scratch') /\ ScratchOK(scratch')
    BY <2>2, <2>3
  <2>5. scan'.phase = "hits"
    BY <2>4 DEF Searching
  <2>6. AsMeant(scan')
    BY <2>5 DEF AsMeant
  <2>7. ScanAgrees' /\ ScratchOK(scratch)' /\ Searching(scan, scratch)'
    BY <1>1, <2>4, <2>6, SameMeaning, SameSearch DEF ScratchOK
  <2> QED BY <1>6, <2>5, <2>7 DEF SearchInv
<1>13. \/ /\ Tried(h) /\ v.matched /\ ~piece
          /\ scan' = [After(h, steps) EXCEPT !.phase = "done", !.found = Body(h.index)]
          /\ scratch' = clear(scratch)
       \/ over /\ scan' = [After(h, steps) EXCEPT !.phase = "done"] /\ scratch' = clear(left)
       \/ ~(Tried(h) /\ v.matched /\ ~piece) /\ ~over /\ scan' = After(h, steps) /\ scratch' = left
  BY <1>2 DEF HitOutcome
<1> QED BY <1>7, <1>11, <1>12, <1>13

-----------------------------------------------------------------------------
(* The logical signatures are judged.                                      *)

\* A logical signature's pieces are signatures that are pieces.
LEMMA PiecesOfLogical ==
  ASSUME IndexOK(Signatures, Logicals), NEW l \in DOMAIN Logicals
  PROVE  /\ LogicalOK(Logicals[l], Signatures) /\ Logicals[l].pieces \in Seq(Nat)
         /\ \A p \in Range(Logicals[l].pieces) : p \in DOMAIN Signatures /\ Signatures[p].piece
<1> DEFINE ps == Logicals[l].pieces
<1>1. LogicalOK(Logicals[l], Signatures)
  BY DEF IndexOK
<1>2. ps \in Seq(Nat) /\ \A i \in DOMAIN ps : ps[i] \in DOMAIN Signatures /\ Signatures[ps[i]].piece = TRUE
  BY <1>1 DEF LogicalOK, ArePieces
<1> HIDE DEF ps
<1>3. \A p \in Range(ps) : p \in DOMAIN Signatures /\ Signatures[p].piece
  BY <1>2 DEF Range
<1> QED BY <1>1, <1>2, <1>3 DEF ps

\* Its counts are how often its pieces occur.
LEMMA GatheredIs ==
  ASSUME IndexOK(Signatures, Logicals), Searching(scan, scratch), scan.hits = {},
         scan.steps <= MaxSteps,
         ~Truncated(scan.file), NEW l \in DOMAIN Logicals, Exact(Logicals[l])
  PROVE  Gathered(Logicals[l]) = Occurrences(Logicals[l], scan.file)
<1> DEFINE ps == Range(Logicals[l].pieces)
           f == [p \in ps |-> scratch.counts[p]]
           g == [p \in ps |-> Cardinality(Places(Signatures[p], scan.file))]
<1>1. ASSUME NEW p \in ps PROVE scratch.counts[p] = Cardinality(Places(Signatures[p], scan.file))
  <2>1. p \in DOMAIN Signatures /\ Signatures[p].piece
    BY PiecesOfLogical
  <2>2. FirstFitSuffices(Signatures[p])
    BY DEF Exact
  <2>3. SigDone(p, scan.file, scan.hits, scratch.counts)
    BY <2>1 DEF Searching
  <2>4. scratch.counts[p] = Cardinality(Done(p, scan.file, scan.hits))
    BY <2>1, <2>2, <2>3 DEF SigDone
  <2>5. Done(p, scan.file, scan.hits) = Places(Signatures[p], scan.file)
    BY DEF Done
  <2> QED BY <2>4, <2>5
<1>2. f = g
  BY <1>1
<1>3. Gathered(Logicals[l]) = Tally(Logicals[l], f)
  BY DEF Gathered
<1>4. Occurrences(Logicals[l], scan.file) = Tally(Logicals[l], g)
  BY DEF Occurrences
<1> HIDE DEF f, g
<1> QED BY <1>2, <1>3, <1>4

\* Without a piece of it in the sample it does not hold.
LEMMA NoPieceNoHold ==
  ASSUME IndexOK(Signatures, Logicals), NEW l \in DOMAIN Logicals,
         \A p \in Range(Logicals[l].pieces) : scratch.counts[p] = 0
  PROVE  ~holds(Logicals[l].expression, Gathered(Logicals[l]))
<1> DEFINE logical == Logicals[l]
           count == [p \in Range(logical.pieces) |-> scratch.counts[p]]
           n == Len(logical.pieces)
           zero == 0
           expr == logical.expression
<1>1. /\ LogicalOK(logical, Signatures) /\ logical.pieces \in Seq(Nat)
  BY PiecesOfLogical
<1>2. n \in Nat /\ DOMAIN logical.pieces = 1..n
  BY <1>1
<1>3. \A i \in 1..n : count[logical.pieces[i]] = 0
  BY <1>2 DEF Range
<1>4. DOMAIN Order(logical) = 1..n /\ \A i \in 1..n : Order(logical)[i] = i
  BY <1>2 DEF Order
<1>5. Gathered(logical) = Tally(logical, count)
  BY DEF Gathered
<1>6. expr = logical.expression
  OBVIOUS
<1> HIDE DEF logical, count, n, expr
<1>7. ASSUME NEW s PROVE Tallied(logical, count, s) = 0
  <2> DEFINE V == {0}
  <2>1. ASSUME NEW i \in 1..n, NEW x \in V PROVE x + Seen(logical, count, s, Order(logical)[i]) \in V
    <3>1. Seen(logical, count, s, Order(logical)[i]) = 0
      BY <1>3, <1>4 DEF Seen
    <3> QED BY <3>1
  <2>2. 0 \in V
    OBVIOUS
  <2> HIDE DEF V
  <2>3. Tallied(logical, count, s) \in V
    BY <1>2, <1>4, <2>1, <2>2, TallyStays
  <2> QED BY <2>3 DEF V
<1>8. Tally(logical, count) = [s \in logical.slots |-> Tallied(logical, count, s)]
  BY DEF Tally, Tallied
<1>9. logical.slots = subsignatures(expr) /\ \A counts : Counters(expr, counts) => ~holds(expr, counts)
  BY <1>1, <1>6 DEF LogicalOK
<1> DEFINE g == Gathered(logical)
<1>10. \A s \in subsignatures(expr) : g[s] = 0
  BY <1>5, <1>7, <1>8, <1>9
<1> HIDE DEF g
<1>11. ~holds(expr, g)
  BY <1>9, <1>10 DEF Counters
<1> QED BY <1>11 DEF g, expr, logical

\* Which logical signatures hold, of those with a piece in the sample.
Candidates == {l \in DOMAIN Logicals : \E p \in scratch.touched : p \in Range(Logicals[l].pieces)}
Holding == {l \in Candidates : /\ SizeFits(Logicals[l], scan.file.size)
                               /\ holds(Logicals[l].expression, Gathered(Logicals[l]))}

\* They are what Judge looks at.
LEMMA JudgeIs ==
  ASSUME IndexOK(Signatures, Logicals), Searching(scan, scratch), ScratchOK(scratch), Judge
  PROVE  /\ scan' = [phase |-> "done", file |-> scan.file, hits |-> {}, steps |-> scan.steps,
                     found |-> IF Holding = {} THEN None ELSE LogicalOf(Min(Holding))]
         /\ scratch' = clear(scratch) /\ index' = index /\ scan.hits = {}
<1> DEFINE fresh == {l \in UNION {users(p) : p \in scratch.touched} : ~scratch.marked[l]}
           cs == scratch.candidates \cup fresh
           hs == {l \in cs : /\ SizeFits(Logicals[l], scan.file.size)
                             /\ holds(Logicals[l].expression, Gathered(Logicals[l]))}
           r == IF hs = {} THEN None ELSE LogicalOf(Min(hs))
           q == IF Holding = {} THEN None ELSE LogicalOf(Min(Holding))
<1>1. /\ scan' = [scan EXCEPT !.phase = "done", !.found = r]
      /\ scratch' = clear(scratch) /\ index' = index /\ scan.hits = {}
  BY DEF Judge
<1>2. \A l \in DOMAIN Logicals : scratch.marked[l] = FALSE
  <2>1. DOMAIN Logicals = 1..Len(scratch.marked)
    BY DEF IndexOK, Searching
  <2>2. scratch.marked = [l \in 1..Len(scratch.marked) |-> FALSE]
    BY DEF ScratchOK
  <2> QED BY <2>1, <2>2
<1>3. scratch.candidates = {}
  BY DEF ScratchOK
<1>4. UNION {users(p) : p \in scratch.touched} = Candidates
  BY DEF users, Candidates
<1>5. Candidates \subseteq DOMAIN Logicals
  BY DEF Candidates
<1>6. fresh = Candidates
  BY <1>2, <1>4, <1>5
<1>7. cs = Candidates
  BY <1>3, <1>6
<1> HIDE DEF cs
<1>8. hs = Holding
  BY <1>7 DEF Holding
<1> HIDE DEF hs
<1>9. r = q
  BY <1>8
<1> HIDE DEF r
<1> DEFINE f == scan.file
           n == scan.steps
<1>10. scan = [phase |-> "hits", file |-> f, hits |-> {}, steps |-> n, found |-> None]
  BY <1>1 DEF Searching
<1> HIDE DEF f, n, q
<1> DEFINE x == [scan EXCEPT !.phase = "done"]
<1>11. x = [phase |-> "done", file |-> f, hits |-> {}, steps |-> n, found |-> None]
  BY <1>10
<1>12. scan' = [x EXCEPT !.found = r]
  BY <1>1
<1> HIDE DEF x
<1>13. scan' = [phase |-> "done", file |-> f, hits |-> {}, steps |-> n, found |-> q]
  BY <1>9, <1>11, <1>12
<1> QED BY <1>1, <1>13 DEF f, n, q

\* The verdict of a search that was judged.
LEMMA JudgeAgrees ==
  ASSUME IndexOK(Signatures, Logicals), Searching(scan, scratch), ScratchOK(scratch),
         scan.hits = {},
         scan.steps <= MaxSteps, NEW s, s.file = scan.file,
         s.found = IF Holding = {} THEN None ELSE LogicalOf(Min(Holding))
  PROVE  AsMeant(s)
<1> DEFINE file == scan.file
           sure == {i \in Bodies(file) : FirstFitSuffices(Signatures[i])}
           exact == {l \in DOMAIN Logicals : Exact(Logicals[l])}
<1>1. /\ \A i \in DOMAIN Signatures : SigDone(i, file, scan.hits, scratch.counts)
      /\ DOMAIN Logicals = 1..Len(Logicals) /\ Len(Logicals) \in Nat
      /\ Holding \subseteq DOMAIN Logicals
  BY DEF Searching, IndexOK, Holding, Candidates
<1>2. sure = {}
  <2>1. ASSUME NEW i \in sure PROVE FALSE
    <3>1. i \in DOMAIN Signatures /\ ~Signatures[i].piece /\ Places(Signatures[i], file) # {}
          /\ FirstFitSuffices(Signatures[i])
      BY DEF Bodies
    <3>2. SigDone(i, file, scan.hits, scratch.counts)
      BY <1>1, <3>1
    <3>3. \A at \in Places(Signatures[i], file) : HitOf(i, at) \in {}
      BY <3>1, <3>2 DEF SigDone
    <3> QED BY <3>1, <3>3
  <2> QED BY <2>1
<1>3. ASSUME NEW l \in exact, ~Truncated(file)
      PROVE  Gathered(Logicals[l]) = Occurrences(Logicals[l], file)
  BY <1>3, GatheredIs
<1>4. ASSUME NEW l \in Holding, l \in exact PROVE l \in Held(file)
  <2>1. l \in DOMAIN Logicals /\ scratch.touched # {} /\ SizeFits(Logicals[l], file.size)
        /\ holds(Logicals[l].expression, Gathered(Logicals[l]))
    BY DEF Holding, Candidates
  <2>2. ~Truncated(file)
    BY <2>1 DEF Searching
  <2>3. holds(Logicals[l].expression, Occurrences(Logicals[l], file))
    BY <1>3, <1>4, <2>1, <2>2
  <2> QED BY <2>1, <2>2, <2>3 DEF Held
<1>5. ASSUME NEW l \in Held(file) \cap exact PROVE l \in Holding
  <2>1. /\ l \in DOMAIN Logicals /\ ~Truncated(file) /\ SizeFits(Logicals[l], file.size)
        /\ holds(Logicals[l].expression, Occurrences(Logicals[l], file))
    BY DEF Held
  <2>2. holds(Logicals[l].expression, Gathered(Logicals[l]))
    BY <1>3, <1>5, <2>1
  <2>3. ~(\A p \in Range(Logicals[l].pieces) : scratch.counts[p] = 0)
    BY <2>1, <2>2, NoPieceNoHold
  <2>4. PICK p \in Range(Logicals[l].pieces) : scratch.counts[p] # 0
    BY <2>3
  <2>5. p \in DOMAIN Signatures
    BY <2>1, PiecesOfLogical
  <2>6. p \in 1..Len(scratch.counts)
    BY <2>5 DEF Searching, IndexOK
  <2>7. p \in scratch.touched
    BY <2>4, <2>6 DEF ScratchOK
  <2> QED BY <2>1, <2>2, <2>4, <2>7 DEF Holding, Candidates
<1> DEFINE m == Min(Holding)
<1>6. Holding # {} => m \in Holding /\ \A l \in Holding : m <= l
  <2>1. Holding \in SUBSET Nat
    BY <1>1
  <2> QED BY <2>1, LeastNumber
<1>7. s.found = IF Holding = {} THEN None ELSE LogicalOf(m)
  OBVIOUS
<1> HIDE DEF m, file
<1>8. s.found \in {None} \cup {Body(i) : i \in Bodies(file)}
                  \cup {LogicalOf(l) : l \in Held(file) \cup (DOMAIN Logicals \ exact)}
  <2>1. CASE Holding = {}
    BY <1>7, <2>1
  <2>2. CASE Holding # {}
    <3>1. m \in Holding /\ m \in DOMAIN Logicals
      BY <1>1, <1>6, <2>2
    <3>2. m \in Held(file) \cup (DOMAIN Logicals \ exact)
      BY <1>4, <3>1
    <3> QED BY <1>7, <2>2, <3>2
  <2> QED BY <2>1, <2>2
<1>9. ASSUME NEW l \in Held(file) \cap exact PROVE \E k \in 1..l : s.found = LogicalOf(k)
  <2>1. l \in Holding /\ Holding # {}
    BY <1>5, <1>9
  <2>2. m \in Holding /\ m <= l
    BY <1>6, <2>1
  <2>3. m \in 1..l
    <3>1. m \in 1..Len(Logicals) /\ l \in 1..Len(Logicals)
      BY <1>1, <2>1, <2>2
    <3> QED BY <1>1, <2>2, <3>1
  <2>4. s.found = LogicalOf(m)
    BY <1>7, <2>1
  <2> QED BY <2>3, <2>4
<1>10. s.file = file
  BY DEF file
<1> QED BY <1>2, <1>8, <1>9, <1>10 DEF AsMeant

\* The logical signatures are judged.
LEMMA JudgeKeeps ==
  ASSUME SearchInv, Judge
  PROVE  SearchInv'
<1>1. scan.phase = "hits"
  BY DEF Judge
<1>2. /\ Searching(scan, scratch) /\ ScratchOK(scratch) /\ IndexOK(Signatures, Logicals)
      /\ index \in Range(Loaded)
  BY <1>1, LoadedIndex DEF SearchInv
<1> DEFINE r == IF Holding = {} THEN None ELSE LogicalOf(Min(Holding))
<1>3. /\ scan' = [phase |-> "done", file |-> scan.file, hits |-> {}, steps |-> scan.steps, found |-> r]
      /\ scratch' = clear(scratch) /\ index' = index /\ scan.hits = {}
  BY <1>2, JudgeIs
<1> HIDE DEF r
<1>4. /\ scan'.phase = "done" /\ scan'.file = scan.file /\ scan'.steps = scan.steps /\ scan'.found = r
  BY <1>3
<1>5. AsMeant(scan')
  <2>1. CASE scan.steps <= MaxSteps
    <3> DEFINE s == scan'
    <3>1. s.file = scan.file /\ s.found = r
      BY <1>4
    <3> HIDE DEF s
    <3>2. AsMeant(s)
      BY <1>2, <1>3, <2>1, <3>1, JudgeAgrees DEF r
    <3> QED BY <3>2 DEF s
  <2>2. CASE ~(scan.steps <= MaxSteps)
    BY <1>4, <2>2 DEF AsMeant
  <2> QED BY <2>1, <2>2
<1>6. ScratchOK(scratch')
  BY <1>2, <1>3, ClearEmpties
<1>7. ScanAgrees' /\ ScratchOK(scratch)' /\ index' \in Range(Loaded)'
  BY <1>2, <1>3, <1>5, <1>6, SameMeaning DEF ScratchOK, Loaded
<1> QED BY <1>4, <1>7 DEF SearchInv

\* A search is over, or panics: nothing of it is left but the scratch.
LEMMA QuietKeeps ==
  ASSUME SearchInv, scan' = Quiet, UNCHANGED <<index, scratch>>
  PROVE  SearchInv'
<1>1. scan'.phase = "off"
  BY DEF Quiet
<1>2. index' \in Range(Loaded)' /\ ScratchOK(scratch)' /\ ScanAgrees'
  BY <1>1 DEF SearchInv, ScratchOK, Loaded, ScanAgrees
<1> QED BY <1>1, <1>2 DEF SearchInv

\* Another index takes its place between searches.
LEMMA ReplaceKeeps ==
  ASSUME SearchInv, Replace
  PROVE  SearchInv'
<1>1. scan'.phase = "off" /\ index' \in Range(Loaded)'
  BY DEF Replace, Loaded
<1>2. ScratchOK(scratch)' /\ ScanAgrees'
  BY <1>1 DEF SearchInv, Replace, ScratchOK, ScanAgrees
<1> QED BY <1>1, <1>2 DEF SearchInv

\* Nothing of it changes.
LEMMA SearchStays ==
  ASSUME SearchInv, UNCHANGED indexVars
  PROVE  SearchInv'
<1>1. index' = index /\ scratch' = scratch /\ scan' = scan
  BY DEF indexVars
<1>2. ScanAgrees'
  <2>1. AsMeant(scan)
    BY DEF SearchInv, ScanAgrees, AsMeant
  <2> QED BY <1>1, <2>1, SameMeaning
<1>3. scan.phase = "hits" => Searching(scan, scratch)'
  <2>1. scan.phase = "hits" => Searching(scan', scratch')
    BY <1>1 DEF SearchInv
  <2> QED BY <1>1, <2>1, SameSearch
<1> QED BY <1>1, <1>2, <1>3 DEF SearchInv, ScratchOK, Loaded

\* A thread begins with an empty scratch and the first index.
LEMMA SearchInit ==
  ASSUME IndexInit PROVE SearchInv
<1>1. index \in Range(Loaded)
  BY IndexAssumption DEF IndexInit, Loaded, Range
<1>2. scan.phase = "off"
  BY DEF IndexInit, Quiet
<1> DEFINE e == <<>>
<1>3. /\ scratch.counts = e /\ scratch.marked = e /\ scratch.touched = {}
      /\ scratch = [counts |-> e, touched |-> {}, marked |-> e, candidates |-> {}]
  BY DEF IndexInit, Scratch
<1>4. Len(e) = 0 /\ e \in [1..Len(e) -> Nat] /\ e = [l \in 1..Len(e) |-> FALSE]
  OBVIOUS
<1> HIDE DEF e
<1>5. ScratchOK(scratch)
  BY <1>3, <1>4 DEF ScratchOK
<1> QED BY <1>1, <1>2, <1>5 DEF SearchInv, ScanAgrees
-----------------------------------------------------------------------------
(* Points.                                                                 *)

Codes ==
  {"lnk.hidden_window", "lnk.padded_arguments", "lnk.script_launch",
   "pdf.automatic_javascript", "pdf.embedded_file", "pdf.javascript", "pdf.launch_action",
   "pe.anti_debug_cluster", "pe.download_and_execute_capability",
   "pe.entrypoint_outside_sections", "pe.entrypoint_writable", "pe.excessive_sections",
   "pe.high_entropy_executable_section", "pe.input_capture_capability",
   "pe.invalid_section_bounds", "pe.large_overlay_with_packing", "pe.legacy_executable",
   "pe.malformed", "pe.no_imports", "pe.no_sections", "pe.packer_section_name",
   "pe.process_injection_capability", "pe.structure_unreadable", "pe.unparsed_prefix",
   "pe.writable_executable_section", "script.constructed_expression",
   "script.decode_and_execute", "script.download_and_execute", "script.encoded_payload",
   "script.lolbin_delivery", "script.stealth_switch_cluster", "script.token_obfuscation"}
EvidenceType == [code : Codes, points : Nat]
PointsBody(s, h) ==
  [t \in SUBSET DOMAIN s |-> IF t = {} THEN 0 ELSE h[t \ {Max(t)}] + s[Max(t)].points]
PointsFold(s) == CHOOSE h : h = PointsBody(s, h)
Adds(s, f) == f[0] = 0 /\ \A i \in 1..Len(s) : f[i] = f[i - 1] + s[i].points

\* Points is a fold.
LEMMA PointsIsFold ==
  ASSUME NEW s
  PROVE  Points(s) = PointsFold(s)[DOMAIN s]
BY DEF Points, FoldLeft, MapThenFoldSet, PointsFold, PointsBody

\* Points adds the points up.
LEMMA PointsAddUp ==
  ASSUME NEW s \in Seq(EvidenceType)
  PROVE  \E f \in [0..Len(s) -> Nat] : Adds(s, f) /\ Points(s) = f[Len(s)]
<1> DEFINE n == Len(s)
           G == [p \in (1..n) \X Nat |-> p[2] + s[p[1]].points]
           H == PointsFold(s)
           f == [i \in 0..n |-> H[1..i]]
<1>1. n \in Nat /\ DOMAIN s = 1..n /\ \A i \in 1..n : s[i].points \in Nat
  <2>1. \A i \in 1..n : s[i] \in EvidenceType
    OBVIOUS
  <2> QED BY <2>1 DEF EvidenceType
<1>2. \A p \in (1..n) \X Nat : p[2] + s[p[1]].points \in Nat
  BY <1>1
<1>3. G \in [(1..n) \X Nat -> Nat] /\ \A i \in 1..n, x \in Nat : G[<<i, x>>] = x + s[i].points
  BY <1>2
<1> HIDE DEF G, n
<1>4. PICK h \in [SUBSET (1..n) -> Nat] : h = FoldBody(G, 0, n, h)
  <2>1. 0 \in Nat /\ IsStep(G, Nat, n)
    BY <1>3 DEF IsStep
  <2>2. HasFold(G, Nat, 0, n)
    BY <1>1, <2>1, FoldExists
  <2> QED BY <2>2 DEF HasFold
<1>5. \A t \in SUBSET (1..n) : t # {} => Max(t) \in 1..n
  <2> SUFFICES ASSUME NEW t \in SUBSET (1..n), t # {} PROVE Max(t) \in 1..n
    OBVIOUS
  <2>1. t \in SUBSET (0..n)
    BY <1>1
  <2> QED BY <1>1, <2>1, BoundedMax
<1>6. h = PointsBody(s, h)
  <2>1. \A t \in SUBSET (1..n) : t # {} => h[t \ {Max(t)}] \in Nat
    BY <1>4
  <2>2. \A t \in SUBSET (1..n) : t # {} => G[<<Max(t), h[t \ {Max(t)}]>>] = h[t \ {Max(t)}] + s[Max(t)].points
    BY <1>3, <1>5, <2>1
  <2>3. \A t \in SUBSET (1..n) : h[t] = IF t = {} THEN 0 ELSE h[t \ {Max(t)}] + s[Max(t)].points
    BY <1>4, <2>2 DEF FoldBody
  <2>4. h = [t \in SUBSET (1..n) |-> h[t]]
    OBVIOUS
  <2> QED BY <1>1, <2>3, <2>4 DEF PointsBody
<1>7. H = PointsBody(s, H)
  BY <1>6 DEF PointsFold
<1> HIDE DEF H
<1>8. \A t \in SUBSET (1..n) : H[t] = IF t = {} THEN 0 ELSE H[t \ {Max(t)}] + s[Max(t)].points
  BY <1>1, <1>7 DEF PointsBody
<1>9. H[1..0] = 0 /\ \A i \in 1..n : H[1..i] = H[1..(i - 1)] + s[i].points
  <2>1. 1..0 = {} /\ {} \in SUBSET (1..n)
    OBVIOUS
  <2>2. H[1..0] = 0
    BY <1>8, <2>1
  <2>3. ASSUME NEW i \in 1..n PROVE H[1..i] = H[1..(i - 1)] + s[i].points
    <3>1. IsInitial(i, n)
      BY <1>1, InitialParts
    <3> QED BY <1>8, <3>1 DEF IsInitial
  <2> QED BY <2>2, <2>3
<1>10. Adds(s, f)
  <2>1. f[0] = 0
    BY <1>1, <1>9
  <2>2. \A i \in 1..n : f[i] = H[1..i] /\ f[i - 1] = H[1..(i - 1)]
    BY <1>1
  <2> HIDE DEF f
  <2> QED BY <1>9, <2>1, <2>2 DEF Adds, n
<1>11. \A i \in 0..n : f[i] \in Nat
  <2> DEFINE Good == {i \in 0..n : f[i] \in Nat}
  <2> HIDE DEF f
  <2>1. 0 \in Good
    BY <1>1, <1>10 DEF Adds
  <2>2. \A i \in 1..n : i - 1 \in Good => i \in Good
    BY <1>1, <1>10 DEF Adds
  <2> HIDE DEF Good
  <2>3. \A i \in 0..n : i \in Good
    BY <1>1, <2>1, <2>2, UpTo
  <2> QED BY <2>3 DEF Good
<1>12. Points(s) = f[n]
  <2>1. Points(s) = H[1..n]
    BY <1>1, PointsIsFold DEF H
  <2> QED BY <1>1, <2>1
<1>13. f \in [0..n -> Nat]
  BY <1>11
<1> HIDE DEF f
<1> QED BY <1>10, <1>12, <1>13 DEF n

\* The points of two pieces of evidence together.
LEMMA PointsOfBoth ==
  ASSUME NEW s \in Seq(EvidenceType), NEW t \in Seq(EvidenceType)
  PROVE  /\ s \o t \in Seq(EvidenceType)
         /\ Points(s) \in Nat /\ Points(t) \in Nat /\ Points(s \o t) = Points(s) + Points(t)
<1> DEFINE u == s \o t
           m == Len(s)
           n == Len(t)
<1>1. u \in Seq(EvidenceType) /\ Len(u) = m + n /\ m \in Nat /\ n \in Nat
  OBVIOUS
<1>2. /\ \A i \in 1..m : u[i] = s[i] /\ s[i].points \in Nat
      /\ \A i \in 1..n : u[m + i] = t[i] /\ t[i].points \in Nat
  <2>1. /\ \A i \in 1..m : u[i] = s[i] /\ s[i] \in EvidenceType
        /\ \A i \in 1..n : u[m + i] = t[i] /\ t[i] \in EvidenceType
    OBVIOUS
  <2> HIDE DEF u, m, n
  <2> QED BY <2>1 DEF EvidenceType
<1>3. PICK f \in [0..m -> Nat] : Adds(s, f) /\ Points(s) = f[m]
  BY PointsAddUp
<1>4. PICK g \in [0..n -> Nat] : Adds(t, g) /\ Points(t) = g[n]
  BY PointsAddUp
<1> HIDE DEF u
<1>5. PICK h \in [0..Len(u) -> Nat] : Adds(u, h) /\ Points(u) = h[Len(u)]
  BY <1>1, PointsAddUp
<1>6. f[0] = 0 /\ \A i \in 1..m : f[i] = f[i - 1] + s[i].points
  BY <1>3 DEF Adds
<1>7. g[0] = 0 /\ \A i \in 1..n : g[i] = g[i - 1] + t[i].points
  BY <1>4 DEF Adds
<1>8. h[0] = 0 /\ \A i \in 1..(m + n) : h[i] = h[i - 1] + u[i].points
  BY <1>1, <1>5 DEF Adds
<1>9. h \in [0..(m + n) -> Nat] /\ Points(u) = h[m + n]
  BY <1>1, <1>5
<1>10. Points(s) = f[m] /\ Points(t) = g[n]
  BY <1>3, <1>4
<1> HIDE DEF m, n
<1>11. h[m] = f[m]
  <2> DEFINE Good == {i \in 0..m : h[i] = f[i]}
  <2>1. 0 \in Good
    BY <1>1, <1>6, <1>8
  <2>2. \A i \in 1..m : i - 1 \in Good => i \in Good
    <3> SUFFICES ASSUME NEW i \in 1..m, i - 1 \in Good PROVE i \in Good
      OBVIOUS
    <3>1. i \in 1..(m + n) /\ i \in 0..m
      BY <1>1
    <3>2. h[i] = h[i - 1] + u[i].points /\ f[i] = f[i - 1] + s[i].points /\ u[i] = s[i]
      BY <1>2, <1>6, <1>8, <3>1
    <3> QED BY <3>1, <3>2
  <2> HIDE DEF Good
  <2>3. \A i \in 0..m : i \in Good
    BY <1>1, <2>1, <2>2, UpTo
  <2> QED BY <1>1, <2>3 DEF Good
<1>12. h[m + n] = f[m] + g[n]
  <2> DEFINE Good == {i \in 0..n : h[m + i] = f[m] + g[i]}
  <2>1. 0 \in Good
    <3>1. m + 0 = m /\ f[m] \in Nat
      BY <1>1
    <3> QED BY <1>1, <1>7, <1>11, <3>1
  <2>2. \A i \in 1..n : i - 1 \in Good => i \in Good
    <3> SUFFICES ASSUME NEW i \in 1..n, i - 1 \in Good PROVE i \in Good
      OBVIOUS
    <3>1. m + i \in 1..(m + n) /\ i \in 0..n /\ i - 1 \in 0..n /\ m + i - 1 = m + (i - 1) /\ m \in 0..m
      BY <1>1
    <3>2. h[m + i] = h[m + (i - 1)] + u[m + i].points /\ g[i] = g[i - 1] + t[i].points /\ u[m + i] = t[i]
      <4>1. h[m + i] = h[m + i - 1] + u[m + i].points
        BY <1>8, <3>1
      <4>2. g[i] = g[i - 1] + t[i].points /\ u[m + i] = t[i]
        BY <1>2, <1>7
      <4> QED BY ONLY <3>1, <4>1, <4>2
    <3>3. h[m + (i - 1)] = f[m] + g[i - 1]
      OBVIOUS
    <3>4. f[m] \in Nat /\ g[i - 1] \in Nat /\ t[i].points \in Nat
      BY <1>2, <3>1
    <3> QED BY <3>1, <3>2, <3>3, <3>4
  <2> HIDE DEF Good
  <2>3. \A i \in 0..n : i \in Good
    BY <1>1, <2>1, <2>2, UpTo
  <2> QED BY <1>1, <2>3 DEF Good
<1>13. m \in 0..m /\ n \in 0..n
  BY <1>1
<1> QED BY <1>1, <1>9, <1>10, <1>12, <1>13 DEF u

\* One piece of evidence, or none.
LEMMA PointsOfOne ==
  ASSUME NEW e \in EvidenceType
  PROVE  /\ <<e>> \in Seq(EvidenceType) /\ Points(<<e>>) = e.points /\ e.points \in Nat
         /\ << >> \in Seq(EvidenceType) /\ Points(<< >>) = 0
<1>1. <<e>> \in Seq(EvidenceType) /\ Len(<<e>>) = 1 /\ <<e>>[1] = e
  OBVIOUS
<1>2. e.points \in Nat
  BY DEF EvidenceType
<1>3. Points(<<e>>) = e.points
  <2>1. PICK f \in [0..Len(<<e>>) -> Nat] : Adds(<<e>>, f) /\ Points(<<e>>) = f[Len(<<e>>)]
    BY <1>1, PointsAddUp
  <2>2. f[0] = 0 /\ f[1] = f[1 - 1] + <<e>>[1].points /\ Points(<<e>>) = f[1]
    BY <1>1, <2>1 DEF Adds
  <2> QED BY <1>1, <1>2, <2>2
<1>4. << >> \in Seq(EvidenceType) /\ Len(<< >>) = 0
  OBVIOUS
<1>5. Points(<< >>) = 0
  <2>1. PICK f \in [0..Len(<< >>) -> Nat] : Adds(<< >>, f) /\ Points(<< >>) = f[Len(<< >>)]
    BY <1>4, PointsAddUp
  <2> QED BY <1>4, <2>1 DEF Adds
<1> QED BY <1>1, <1>2, <1>3, <1>4, <1>5

Milder(s, t) == /\ s \in Seq(EvidenceType) /\ t \in Seq(EvidenceType)
                /\ Points(s) <= Points(t) /\ Range(s) \subseteq Range(t)

\* What is in two sequences together.
LEMMA RangeOfBoth ==
  ASSUME NEW s \in Seq(EvidenceType), NEW t \in Seq(EvidenceType)
  PROVE  Range(s \o t) = Range(s) \cup Range(t)
<1> DEFINE u == s \o t
           m == Len(s)
           n == Len(t)
<1>1. /\ u \in Seq(EvidenceType) /\ DOMAIN u = 1..(m + n) /\ m \in Nat /\ n \in Nat
      /\ DOMAIN s = 1..m /\ DOMAIN t = 1..n
  OBVIOUS
<1>2. \A i \in 1..m : u[i] = s[i]
  OBVIOUS
<1>3. \A i \in 1..n : u[m + i] = t[i]
  OBVIOUS
<1> HIDE DEF u, m, n
<1>4. \A i \in 1..(m + n) : i \in 1..m \/ (i - m \in 1..n /\ m + (i - m) = i)
  BY <1>1
<1>5. /\ \A i \in 1..m : i \in 1..(m + n)
      /\ \A i \in 1..n : m + i \in 1..(m + n)
  BY <1>1
<1>6. Range(u) \subseteq Range(s) \cup Range(t)
  <2> SUFFICES ASSUME NEW i \in 1..(m + n) PROVE u[i] \in Range(s) \cup Range(t)
    BY <1>1 DEF Range
  <2>1. CASE i \in 1..m
    BY <1>1, <1>2, <2>1 DEF Range
  <2>2. CASE i - m \in 1..n /\ m + (i - m) = i
    <3>1. u[i] = t[i - m]
      BY <1>3, <2>2
    <3> QED BY <1>1, <2>2, <3>1 DEF Range
  <2> QED BY <1>4, <2>1, <2>2
<1>7. Range(s) \cup Range(t) \subseteq Range(u)
  <2>1. \A i \in 1..m : s[i] \in Range(u)
    BY <1>1, <1>2, <1>5 DEF Range
  <2>2. \A i \in 1..n : t[i] \in Range(u)
    BY <1>1, <1>3, <1>5 DEF Range
  <2> QED BY <1>1, <2>1, <2>2 DEF Range
<1> QED BY <1>6, <1>7 DEF u

\* Evidence that is milder piece by piece is milder.
LEMMA MilderTogether ==
  ASSUME NEW s, NEW t, NEW u, NEW v, Milder(s, t), Milder(u, v)
  PROVE  Milder(s \o u, t \o v)
<1>1. /\ s \in Seq(EvidenceType) /\ t \in Seq(EvidenceType) /\ u \in Seq(EvidenceType)
      /\ v \in Seq(EvidenceType) /\ Points(s) <= Points(t) /\ Points(u) <= Points(v)
  BY DEF Milder
<1>2. /\ s \o u \in Seq(EvidenceType) /\ Points(s) \in Nat /\ Points(u) \in Nat
      /\ Points(s \o u) = Points(s) + Points(u)
  BY <1>1, PointsOfBoth
<1>3. /\ t \o v \in Seq(EvidenceType) /\ Points(t) \in Nat /\ Points(v) \in Nat
      /\ Points(t \o v) = Points(t) + Points(v)
  BY <1>1, PointsOfBoth
<1>4. Points(s \o u) <= Points(t \o v)
  <2>1. \A a, b, c, d \in Nat : a <= b /\ c <= d => a + c <= b + d
    OBVIOUS
  <2> QED BY <1>1, <1>2, <1>3, <2>1
<1>5. Range(s \o u) \subseteq Range(t \o v)
  <2>1. Range(s) \subseteq Range(t) /\ Range(u) \subseteq Range(v)
    BY DEF Milder
  <2>2. Range(s \o u) = Range(s) \cup Range(u) /\ Range(t \o v) = Range(t) \cup Range(v)
    BY <1>1, RangeOfBoth
  <2> QED BY <2>1, <2>2
<1> QED BY <1>2, <1>3, <1>4, <1>5 DEF Milder

\* One piece of evidence, or none.
LEMMA MilderPiece ==
  ASSUME NEW e \in EvidenceType
  PROVE  Milder(<<e>>, <<e>>) /\ Milder(<< >>, <<e>>) /\ Milder(<< >>, << >>)
<1>1. Range(<< >>) = {}
  <2>1. DOMAIN << >> = {}
    OBVIOUS
  <2> QED BY <2>1 DEF Range
<1> QED BY <1>1, PointsOfOne DEF Milder

\* The same evidence.
LEMMA MilderSame ==
  ASSUME NEW s \in Seq(EvidenceType) PROVE Milder(s, s) /\ Points(s) \in Nat
<1>1. Points(s) \in Nat
  BY PointsOfBoth
<1> QED BY <1>1 DEF Milder

MilderEach(s, t) == \A i \in 1..Len(s) : Milder(s[i], t[i])

\* Evidence that is milder sequence by sequence is milder.
LEMMA MilderFlattened ==
  ASSUME NEW s \in Seq(Seq(EvidenceType)), NEW t \in Seq(Seq(EvidenceType)), Len(s) = Len(t),
         MilderEach(s, t)
  PROVE  Milder(FlattenSeq(s), FlattenSeq(t))
<1> DEFINE n == Len(s)
           f == Flattening(s)
           g == Flattening(t)
           Good == {i \in 0..n : i # 0 => Milder(f[i], g[i])}
<1>1. n \in Nat /\ n = Len(t) /\ \A i \in 1..n : Milder(s[i], t[i])
  BY DEF MilderEach
<1>2. \A i \in 1..n : f[i] = IF i = 1 THEN s[i] ELSE f[i - 1] \o s[i]
  BY FlattenExists
<1>3. \A i \in 1..n : g[i] = IF i = 1 THEN t[i] ELSE g[i - 1] \o t[i]
  BY <1>1, FlattenExists
<1> HIDE DEF n, f, g
<1>4. 0 \in Good
  BY <1>1
<1>5. ASSUME NEW i \in 1..n, i - 1 \in Good PROVE i \in Good
  <2>1. CASE i = 1
    <3>1. f[i] = s[i] /\ g[i] = t[i] /\ i \in 0..n
      BY <1>1, <1>2, <1>3, <2>1
    <3> QED BY <1>1, <3>1
  <2>2. CASE i # 1
    <3>1. f[i] = f[i - 1] \o s[i]
      BY <1>2, <2>2
    <3>4. g[i] = g[i - 1] \o t[i]
      BY <1>3, <2>2
    <3>5. i \in 0..n
      BY <1>1
    <3>2. Milder(f[i - 1], g[i - 1]) /\ Milder(s[i], t[i])
      BY <1>1, <1>5, <2>2
    <3>3. Milder(f[i - 1] \o s[i], g[i - 1] \o t[i])
      BY <3>2, MilderTogether
    <3> QED BY <3>1, <3>3, <3>4, <3>5
  <2> QED BY <2>1, <2>2
<1> HIDE DEF Good
<1>6. \A i \in 0..n : i \in Good
  BY <1>1, <1>4, <1>5, UpTo
<1>7. CASE n = 0
  <2>3. Len(s) = 0 /\ Len(t) = 0
    BY <1>7 DEF n
  <2>1. s = << >> /\ t = << >> /\ << >> \in Seq(EvidenceType)
    BY <2>3
  <2>2. FlattenSeq(s) = << >> /\ FlattenSeq(t) = << >>
    BY <1>1, <1>7, <2>1, FlattenIs DEF n
  <2> QED BY <2>1, <2>2, MilderSame
<1>8. CASE n # 0
  <2>1. FlattenSeq(s) = f[n]
    BY <1>8, FlattenIs DEF n, f
  <2>2. FlattenSeq(t) = g[n]
    BY <1>1, <1>8, FlattenIs DEF n, g
  <2>3. n \in Good
    BY <1>1, <1>6
  <2>4. Milder(f[n], g[n])
    BY <1>8, <2>3 DEF Good
  <2> QED BY <2>1, <2>2, <2>4
<1> QED BY <1>7, <1>8

\* One piece of evidence, or none.
LEMMA MilderGiven ==
  ASSUME NEW code, NEW p, code \in Codes, p \in Nat
  PROVE  /\ Milder(E(code, p), E(code, p)) /\ Milder(<< >>, E(code, p)) /\ Milder(<< >>, << >>)
         /\ E(code, p) \in Seq(EvidenceType) /\ << >> \in Seq(EvidenceType)
         /\ Points(E(code, p)) = p
<1>1. [code |-> code, points |-> p] \in EvidenceType
  BY DEF EvidenceType
<1> QED BY <1>1, MilderPiece, PointsOfOne DEF E

\* A section of a program looks no worse for less of it having been read.
LEMMA SectionMilder ==
  ASSUME NEW pe, NEW s \in SectionType, NEW size \in Nat, NEW read \in 0..size
  PROVE  Milder(section_evidence(pe, s, read, size), section_evidence(pe, s, size, size))
<1> DEFINE end == s.raw + s.size
           span == IF s.virtual > s.size THEN s.virtual ELSE s.size
           a == pe.entry \in s.at..(s.at + span - 1) /\ s.writable
           b == s.executable /\ s.writable
           c == s.packer
           d(n) == end > n /\ end > size
           e(n) == end <= n /\ s.executable /\ s.size >= MinEntropyBytes /\ s.dense
           ev(n) == When(a, "pe.entrypoint_writable", 20)
             \o When(b, "pe.writable_executable_section", 18)
             \o When(c, "pe.packer_section_name", 20)
             \o When(d(n), "pe.invalid_section_bounds", 25)
             \o When(e(n), "pe.high_entropy_executable_section", 15)
<1>1. end \in Nat
  BY DEF SectionType
<1>2. (d(read) => d(size)) /\ (e(read) => e(size))
  BY <1>1
<1>3. section_evidence(pe, s, read, size) = ev(read) /\ section_evidence(pe, s, size, size) = ev(size)
  BY DEF section_evidence
<1> HIDE DEF end, span, a, b, c, d, e
<1>14. /\ "pe.entrypoint_writable" \in Codes /\ "pe.writable_executable_section" \in Codes
       /\ "pe.packer_section_name" \in Codes /\ "pe.invalid_section_bounds" \in Codes
       /\ "pe.high_entropy_executable_section" \in Codes
  BY DEF Codes
<1>4. Milder(When(a, "pe.entrypoint_writable", 20), When(a, "pe.entrypoint_writable", 20))
  BY <1>14, MilderGiven DEF When
<1>5. Milder(When(b, "pe.writable_executable_section", 18), When(b, "pe.writable_executable_section", 18))
  BY <1>14, MilderGiven DEF When
<1>6. Milder(When(c, "pe.packer_section_name", 20), When(c, "pe.packer_section_name", 20))
  BY <1>14, MilderGiven DEF When
<1>7. Milder(When(d(read), "pe.invalid_section_bounds", 25), When(d(size), "pe.invalid_section_bounds", 25))
  BY <1>2, <1>14, MilderGiven DEF When
<1>8. Milder(When(e(read), "pe.high_entropy_executable_section", 15),
             When(e(size), "pe.high_entropy_executable_section", 15))
  BY <1>2, <1>14, MilderGiven DEF When
<1>9. Milder(ev(read), ev(size))
  BY <1>4, <1>5, <1>6, <1>7, <1>8, MilderTogether
<1> QED BY <1>3, <1>9

\* What is imported gives points of its own.
LEMMA ImportEvidence ==
  ASSUME NEW imports PROVE analyze_import_set(imports) \in Seq(EvidenceType)
<1> DEFINE stages == Cardinality(imports \cap {"allocate", "write", "run"})
           a == imports = {}
           b == stages >= 2
           p == IF stages = 3 THEN 38 ELSE 25
           c == {"download", "execute"} \subseteq imports
           d == {"keys", "hook"} \subseteq imports
           e == Cardinality(imports \cap {"debugger", "remote_debugger"}) >= 2
<1>1. analyze_import_set(imports) =
        When(a, "pe.no_imports", 6) \o When(b, "pe.process_injection_capability", p)
          \o When(c, "pe.download_and_execute_capability", 22)
          \o When(d, "pe.input_capture_capability", 18) \o When(e, "pe.anti_debug_cluster", 10)
  BY DEF analyze_import_set
<1>2. p \in Nat
  OBVIOUS
<1> HIDE DEF a, b, c, d, e, p
<1>14. /\ "pe.no_imports" \in Codes /\ "pe.process_injection_capability" \in Codes
       /\ "pe.download_and_execute_capability" \in Codes
       /\ "pe.input_capture_capability" \in Codes /\ "pe.anti_debug_cluster" \in Codes
  BY DEF Codes
<1>3. /\ When(a, "pe.no_imports", 6) \in Seq(EvidenceType)
      /\ When(b, "pe.process_injection_capability", p) \in Seq(EvidenceType)
      /\ When(c, "pe.download_and_execute_capability", 22) \in Seq(EvidenceType)
      /\ When(d, "pe.input_capture_capability", 18) \in Seq(EvidenceType)
      /\ When(e, "pe.anti_debug_cluster", 10) \in Seq(EvidenceType)
  BY <1>2, <1>14, MilderGiven DEF When
<1> QED BY <1>1, <1>3, PointsOfBoth

\* The end of the last section is a number.
RawEnds(sections) == {0} \cup {sections[i].raw + sections[i].size : i \in DOMAIN sections}

\* The last section ends somewhere.
LEMMA RawEnd ==
  ASSUME NEW sections \in Seq(SectionType) PROVE Max(RawEnds(sections)) \in Nat
<1> DEFINE n == Len(sections)
           end(i) == sections[i].raw + sections[i].size
           Good == {i \in 0..n : \E m \in Nat : \A j \in 1..i : end(j) <= m}
<1>1. n \in Nat /\ DOMAIN sections = 1..n
  OBVIOUS
<1>2. \A i \in 1..n : end(i) \in Nat
  <2>1. \A i \in 1..n : sections[i] \in SectionType
    OBVIOUS
  <2> QED BY <2>1 DEF SectionType
<1> HIDE DEF n, end
<1>3. 0 \in Good
  <2>1. \A j \in 1..0 : end(j) <= 0
    OBVIOUS
  <2> QED BY <1>1, <2>1
<1>4. ASSUME NEW i \in 1..n, i - 1 \in Good PROVE i \in Good
  <2>1. PICK m \in Nat : \A j \in 1..(i - 1) : end(j) <= m
    BY <1>4
  <2>2. \A j \in 1..i : end(j) <= m + end(i)
    <3> SUFFICES ASSUME NEW j \in 1..i PROVE end(j) <= m + end(i)
      OBVIOUS
    <3>1. end(j) \in Nat /\ end(i) \in Nat
      BY <1>1, <1>2
    <3>2. j = i \/ j \in 1..(i - 1)
      OBVIOUS
    <3> QED BY <2>1, <3>1, <3>2
  <2>3. m + end(i) \in Nat /\ i \in 0..n
    BY <1>1, <1>2
  <2> QED BY <2>2, <2>3
<1> HIDE DEF Good
<1>5. n \in Good
  <2>1. \A i \in 0..n : i \in Good
    BY <1>1, <1>3, <1>4, UpTo
  <2> QED BY <1>1, <2>1
<1>6. PICK m \in Nat : \A j \in 1..n : end(j) <= m
  BY <1>5 DEF Good
<1>7. RawEnds(sections) = {0} \cup {end(i) : i \in 1..n}
  BY <1>1 DEF RawEnds, end
<1>8. RawEnds(sections) \in SUBSET (0..m) /\ RawEnds(sections) # {}
  <2>1. \A i \in 1..n : end(i) \in 0..m
    BY <1>2, <1>6
  <2> QED BY <1>7, <2>1
<1>9. Max(RawEnds(sections)) \in RawEnds(sections)
  BY <1>8, BoundedMax
<1> QED BY <1>8, <1>9

SectionsOf(pe, read, size) ==
  [i \in DOMAIN pe.sections |-> section_evidence(pe, pe.sections[i], read, size)]
Packed(of, n) == \E i \in 1..n : \E e \in Range(of[i]) :
                   e.code \in {"pe.packer_section_name", "pe.high_entropy_executable_section"}
Overlay(end, read, packed) ==
  end < read /\ read - end >= MinOverlay /\ (read - end) * 100 >= 30 * read /\ packed
Outside(pe) ==
  ~(pe.entry = 0 \/ \E i \in DOMAIN pe.sections :
      pe.entry \in pe.sections[i].at..(pe.sections[i].at
                     + Max({pe.sections[i].virtual, pe.sections[i].size}) - 1))
ParsedEvidence(pe, read, size) ==
  When(pe.sections = <<>>, "pe.no_sections", 35)
    \o When(Len(pe.sections) > MaxSections, "pe.excessive_sections", 15)
    \o FlattenSeq(SectionsOf(pe, read, size))
    \o When(Outside(pe), "pe.entrypoint_outside_sections", 25)
    \o When(Overlay(Max(RawEnds(pe.sections)), read, Packed(SectionsOf(pe, read, size), Len(pe.sections))),
            "pe.large_overlay_with_packing", 8)
    \o analyze_import_set(pe.imports)
UnparsedEvidence(pe, read, size) ==
  IF size > read THEN E("pe.unparsed_prefix", 0)
  ELSE IF pe.legacy THEN E("pe.legacy_executable", 0)
  ELSE IF pe.plausible THEN E("pe.structure_unreadable", 30) ELSE E("pe.malformed", 55)

\* The sections of a program, together, look no worse for less of it having
\* been read.
LEMMA SectionsMilder ==
  ASSUME NEW pe, pe.sections \in Seq(SectionType), NEW size \in Nat, NEW read \in 0..size
  PROVE  /\ Milder(FlattenSeq(SectionsOf(pe, read, size)), FlattenSeq(SectionsOf(pe, size, size)))
         /\ Packed(SectionsOf(pe, read, size), Len(pe.sections))
              => Packed(SectionsOf(pe, size, size), Len(pe.sections))
<1> DEFINE s == SectionsOf(pe, read, size)
           t == SectionsOf(pe, size, size)
           n == Len(pe.sections)
<1>1. n \in Nat /\ DOMAIN pe.sections = 1..n /\ \A i \in 1..n : pe.sections[i] \in SectionType
  OBVIOUS
<1>2. \A i \in 1..n : /\ s[i] = section_evidence(pe, pe.sections[i], read, size)
                      /\ t[i] = section_evidence(pe, pe.sections[i], size, size)
  BY <1>1 DEF SectionsOf
<1>3. s = [i \in 1..n |-> s[i]] /\ t = [i \in 1..n |-> t[i]]
  BY <1>1 DEF SectionsOf
<1> HIDE DEF s, t, n
<1>4. \A i \in 1..n : Milder(s[i], t[i])
  BY <1>1, <1>2, SectionMilder
<1>5. \A i \in 1..n : /\ s[i] \in Seq(EvidenceType) /\ t[i] \in Seq(EvidenceType)
                      /\ Range(s[i]) \subseteq Range(t[i])
  BY <1>4 DEF Milder
<1>6. s \in Seq(Seq(EvidenceType)) /\ t \in Seq(Seq(EvidenceType)) /\ Len(s) = n /\ Len(t) = n
  <2>1. s \in [1..n -> Seq(EvidenceType)] /\ t \in [1..n -> Seq(EvidenceType)]
    BY <1>3, <1>5
  <2> QED BY <1>1, <2>1
<1>7. Milder(FlattenSeq(s), FlattenSeq(t))
  <2>1. MilderEach(s, t)
    BY <1>4, <1>6 DEF MilderEach
  <2> QED BY <1>6, <2>1, MilderFlattened
<1>8. Packed(s, n) => Packed(t, n)
  BY <1>5 DEF Packed
<1> QED BY <1>7, <1>8 DEF s, t, n

\* What is said of a program that is parsed or is not.
LEMMA ProgramEvidence ==
  ASSUME NEW pe, pe.sections \in Seq(SectionType), NEW read, NEW size
  PROVE  analyze_pe(pe, read, size) = IF Parses(pe, read) THEN ParsedEvidence(pe, read, size)
                                      ELSE UnparsedEvidence(pe, read, size)
<1>1. DOMAIN SectionsOf(pe, read, size) = DOMAIN pe.sections /\ DOMAIN pe.sections = 1..Len(pe.sections)
  BY DEF SectionsOf
<1>2. Packed(SectionsOf(pe, read, size), Len(pe.sections)) <=>
        \E i \in DOMAIN pe.sections : \E e \in Range(SectionsOf(pe, read, size)[i]) :
          e.code \in {"pe.packer_section_name", "pe.high_entropy_executable_section"}
  BY <1>1 DEF Packed
<1> QED BY <1>2 DEF analyze_pe, ParsedEvidence, UnparsedEvidence, Overlay, Outside, RawEnds,
     SectionsOf

\* A program looks no worse for less of it having been read.
LEMMA ProgramMilder ==
  ASSUME NEW pe, pe.sections \in Seq(SectionType), pe.tables \in Nat,
         NEW size \in Nat, NEW read \in 0..size
  PROVE  Milder(analyze_pe(pe, read, size), analyze_pe(pe, size, size))
         \/ /\ analyze_pe(pe, read, size) = E("pe.unparsed_prefix", 0)
            /\ Points(analyze_pe(pe, read, size)) <= Points(analyze_pe(pe, size, size))
            /\ analyze_pe(pe, read, size) \in Seq(EvidenceType)
<1> DEFINE n == Len(pe.sections)
           end == Max(RawEnds(pe.sections))
           o(k) == Overlay(end, k, Packed(SectionsOf(pe, k, size), n))
           a == pe.sections = <<>>
           b == n > MaxSections
           c == Outside(pe)
           i == analyze_import_set(pe.imports)
<1>1. end \in Nat
  BY RawEnd
<1>2. /\ "pe.no_sections" \in Codes /\ "pe.excessive_sections" \in Codes
      /\ "pe.entrypoint_outside_sections" \in Codes /\ "pe.large_overlay_with_packing" \in Codes
  BY DEF Codes
<1>3. /\ "pe.unparsed_prefix" \in Codes /\ "pe.legacy_executable" \in Codes
      /\ "pe.structure_unreadable" \in Codes /\ "pe.malformed" \in Codes
  BY DEF Codes
<1>4. Milder(FlattenSeq(SectionsOf(pe, read, size)), FlattenSeq(SectionsOf(pe, size, size)))
  BY SectionsMilder
<1>5. Packed(SectionsOf(pe, read, size), n) => Packed(SectionsOf(pe, size, size), n)
  BY SectionsMilder
<1>6. o(read) => o(size)
  <2> DEFINE p == Packed(SectionsOf(pe, read, size), n)
             q == Packed(SectionsOf(pe, size, size), n)
  <2> HIDE DEF p, q, end
  <2>1. MinOverlay \in Nat
    BY StaticAssumption
  <2>2. Overlay(end, read, p) => Overlay(end, size, q)
    BY <1>1, <1>5, <2>1 DEF Overlay, p, q
  <2> QED BY <2>2 DEF p, q
<1> HIDE DEF o, a, b, c, n
<1>7. Milder(i, i)
  BY ImportEvidence, MilderSame
<1> HIDE DEF i
<1>8. Milder(When(a, "pe.no_sections", 35), When(a, "pe.no_sections", 35))
  BY <1>2, MilderGiven DEF When
<1>9. Milder(When(b, "pe.excessive_sections", 15), When(b, "pe.excessive_sections", 15))
  BY <1>2, MilderGiven DEF When
<1>10. Milder(When(c, "pe.entrypoint_outside_sections", 25), When(c, "pe.entrypoint_outside_sections", 25))
  BY <1>2, MilderGiven DEF When
<1>11. Milder(When(o(read), "pe.large_overlay_with_packing", 8), When(o(size), "pe.large_overlay_with_packing", 8))
  BY <1>2, <1>6, MilderGiven DEF When
<1>12. Milder(ParsedEvidence(pe, read, size), ParsedEvidence(pe, size, size))
  <2>1. \A k : ParsedEvidence(pe, k, size) =
          When(a, "pe.no_sections", 35) \o When(b, "pe.excessive_sections", 15)
            \o FlattenSeq(SectionsOf(pe, k, size)) \o When(c, "pe.entrypoint_outside_sections", 25)
            \o When(o(k), "pe.large_overlay_with_packing", 8) \o i
    BY DEF ParsedEvidence, a, b, c, o, i, n
  <2>2. Milder(When(a, "pe.no_sections", 35) \o When(b, "pe.excessive_sections", 15),
               When(a, "pe.no_sections", 35) \o When(b, "pe.excessive_sections", 15))
    BY <1>8, <1>9, MilderTogether
  <2>3. Milder(When(a, "pe.no_sections", 35) \o When(b, "pe.excessive_sections", 15)
                 \o FlattenSeq(SectionsOf(pe, read, size)),
               When(a, "pe.no_sections", 35) \o When(b, "pe.excessive_sections", 15)
                 \o FlattenSeq(SectionsOf(pe, size, size)))
    BY <1>4, <2>2, MilderTogether
  <2> QED BY <1>7, <1>10, <1>11, <2>1, <2>3, MilderTogether
<1>13. Milder(E("pe.unparsed_prefix", 0), E("pe.unparsed_prefix", 0))
  BY <1>3, MilderGiven
<1>14. UnparsedEvidence(pe, size, size) \in Seq(EvidenceType)
  BY <1>3, MilderGiven DEF UnparsedEvidence
<1>15. ParsedEvidence(pe, size, size) \in Seq(EvidenceType)
  BY <1>12 DEF Milder
<1>16. CASE read = size
  <2>1. analyze_pe(pe, size, size) \in Seq(EvidenceType)
    BY <1>14, <1>15, ProgramEvidence
  <2>2. Milder(analyze_pe(pe, size, size), analyze_pe(pe, size, size))
    BY <2>1, MilderSame
  <2> QED BY <1>16, <2>2
<1>17. CASE read # size /\ ~Parses(pe, read)
  <2>1. analyze_pe(pe, read, size) = E("pe.unparsed_prefix", 0)
    BY <1>17, ProgramEvidence DEF UnparsedEvidence
  <2>2. Points(E("pe.unparsed_prefix", 0)) = 0
    BY <1>3, MilderGiven
  <2>3. analyze_pe(pe, size, size) \in Seq(EvidenceType)
    BY <1>14, <1>15, ProgramEvidence
  <2>4. Points(analyze_pe(pe, size, size)) \in Nat
    BY <2>3, MilderSame
  <2>5. E("pe.unparsed_prefix", 0) \in Seq(EvidenceType)
    BY <1>3, MilderGiven
  <2> QED BY <2>1, <2>2, <2>4, <2>5
<1>18. CASE Parses(pe, read)
  <2>1. Parses(pe, size)
    BY <1>18 DEF Parses
  <2>2. /\ analyze_pe(pe, read, size) = ParsedEvidence(pe, read, size)
        /\ analyze_pe(pe, size, size) = ParsedEvidence(pe, size, size)
    BY <1>18, <2>1, ProgramEvidence
  <2> QED BY <1>12, <2>2
<1> QED BY <1>16, <1>17, <1>18

\* near, of two sets of places, is about some two of them.
LEMMA NearIsNear ==
  ASSUME NEW left \in SUBSET Nat, NEW right \in SUBSET Nat, NEW window \in Nat
  PROVE  near(left, right, window) <=> \E i \in left, j \in right : i - j \in (-window)..window
<1>1. ASSUME NEW at \in left
      PROVE  LET after == {other \in right : other >= at}
                 before == {other \in right : other < at}
             IN  (\/ after # {} /\ Min(after) - at <= window
                  \/ before # {} /\ at - Max(before) <= window)
                 <=> \E j \in right : at - j \in (-window)..window
  <2> DEFINE after == {other \in right : other >= at}
             before == {other \in right : other < at}
  <2>1. at \in Nat /\ after \in SUBSET Nat /\ before \in SUBSET (0..at)
    <3>1. at \in Nat /\ after \in SUBSET Nat
      OBVIOUS
    <3>2. \A other \in right : other < at => other \in 0..at
      BY <3>1
    <3> QED BY <3>1, <3>2
  <2>2. after # {} => Min(after) \in after /\ \A y \in after : Min(after) <= y
    BY <2>1, LeastNumber
  <2>3. before # {} => Max(before) \in before /\ \A y \in before : y <= Max(before)
    BY <2>1, BoundedMax
  <2>4. ASSUME after # {}, Min(after) - at <= window
        PROVE  \E j \in right : at - j \in (-window)..window
    <3>1. Min(after) \in right /\ Min(after) >= at /\ Min(after) \in Nat
      BY <2>2, <2>4
    <3>2. at - Min(after) \in (-window)..window
      BY <2>1, <2>4, <3>1
    <3> QED BY <3>1, <3>2
  <2>5. ASSUME before # {}, at - Max(before) <= window
        PROVE  \E j \in right : at - j \in (-window)..window
    <3>1. Max(before) \in right /\ Max(before) < at /\ Max(before) \in Nat
      BY <2>3, <2>5
    <3>2. at - Max(before) \in (-window)..window
      BY <2>1, <2>5, <3>1
    <3> QED BY <3>1, <3>2
  <2>6. ASSUME NEW j \in right, at - j \in (-window)..window
        PROVE  \/ after # {} /\ Min(after) - at <= window
               \/ before # {} /\ at - Max(before) <= window
    <3>1. j \in Nat
      OBVIOUS
    <3>2. CASE j >= at
      <4>1. j \in after
        BY <3>2
      <4>2. Min(after) <= j /\ Min(after) \in Nat
        BY <2>1, <2>2, <4>1
      <4> HIDE DEF after, before
      <4> QED BY <2>1, <2>6, <3>1, <4>1, <4>2
    <3>3. CASE j < at
      <4>1. j \in before
        BY <3>3
      <4>2. j <= Max(before) /\ Max(before) \in Nat
        BY <2>1, <2>3, <4>1
      <4> HIDE DEF after, before
      <4> QED BY <2>1, <2>6, <3>1, <4>1, <4>2
    <3> QED BY <2>1, <3>1, <3>2, <3>3
  <2> HIDE DEF after, before
  <2>7. (\/ after # {} /\ Min(after) - at <= window
         \/ before # {} /\ at - Max(before) <= window)
        <=> \E j \in right : at - j \in (-window)..window
    BY <2>4, <2>5, <2>6
  <2> QED BY <2>7 DEF after, before
<1> QED BY <1>1 DEF near

\* The positions near is given are places of the words, and all of them where the
\* words are few.
LEMMA PositionsAre ==
  ASSUME NEW text, IsFiniteSet(text.marks), \A w \in text.marks : {w.at, w.needle} \subseteq Nat,
         NEW kind
  PROVE  /\ positions(text, kind) \subseteq At(text, kind)
         /\ Few(text, kind) => positions(text, kind) = At(text, kind)
<1> DEFINE marks == Marks(text, kind)
           kept == {v \in marks : Cardinality(Ahead(marks, v)) < MostPositions}
<1>1. /\ positions(text, kind) = {w.at : w \in kept} /\ kept \subseteq marks
      /\ At(text, kind) = {w.at : w \in marks}
  BY DEF positions, At
<1>2. IsFiniteSet(marks)
  BY FS_Subset DEF Marks
<1>3. ASSUME Few(text, kind), NEW v \in marks
      PROVE  v \in kept
  <2>1. Ahead(marks, v) \subseteq marks \ {v}
    <3>1. v.at \in Nat /\ v.needle \in Nat
      BY DEF Marks
    <3> QED BY <3>1 DEF Ahead
  <2>2. IsFiniteSet(marks \ {v}) /\ Cardinality(marks \ {v}) = Cardinality(marks) - 1
    BY <1>2, FS_RemoveElement
  <2>3. Cardinality(Ahead(marks, v)) <= Cardinality(marks \ {v})
    BY <2>1, <2>2, FS_Subset
  <2>4. /\ Cardinality(marks) \in Nat /\ Cardinality(Ahead(marks, v)) \in Nat
        /\ MostPositions \in Nat
    BY <1>2, <2>1, <2>2, FS_Subset, FS_CardinalityType, StaticAssumption
  <2> QED BY <1>3, <2>2, <2>3, <2>4 DEF Few
<1> HIDE DEF marks, kept
<1> QED BY <1>1, <1>3

\* What StaticAgrees says of one content.
LEMMA StaticFacts ==
  ASSUME NEW shape, IsShape(shape), NEW size \in Nat
  PROVE  PrefixesMilder(shape, size) /\ NearMeansNear(shape)
<1>1. PrefixesMilder(shape, size)
  <2> SUFFICES ASSUME shape.kind = "pe", NEW read \in 0..size
               PROVE  Points(Evidence(shape, read, size)) <= Points(Evidence(shape, size, size))
    BY DEF PrefixesMilder
  <2>1. /\ Evidence(shape, read, size) = analyze_pe(shape, read, size)
        /\ Evidence(shape, size, size) = analyze_pe(shape, size, size)
    BY DEF Evidence
  <2>2. shape.sections \in Seq(SectionType) /\ shape.tables \in Nat
    BY DEF IsShape
  <2>3. Points(analyze_pe(shape, read, size)) <= Points(analyze_pe(shape, size, size))
    BY <2>2, ProgramMilder DEF Milder
  <2> QED BY <2>1, <2>3
<1>2. NearMeansNear(shape)
  <2> SUFFICES ASSUME shape.kind = "text", NEW p, NEW q
               PROVE  LET found == near(positions(shape, p), positions(shape, q), Nearby)
                      IN  /\ found => Together(shape, p, q)
                          /\ Together(shape, p, q) /\ Few(shape, p) /\ Few(shape, q) => found
    BY DEF NearMeansNear
  <2> DEFINE found == near(positions(shape, p), positions(shape, q), Nearby)
  <2>1. IsFiniteSet(shape.marks) /\ \A w \in shape.marks : {w.at, w.needle} \subseteq Nat
    BY DEF IsShape
  <2>2. At(shape, p) \in SUBSET Nat /\ At(shape, q) \in SUBSET Nat
    BY <2>1 DEF At, Marks
  <2>3. /\ positions(shape, p) \subseteq At(shape, p) /\ positions(shape, q) \subseteq At(shape, q)
        /\ Few(shape, p) => positions(shape, p) = At(shape, p)
        /\ Few(shape, q) => positions(shape, q) = At(shape, q)
    BY <2>1, PositionsAre
  <2>4. Nearby \in Nat
    BY StaticAssumption
  <2>5. found <=> \E i \in positions(shape, p), j \in positions(shape, q) : i - j \in (-Nearby)..Nearby
    BY <2>2, <2>3, <2>4, NearIsNear
  <2> HIDE DEF found
  <2>6. found => Together(shape, p, q)
    BY <2>3, <2>5 DEF Together
  <2>7. Together(shape, p, q) /\ Few(shape, p) /\ Few(shape, q) => found
    BY <2>3, <2>5 DEF Together
  <2> QED BY <2>6, <2>7 DEF found
<1> QED BY <1>1, <1>2

-----------------------------------------------------------------------------
(* A PDF.                                                                  *)

Inflate(acc, stream) ==
  IF acc.streams >= MaxPdfStreams \/ acc.expanded >= MaxPdfExpanded THEN acc
  ELSE LET n == AtMost(Len(stream), StreamBudget(acc.expanded)) IN
       [streams |-> acc.streams + 1, expanded |-> acc.expanded + n,
        names |-> acc.names \cup Range(SubSeq(stream, 1, n))]
Uninflated(pdf) == [streams |-> 0, expanded |-> 0, names |-> pdf.names]
PdfBody(pdf, h) ==
  [t \in SUBSET DOMAIN pdf.streams |->
     IF t = {} THEN Uninflated(pdf) ELSE Inflate(h[t \ {Max(t)}], pdf.streams[Max(t)])]
PdfFold(pdf) == CHOOSE h : h = PdfBody(pdf, h)
Inflated(pdf) ==
  [streams : 0..MaxPdfStreams, expanded : 0..MaxPdfExpanded, names : SUBSET (pdf.names \cup STRING)]

\* The names of a PDF are a fold over its streams.
LEMMA PdfIsFold ==
  ASSUME NEW pdf
  PROVE  expand_pdf(pdf) = PdfFold(pdf)[DOMAIN pdf.streams]
BY DEF expand_pdf, FoldLeft, MapThenFoldSet, PdfFold, PdfBody, Inflate, Uninflated

\* One stream is inflated within the budgets.
LEMMA InflateStays ==
  ASSUME NEW pdf, NEW acc \in Inflated(pdf), NEW stream \in Seq(STRING)
  PROVE  Inflate(acc, stream) \in Inflated(pdf)
<1> DEFINE n == AtMost(Len(stream), StreamBudget(acc.expanded))
<1>1. {MaxPdfStream, MaxPdfExpanded, MaxPdfStreams} \subseteq Nat
  BY StaticAssumption
<1>2. /\ acc.streams \in 0..MaxPdfStreams /\ acc.expanded \in 0..MaxPdfExpanded
      /\ acc.names \in SUBSET (pdf.names \cup STRING)
  BY DEF Inflated
<1>3. CASE acc.streams >= MaxPdfStreams \/ acc.expanded >= MaxPdfExpanded
  BY <1>3 DEF Inflate
<1>4. CASE ~(acc.streams >= MaxPdfStreams \/ acc.expanded >= MaxPdfExpanded)
  <2>1. n \in 0..(MaxPdfExpanded - acc.expanded) /\ n \in 0..Len(stream)
    <3>1. Len(stream) \in Nat
      OBVIOUS
    <3> QED BY <1>1, <1>2, <1>4, <3>1 DEF AtMost, StreamBudget
  <2> HIDE DEF n
  <2>2. Range(SubSeq(stream, 1, n)) \subseteq STRING
    <3>1. SubSeq(stream, 1, n) \in Seq(STRING)
      BY <2>1
    <3> QED BY <3>1 DEF Range
  <2>3. acc.streams + 1 \in 0..MaxPdfStreams /\ acc.expanded + n \in 0..MaxPdfExpanded
    BY <1>1, <1>2, <1>4, <2>1
  <2>4. acc.names \cup Range(SubSeq(stream, 1, n)) \in SUBSET (pdf.names \cup STRING)
    BY <1>2, <2>2
  <2>5. Inflate(acc, stream) = [streams |-> acc.streams + 1, expanded |-> acc.expanded + n,
                                names |-> acc.names \cup Range(SubSeq(stream, 1, n))]
    BY <1>4 DEF Inflate, n
  <2> QED BY <2>3, <2>4, <2>5 DEF Inflated
<1> QED BY <1>3, <1>4

\* A PDF is inflated within the budgets.
LEMMA PdfFacts ==
  ASSUME NEW pdf, IsShape(pdf) PROVE PdfBounded(pdf)
<1> SUFFICES ASSUME pdf.kind = "Pdf" PROVE expand_pdf(pdf) \in Inflated(pdf)
  <2>1. {MaxPdfExpanded, MaxPdfStreams} \subseteq Nat
    BY StaticAssumption
  <2> QED BY <2>1 DEF PdfBounded, Inflated
<1> DEFINE n == Len(pdf.streams)
           T == Inflated(pdf)
           G == [p \in (1..n) \X T |-> Inflate(p[2], pdf.streams[p[1]])]
           H == PdfFold(pdf)
           base == Uninflated(pdf)
<1>1. pdf.streams \in Seq(Seq(STRING))
  BY DEF IsShape
<1>2. n \in Nat /\ DOMAIN pdf.streams = 1..n /\ \A i \in 1..n : pdf.streams[i] \in Seq(STRING)
  BY <1>1
<1> HIDE DEF n, T
<1>3. G \in [(1..n) \X T -> T] /\ \A i \in 1..n, x \in T : G[<<i, x>>] = Inflate(x, pdf.streams[i])
  <2>1. \A i \in 1..n, x \in T : Inflate(x, pdf.streams[i]) \in T
    BY <1>2, InflateStays DEF T
  <2> QED BY <2>1
<1>4. base \in T
  <2>1. {MaxPdfExpanded, MaxPdfStreams} \subseteq Nat
    BY StaticAssumption
  <2> QED BY <2>1 DEF Uninflated, T, Inflated
<1> HIDE DEF G, base
<1>5. IsStep(G, T, n)
  BY <1>3 DEF IsStep
<1>6. HasFold(G, T, base, n)
  BY <1>2, <1>4, <1>5, FoldExists
<1>7. PICK h \in [SUBSET (1..n) -> T] : h = FoldBody(G, base, n, h)
  BY <1>6 DEF HasFold
<1>8. \A t \in SUBSET (1..n) : t # {} => Max(t) \in 1..n
  <2> SUFFICES ASSUME NEW t \in SUBSET (1..n), t # {} PROVE Max(t) \in 1..n
    OBVIOUS
  <2>1. t \in SUBSET (0..n)
    BY <1>2
  <2> QED BY <1>2, <2>1, BoundedMax
<1>9. h = PdfBody(pdf, h)
  <2>1. \A t \in SUBSET (1..n) : t # {} => h[t \ {Max(t)}] \in T
    BY <1>7
  <2>2. \A t \in SUBSET (1..n) : t # {} =>
          G[<<Max(t), h[t \ {Max(t)}]>>] = Inflate(h[t \ {Max(t)}], pdf.streams[Max(t)])
    BY <1>3, <1>8, <2>1
  <2>3. \A t \in SUBSET (1..n) : h[t] = IF t = {} THEN base ELSE Inflate(h[t \ {Max(t)}], pdf.streams[Max(t)])
    BY <1>7, <2>2 DEF FoldBody
  <2>4. h = [t \in SUBSET (1..n) |-> h[t]]
    OBVIOUS
  <2> QED BY <1>2, <2>3, <2>4 DEF PdfBody, base
<1>10. H = PdfBody(pdf, H)
  BY <1>9 DEF PdfFold
<1> HIDE DEF H
<1>11. \A t \in SUBSET (1..n) :
         H[t] = IF t = {} THEN base ELSE Inflate(H[t \ {Max(t)}], pdf.streams[Max(t)])
  BY <1>2, <1>10 DEF PdfBody, base
<1> DEFINE Good == {i \in 0..n : H[1..i] \in T}
<1>12. 0 \in Good
  <2>1. 1..0 = {} /\ {} \in SUBSET (1..n)
    OBVIOUS
  <2>2. H[1..0] = base
    BY <1>11, <2>1
  <2> QED BY <1>2, <1>4, <2>2
<1>13. ASSUME NEW i \in 1..n, i - 1 \in Good PROVE i \in Good
  <2>1. IsInitial(i, n)
    BY <1>2, InitialParts
  <2>2. H[1..i] = Inflate(H[1..(i - 1)], pdf.streams[i])
    BY <1>11, <2>1 DEF IsInitial
  <2>3. Inflate(H[1..(i - 1)], pdf.streams[i]) \in T
    BY <1>2, <1>13, InflateStays DEF T
  <2> QED BY <2>2, <2>3
<1> HIDE DEF Good
<1>14. n \in Good
  <2>1. \A i \in 0..n : i \in Good
    BY <1>2, <1>12, <1>13, UpTo
  <2> QED BY <1>2, <2>1
<1>15. expand_pdf(pdf) = H[1..n]
  BY <1>2, PdfIsFold DEF H
<1> QED BY <1>14, <1>15 DEF Good, T

-----------------------------------------------------------------------------
(* The static report.                                                      *)

\* A script's evidence.
LEMMA ScriptEvidence ==
  ASSUME NEW text PROVE analyze_script(text) \in Seq(EvidenceType)
<1> DEFINE encoded == Has(text, "encoded") \/ (Has(text, "powershell") /\ Has(text, "base64"))
           close(p, q) == near(positions(text, p), positions(text, q), Nearby)
           download == close("execute", "network")
           decode == close("execute", "encoded")
           lolbin == close("lolbin", "network") \/ close("lolbin", "encoded")
           decoded == ~download /\ decode
           switched == text.switches >= 2
           escaped == text.escaped /\ Has(text, "execute") /\ (download \/ decode \/ encoded)
           built == close("execute", "chars")
           all == When(encoded, "script.encoded_payload", 22)
                    \o When(download, "script.download_and_execute", 42)
                    \o When(decoded, "script.decode_and_execute", 34)
                    \o When(switched, "script.stealth_switch_cluster", 15)
                    \o When(lolbin, "script.lolbin_delivery", 28)
                    \o When(escaped, "script.token_obfuscation", 10)
                    \o When(built, "script.constructed_expression", 18)
<1>1. analyze_script(text) = IF ~decode_probable_text(text) THEN <<>> ELSE all
  BY DEF analyze_script
<1> HIDE DEF encoded, download, decode, lolbin, decoded, switched, escaped, built
<1>2. /\ "script.encoded_payload" \in Codes /\ "script.download_and_execute" \in Codes
      /\ "script.decode_and_execute" \in Codes /\ "script.stealth_switch_cluster" \in Codes
      /\ "script.lolbin_delivery" \in Codes /\ "script.token_obfuscation" \in Codes
      /\ "script.constructed_expression" \in Codes
  BY DEF Codes
<1>3. /\ When(encoded, "script.encoded_payload", 22) \in Seq(EvidenceType)
      /\ When(download, "script.download_and_execute", 42) \in Seq(EvidenceType)
      /\ When(decoded, "script.decode_and_execute", 34) \in Seq(EvidenceType)
      /\ When(switched, "script.stealth_switch_cluster", 15) \in Seq(EvidenceType)
      /\ When(lolbin, "script.lolbin_delivery", 28) \in Seq(EvidenceType)
      /\ When(escaped, "script.token_obfuscation", 10) \in Seq(EvidenceType)
      /\ When(built, "script.constructed_expression", 18) \in Seq(EvidenceType)
  BY <1>2, MilderGiven DEF When
<1>4. all \in Seq(EvidenceType)
  BY <1>3, PointsOfBoth
<1>5. << >> \in Seq(EvidenceType)
  OBVIOUS
<1> HIDE DEF all
<1> QED BY <1>1, <1>4, <1>5

\* A shortcut's.
LEMMA ShortcutEvidence ==
  ASSUME NEW lnk PROVE analyze_lnk(lnk) \in Seq(EvidenceType)
<1> DEFINE args == lnk.arguments
           launch == \/ "fetch" \in args /\ args \cap {"decode", "run"} # {}
                     \/ {"decode", "run"} \subseteq args
           hidden == launch /\ lnk.minimized
           padded == "padded" \in args
           all == When(launch, "lnk.script_launch", 45) \o When(hidden, "lnk.hidden_window", 10)
                    \o When(padded, "lnk.padded_arguments", 30)
<1>1. analyze_lnk(lnk) = IF ~lnk.parses \/ ~lnk.launcher THEN <<>> ELSE all
  BY DEF analyze_lnk
<1> HIDE DEF launch, hidden, padded
<1>2. /\ "lnk.script_launch" \in Codes /\ "lnk.hidden_window" \in Codes
      /\ "lnk.padded_arguments" \in Codes
  BY DEF Codes
<1>3. /\ When(launch, "lnk.script_launch", 45) \in Seq(EvidenceType)
      /\ When(hidden, "lnk.hidden_window", 10) \in Seq(EvidenceType)
      /\ When(padded, "lnk.padded_arguments", 30) \in Seq(EvidenceType)
  BY <1>2, MilderGiven DEF When
<1>4. all \in Seq(EvidenceType)
  BY <1>3, PointsOfBoth
<1>5. << >> \in Seq(EvidenceType)
  OBVIOUS
<1> HIDE DEF all
<1> QED BY <1>1, <1>4, <1>5

\* A document's.
LEMMA DocumentEvidence ==
  ASSUME NEW pdf PROVE analyze_pdf(pdf) \in Seq(EvidenceType)
<1> DEFINE names == expand_pdf(pdf).names
           javascript == names \cap {"JavaScript", "JS"} # {}
           automatic == names \cap {"OpenAction", "AA"} # {}
           both == javascript /\ automatic
           one == javascript /\ ~automatic
           launch == "Launch" \in names
           embedded == {"EmbeddedFile", "Filespec"} \subseteq names
<1>1. analyze_pdf(pdf) =
        When(both, "pdf.automatic_javascript", 60) \o When(one, "pdf.javascript", 15)
          \o When(launch, "pdf.launch_action", 55) \o When(embedded, "pdf.embedded_file", 10)
  BY DEF analyze_pdf
<1> HIDE DEF both, one, launch, embedded
<1>2. /\ "pdf.automatic_javascript" \in Codes /\ "pdf.javascript" \in Codes
      /\ "pdf.launch_action" \in Codes /\ "pdf.embedded_file" \in Codes
  BY DEF Codes
<1>3. /\ When(both, "pdf.automatic_javascript", 60) \in Seq(EvidenceType)
      /\ When(one, "pdf.javascript", 15) \in Seq(EvidenceType)
      /\ When(launch, "pdf.launch_action", 55) \in Seq(EvidenceType)
      /\ When(embedded, "pdf.embedded_file", 10) \in Seq(EvidenceType)
  BY <1>2, MilderGiven DEF When
<1> QED BY <1>1, <1>3, PointsOfBoth

\* The score of any content is a number.
LEMMA PointsAreNumbers ==
  ASSUME NEW shape, IsShape(shape), NEW size \in Nat, NEW read \in 0..size
  PROVE  Points(Evidence(shape, read, size)) \in Nat
<1>1. CASE shape.kind = "pe"
  <2>1. shape.sections \in Seq(SectionType) /\ shape.tables \in Nat
    BY <1>1 DEF IsShape
  <2>2. analyze_pe(shape, read, size) \in Seq(EvidenceType)
    BY <2>1, ProgramMilder DEF Milder
  <2>3. Points(analyze_pe(shape, read, size)) \in Nat
    BY <2>2, MilderSame
  <2> QED BY <1>1, <2>3 DEF Evidence
<1>2. Points(<< >>) \in Nat
  <2>1. << >> \in Seq(EvidenceType)
    OBVIOUS
  <2> QED BY <2>1, MilderSame
<1>3. Points(analyze_script(shape)) \in Nat
  BY ScriptEvidence, MilderSame
<1>4. Points(analyze_pdf(shape)) \in Nat
  BY DocumentEvidence, MilderSame
<1>5. Points(analyze_lnk(shape)) \in Nat
  BY ShortcutEvidence, MilderSame
<1>6. CASE shape.kind # "pe"
  <2>1. shape.kind \in {"text", "Pdf", "Lnk", "Zip", "Gzip", "OleCompound", "Other"}
    BY <1>6 DEF IsShape
  <2> QED BY <1>2, <1>3, <1>4, <1>5, <2>1 DEF Evidence
<1> QED BY <1>1, <1>6
=============================================================================
