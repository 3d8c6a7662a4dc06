------------------------------ MODULE LruCache ------------------------------
(***************************************************************************)
(* What the verdict cache promises: a bounded list of entries, least       *)
(* recently used first.  This is the VecDeque the comment on               *)
(* VerdictCache.recency in src/verdict_cache.rs says the indexed structure *)
(* replaced; VerdictCache is shown to implement it.  The composition       *)
(* RealtimeVerdict uses these list operators for its cache.                *)
(***************************************************************************)
EXTENDS Naturals, Sequences, SequencesExt

CONSTANTS Keys,          \* file identities (VerdictCacheKey)
          Reports,       \* scan results offered to the cache (CachedVerdict)
          Cacheable,     \* the reports that may be stored
          Capacity,      \* entries kept at most
          MaxGeneration  \* bound on the definition generation

VARIABLES list,          \* entries, least recently used first
          generation,    \* the definition generation
          answer         \* what the last lookup returned: {} or {entry}

Entry == [key : Keys, report : Reports, gen : 1..MaxGeneration, aged : BOOLEAN]

Holds(l, k) == \E i \in DOMAIN l : l[i].key = k
Place(l, k) == CHOOSE i \in DOMAIN l : l[i].key = k
EntryOf(l, k) == l[Place(l, k)]
Without(l, k) == RemoveAt(l, Place(l, k))

\* An entry is served only to the generation it was stored for and for a day.
Fresh(e, g) == ~e.aged /\ e.gen = g

AfterGet(l, k, g) ==
  IF ~Holds(l, k) THEN l
  ELSE IF Fresh(EntryOf(l, k), g) THEN Append(Without(l, k), EntryOf(l, k))
  ELSE Without(l, k)

AnswerOf(l, k, g) ==
  IF Holds(l, k) /\ Fresh(EntryOf(l, k), g) THEN {EntryOf(l, k)} ELSE {}

AfterInsert(l, e) ==
  IF e.report \notin Cacheable THEN l
  ELSE Append(IF Holds(l, e.key) THEN Without(l, e.key)
              ELSE IF Len(l) >= Capacity THEN Tail(l) ELSE l, e)

Init == list = <<>> /\ generation = 1 /\ answer = {}

Get(k, g) ==
  /\ list' = AfterGet(list, k, g)
  /\ answer' = AnswerOf(list, k, g)
  /\ UNCHANGED generation

Insert(k, r, g) ==
  /\ list' = AfterInsert(list, [key |-> k, report |-> r, gen |-> g, aged |-> FALSE])
  /\ answer' = {}
  /\ UNCHANGED generation

\* Twenty-four hours pass since one entry was scanned.
Age(k) ==
  /\ Holds(list, k)
  /\ list' = [i \in DOMAIN list |->
                IF list[i].key = k THEN [list[i] EXCEPT !.aged = TRUE] ELSE list[i]]
  /\ answer' = {}
  /\ UNCHANGED generation

NewDefinitions ==
  /\ generation < MaxGeneration
  /\ generation' = generation + 1
  /\ answer' = {}
  /\ UNCHANGED list

Next ==
  \/ \E k \in Keys, g \in 1..generation : Get(k, g)
  \/ \E k \in Keys, r \in Reports, g \in 1..generation : Insert(k, r, g)
  \/ \E k \in Keys : Age(k)
  \/ NewDefinitions

Spec == Init /\ [][Next]_<<list, generation, answer>>
=============================================================================
