---------------------------- MODULE VerdictCache ----------------------------
(***************************************************************************)
(* The verdict cache of src/verdict_cache.rs: `entries` maps a file        *)
(* identity to its verdict and the tick of its last use, `recency` maps    *)
(* that tick back to the identity, and the two are kept in step by hand    *)
(* on every path of get and insert.  Each operation runs under the write   *)
(* lock its callers hold, so each is one action.                           *)
(***************************************************************************)
EXTENDS Naturals, FiniteSets, Functions

CONSTANTS Keys,          \* VerdictCacheKey values
          Reports,       \* the CachedVerdict values the scanner produces
          Capacity,      \* the capacity given to VerdictCache::new
          MaxTick,       \* largest value of the u64 tick that is explored
          MaxGeneration  \* largest definition generation that is explored

\* A report, reduced to what is_cacheable and the callers look at.
ReportType == [verdict : {"Clean", "Malicious", "Suspicious", "ScanError"},
               complete : BOOLEAN, truncated : BOOLEAN, hashed : BOOLEAN]

ASSUME CacheAssumption ==
  /\ Capacity \in Nat \ {0}
  /\ MaxTick \in Nat
  /\ MaxGeneration \in Nat \ {0}
  /\ Reports \subseteq ReportType

VARIABLES entries,     \* Keys -> [report, gen, aged, tick], partial
          recency,     \* tick -> key, partial
          tick,        \* the last tick handed out
          generation,  \* the service's definition_generation
          answer       \* what the last get returned: {} or {[key, entry]}

cache == <<entries, recency>>
cacheVars == <<entries, recency, tick, generation, answer>>

\* A clean result is worth caching only when the whole file was analysed and
\* hashed; a detection always is, an error never.
is_cacheable(r) ==
  /\ r.verdict # "ScanError"
  /\ r.verdict = "Clean" => r.complete /\ ~r.truncated /\ r.hashed

CacheInit ==
  /\ entries = <<>>
  /\ recency = <<>>
  /\ tick = 0
  /\ generation = 1
  /\ answer = {}

Drop(f, x) == Restrict(f, DOMAIN f \ {x})
Put(f, x, y) == [z \in DOMAIN f \cup {x} |-> IF z = x THEN y ELSE f[z]]

\* `g` is the generation the caller loaded earlier, which another thread may
\* have advanced since.
fresh(e, g) == ~e.aged /\ e.gen = g

GetMiss(k) ==
  /\ k \notin DOMAIN entries
  /\ answer' = {}
  /\ UNCHANGED <<entries, recency, tick, generation>>

\* Mutant of GetStale: the slot of a stale entry is left in recency.
GetStale_leaks(k, g) ==
  /\ k \in DOMAIN entries
  /\ ~fresh(entries[k], g)
  /\ entries' = Drop(entries, k)
  /\ answer' = {}
  /\ UNCHANGED <<recency, tick, generation>>

\* The recency slot of a stale entry goes with the entry.
GetStale(k, g) ==
  /\ k \in DOMAIN entries
  /\ ~fresh(entries[k], g)
  /\ recency' = Drop(recency, entries[k].tick)
  /\ entries' = Drop(entries, k)
  /\ answer' = {}
  /\ UNCHANGED <<tick, generation>>

\* Mutant of GetHit: a hit does not count as a use.
GetHit_unrefreshed(k, g) ==
  /\ tick < MaxTick
  /\ k \in DOMAIN entries
  /\ fresh(entries[k], g)
  /\ answer' = {[key |-> k, entry |-> entries[k]]}
  /\ UNCHANGED <<entries, recency, tick, generation>>

GetHit(k, g) ==
  /\ tick < MaxTick
  /\ k \in DOMAIN entries
  /\ fresh(entries[k], g)
  /\ tick' = tick + 1
  /\ recency' = Put(Drop(recency, entries[k].tick), tick + 1, k)
  /\ entries' = [entries EXCEPT ![k].tick = tick + 1]
  /\ answer' = {[key |-> k, entry |-> entries[k]]}
  /\ UNCHANGED generation

InsertRejected(r) ==
  /\ ~is_cacheable(r)
  /\ answer' = {}
  /\ UNCHANGED <<entries, recency, tick, generation>>

\* Mutant of Oldest: pop_last.
Oldest_last == CHOOSE t \in DOMAIN recency : \A u \in DOMAIN recency : u <= t

\* BTreeMap::pop_first takes the smallest tick.
Oldest == CHOOSE t \in DOMAIN recency : \A u \in DOMAIN recency : t <= u

\* What insert removes first: the key's own entry, or, when the key is new and
\* the cache is full, the least recently used one.
Displaced(k) ==
  IF k \in DOMAIN entries THEN {k}
  ELSE IF Cardinality(DOMAIN entries) >= Capacity /\ DOMAIN recency # {}
  THEN {recency[Oldest]}
  ELSE {}

DisplacedTick(k) ==
  IF k \in DOMAIN entries THEN {entries[k].tick}
  ELSE IF Cardinality(DOMAIN entries) >= Capacity /\ DOMAIN recency # {} THEN {Oldest} ELSE {}

InsertStored(k, r, g) ==
  /\ tick < MaxTick
  /\ is_cacheable(r)
  /\ tick' = tick + 1
  /\ recency' = Put(Restrict(recency, DOMAIN recency \ DisplacedTick(k)), tick + 1, k)
  /\ entries' = Put(Restrict(entries, DOMAIN entries \ Displaced(k)), k,
                    [report |-> r, gen |-> g, aged |-> FALSE, tick |-> tick + 1])
  /\ answer' = {}
  /\ UNCHANGED generation

\* Utc::now() moves 24 hours past an entry's scanned_at.
Age(k) ==
  /\ k \in DOMAIN entries
  /\ entries' = [entries EXCEPT ![k].aged = TRUE]
  /\ answer' = {}
  /\ UNCHANGED <<recency, tick, generation>>

\* The service's fetch_add after it replaced definitions.
NewDefinitions ==
  /\ generation < MaxGeneration
  /\ generation' = generation + 1
  /\ answer' = {}
  /\ UNCHANGED <<entries, recency, tick>>

Get(k, g) == GetMiss(k) \/ GetStale(k, g) \/ GetHit(k, g)
Insert(k, r, g) == InsertRejected(r) \/ InsertStored(k, r, g)

CacheNext ==
  \/ \E k \in Keys, g \in 1..generation : Get(k, g)
  \/ \E k \in Keys, r \in Reports, g \in 1..generation : Insert(k, r, g)
  \/ \E k \in Keys : Age(k)
  \/ NewDefinitions

CacheSpec == CacheInit /\ [][CacheNext]_cacheVars

-----------------------------------------------------------------------------
EntryType == [report : Reports, gen : 1..MaxGeneration, aged : BOOLEAN, tick : 1..MaxTick]

\* The shape of the cache's state.
CacheTypeOK ==
  /\ DOMAIN entries \subseteq Keys
  /\ \A k \in DOMAIN entries : entries[k] \in EntryType
  /\ DOMAIN recency \subseteq 1..tick
  /\ \A t \in DOMAIN recency : recency[t] \in Keys
  /\ tick \in 0..MaxTick
  /\ generation \in 1..MaxGeneration

\* assert_consistent of the unit tests, for every history: an entry's tick leads
\* back to it, and no tick is left behind for an entry that is gone.  A leaked
\* tick would make a later eviction remove nothing, and a shared one would make
\* it remove the wrong file's verdict.
Consistent ==
  /\ \A k \in DOMAIN entries : /\ entries[k].tick \in DOMAIN recency
                               /\ recency[entries[k].tick] = k
  /\ \A t \in DOMAIN recency : /\ recency[t] \in DOMAIN entries
                               /\ entries[recency[t]].tick = t

\* insert evicts before it adds, so the cache never holds more than its capacity,
\* whatever mix of hits, stale removals and overwrites came before.
WithinCapacity == IsFiniteSet(DOMAIN entries) /\ Cardinality(DOMAIN entries) <= Capacity

\* A step that marks an entry as used - a hit or an insert - gives up another
\* entry only if none was left unused for longer.
EvictsLeastRecent ==
  [][\A k \in DOMAIN entries \ DOMAIN entries' :
       tick' # tick => \A j \in DOMAIN entries : entries[k].tick <= entries[j].tick]_cacheVars

\* A result that says something about the whole file, or a detection.
Conclusive(r) ==
  /\ r.verdict # "ScanError"
  /\ r.verdict = "Clean" => r.complete /\ ~r.truncated /\ r.hashed

\* A clean verdict is never kept, and so never served, for a file that was not
\* analysed to its end and hashed; a failed scan is never kept at all.
NoPartialClean == \A k \in DOMAIN entries : Conclusive(entries[k].report)

-----------------------------------------------------------------------------
(* The two indexes read as one list.                                       *)

\* The entry as the list holds it: without its tick, which only orders it.
Listed(k) == [key |-> k, report |-> entries[k].report,
              gen |-> entries[k].gen, aged |-> entries[k].aged]

\* The ticks of S from the smallest to the largest.
Sorted(s, S) ==
  /\ \A i, j \in DOMAIN s : i < j => s[i] < s[j]
  /\ \A t \in S : \E i \in DOMAIN s : s[i] = t
InOrder(S) == CHOOSE s \in [1..Cardinality(S) -> S] : Sorted(s, S)
Ticks == InOrder(DOMAIN recency)
ListOfEntries == [i \in DOMAIN Ticks |-> Listed(recency[Ticks[i]])]

Answered == { [key |-> a.key, report |-> a.entry.report,
               gen |-> a.entry.gen, aged |-> a.entry.aged] : a \in answer }

Lru == INSTANCE LruCache WITH
  list <- ListOfEntries,
  answer <- Answered,
  Cacheable <- {r \in Reports : is_cacheable(r)}

\* The two hand-maintained indexes behave as a least-recently-used list: the
\* entry a full cache gives up is the one unused for longest, a hit makes its
\* entry the last to go, a stale entry is dropped and never answered with.
ImplementsLru == Lru!Spec
=============================================================================
