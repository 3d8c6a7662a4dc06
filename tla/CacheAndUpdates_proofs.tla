----------------------- MODULE CacheAndUpdates_proofs -----------------------
(***************************************************************************)
(* The definitions in use and the verdicts kept of them, each on its own:  *)
(* first the store the definitions are activated in, its rollback          *)
(* protection and crash safety, for every set of bundles, every clock and  *)
(* any number of crashes and damaged files; then the verdict cache, whose  *)
(* two indexes stay in step, within capacity and free of partial clean     *)
(* verdicts for any capacity, any identities and any history.              *)
(***************************************************************************)
EXTENDS DefinitionUpdates, VerdictCache, FiniteSetTheorems, SequenceTheorems,
        WellFoundedInduction, TLAPS

Holding == Working \ {"manifest"}

\* What PointersCommitted and RollbackProtected need to be kept by a step: the
\* newest activated bundle is the one current.json names, and once the worker
\* has verified its offer under the lock, the offer is newer than all of them.
StoreInv ==
  /\ versions \subseteq Bundles /\ damaged \subseteq versions
  /\ current \in Pointers /\ previous \in Pointers
  /\ activated \subseteq Bundles
  /\ pc \in Holding => offer \in Bundles
  /\ {current, previous} \cap Bundles \subseteq versions
  /\ \A v, w \in versions : Slot(v) = Slot(w) => v = w
  /\ current = None => activated = {}
  /\ {current, previous} \cap Bundles \subseteq activated
  /\ current \in Bundles => \A a \in activated : Sequence[a] <= Sequence[current]
  /\ pc \in {"commit", "retire", "point"} => \A a \in activated : Sequence[a] < Sequence[offer]
  /\ pc \in {"retire", "point"} => offer \in versions

\* The store is empty at first.
LEMMA StoreInit == Init => StoreInv
  BY UpdatesAssumption DEF Init, StoreInv, Pointers, Holding, Working

\* A step that leaves the disk alone and at most moves the worker to a place
\* where it holds no verified offer.
LEMMA IdleKeeps ==
  ASSUME StoreInv, UNCHANGED disk,
         pc' \in {"idle", "down", "manifest"}
  PROVE  StoreInv'
  BY DEF StoreInv, disk, Pointers, Holding, Working, Slot

\* The same when the worker does not move at all.
LEMMA StillKeeps ==
  ASSUME StoreInv, UNCHANGED <<disk, pc, offer>>
  PROVE  StoreInv'
  BY DEF StoreInv, disk, Pointers, Holding, Working, Slot

\* What the worker does before it commits leaves the store alone.
LEMMA FetchKeeps ==
  ASSUME StoreInv, NEW b \in Bundles, FetchNewer(b) \/ FetchPayload
  PROVE  StoreInv'
  BY DEF StoreInv, disk, Pointers, Holding, Working, Slot, FetchNewer, FetchPayload

\* Comparing with current.json under the lock compares with every activated
\* bundle, because current.json names the newest of them.
LEMMA VerifyKeeps == ASSUME StoreInv, Verify PROVE StoreInv'
  <1>1. \A a \in activated : Sequence[a] < Sequence[offer]
    <2>1. CASE current \in Bundles
      <3>1. \A a \in activated : Sequence[a] <= Sequence[current]
        BY <2>1 DEF StoreInv
      <3>2. Sequence[current] < Sequence[offer]
        BY <2>1, UpdatesAssumption DEF Verify, installed_sequence, StoreInv, Holding, Working
      <3>3. offer \in Bundles /\ activated \subseteq Bundles
        BY DEF StoreInv, Verify, Holding, Working
      <3> QED BY <2>1, <3>1, <3>2, <3>3, UpdatesAssumption
    <2>2. CASE current = None
      BY <2>2 DEF StoreInv
    <2> QED BY <2>1, <2>2 DEF StoreInv, Verify, Pointers
  <1> QED BY <1>1 DEF StoreInv, disk, Pointers, Holding, Working, Slot, Verify

\* A commit adds a directory of its own, or finds this very bundle.
LEMMA CommitKeeps == ASSUME StoreInv, commit_immutable_version PROVE StoreInv'
  <1>1. offer \in Bundles
    BY DEF StoreInv, commit_immutable_version, Holding, Working
  <1>2. offer \in versions' /\ versions \subseteq versions' /\ versions' \subseteq Bundles
    BY <1>1 DEF StoreInv, commit_immutable_version
  <1>3. \A v, w \in versions' : Slot(v) = Slot(w) => v = w
    BY DEF StoreInv, commit_immutable_version
  <1> QED BY <1>1, <1>2, <1>3
          DEF StoreInv, Pointers, Holding, Working, Slot, commit_immutable_version

\* The pointer that is retired names a committed bundle.
LEMMA RetireKeeps == ASSUME StoreInv, Retire PROVE StoreInv'
  BY DEF StoreInv, Pointers, Holding, Working, Slot, Retire

\* The new pointer names the newest activated bundle again.
LEMMA PointKeeps == ASSUME StoreInv, Point PROVE StoreInv'
  <1>1. offer \in Bundles /\ offer \in versions
    BY DEF StoreInv, Point, Holding, Working
  <1>2. \A a \in activated : Sequence[a] < Sequence[offer]
    BY DEF StoreInv, Point
  <1>3. \A a \in activated' : Sequence[a] <= Sequence[current']
    BY <1>1, <1>2, UpdatesAssumption DEF StoreInv, Point
  <1>4. current' = offer /\ activated' = activated \cup {offer} /\ pc' = "reload"
        /\ versions' = versions /\ damaged' = damaged /\ previous' = previous /\ offer' = offer
    BY DEF Point
  <1> QED BY <1>1, <1>3, <1>4, UpdatesAssumption DEF StoreInv, Pointers, Holding, Working, Slot

\* Damage never makes a pointer name anything new.
LEMMA DamageKeeps ==
  ASSUME StoreInv, NEW b \in Bundles, DamageVersion(b) \/ DamagePointer
  PROVE  StoreInv'
  BY UpdatesAssumption
     DEF StoreInv, Pointers, Holding, Working, Slot, DamageVersion, DamagePointer

\* Every step keeps the invariant of the store.
LEMMA StoreStep == ASSUME StoreInv, [Next]_vars PROVE StoreInv'
  <1>1. CASE CheckStarts BY <1>1, IdleKeeps DEF CheckStarts
  <1>2. CASE \E b \in Bundles : FetchNewer(b) BY <1>2, FetchKeeps
  <1>3. CASE \E b \in Bundles : FetchCurrent(b) BY <1>3, IdleKeeps DEF FetchCurrent, Finish
  <1>4. CASE \E b \in Bundles : FetchRefused(b) BY <1>4, IdleKeeps DEF FetchRefused, Finish
  <1>5. CASE FetchPayload
    <2>1. offer \in Bundles BY <1>5 DEF StoreInv, FetchPayload, Holding, Working
    <2> QED BY <1>5, <2>1, FetchKeeps
  <1>6. CASE Verify BY <1>6, VerifyKeeps
  <1>7. CASE commit_immutable_version BY <1>7, CommitKeeps
  <1>8. CASE Retire BY <1>8, RetireKeeps
  <1>9. CASE Point BY <1>9, PointKeeps
  <1>10. CASE Reload BY <1>10, IdleKeeps DEF Reload, Finish
  <1>11. CASE CheckFails BY <1>11, IdleKeeps DEF CheckFails, Finish
  <1>12. CASE apply_update_event BY <1>12, StillKeeps DEF apply_update_event
  <1>13. CASE ExpiredReload BY <1>13, StillKeeps DEF ExpiredReload
  <1>14. CASE Tick BY <1>14, StillKeeps DEF Tick
  <1>15. CASE Crash BY <1>15, IdleKeeps DEF Crash
  <1>16. CASE Restart BY <1>16, IdleKeeps DEF Restart
  <1>17. CASE \E b \in Bundles : DamageVersion(b) BY <1>17, DamageKeeps
  <1>18. CASE DamagePointer
    <2>1. \E b \in Bundles : TRUE BY <1>18 DEF DamagePointer
    <2> QED BY <1>18, <2>1, DamageKeeps
  <1>19. CASE UNCHANGED vars BY <1>19, StillKeeps DEF vars, disk
  <1>20. CASE load_fails BY <1>20, StillKeeps DEF load_fails
  <1> QED BY <1>1, <1>2, <1>3, <1>4, <1>5, <1>6, <1>7, <1>8, <1>9, <1>10, <1>11, <1>12,
             <1>13, <1>14, <1>15, <1>16, <1>17, <1>18, <1>19, <1>20 DEF Next, Activation

\* The invariant of the store.
THEOREM StoreInvariance == Spec => []StoreInv
  BY StoreInit, StoreStep, PTL DEF Spec

\* Crash safety of the two pointer files: whatever write the service dies after,
\* each names a directory that is in place.
THEOREM CrashSafety == Spec => []PointersCommitted
  <1>1. StoreInv => PointersCommitted
    BY DEF StoreInv, PointersCommitted
  <1> QED BY <1>1, StoreInvariance, PTL

\* What was activated and compiles is found by every later load.
THEOREM ActivationDurable == Spec => []ActiveSurvives
  <1>1. StoreInv => ActiveSurvives
    BY UpdatesAssumption DEF StoreInv, ActiveSurvives, load, Loadable
  <1> QED BY <1>1, StoreInvariance, PTL

NewerThanAll == \A b \in activated' \ activated : \A a \in activated : Sequence[a] < Sequence[b]

\* Only Point activates, and it activates the verified offer.
LEMMA StepActivatesNewer == ASSUME StoreInv, [Next]_vars PROVE NewerThanAll
  <1>1. CASE Point
    BY <1>1 DEF Point, StoreInv, NewerThanAll
  <1>2. CASE UNCHANGED activated
    BY <1>2 DEF NewerThanAll
  <1> QED BY <1>1, <1>2
    DEF Next, Activation, vars, disk, CheckStarts, FetchNewer, FetchCurrent, FetchRefused,
        FetchPayload, Verify, commit_immutable_version, Retire, Reload, CheckFails,
        apply_update_event, load_fails, ExpiredReload, Tick, Crash, Restart, DamageVersion,
        DamagePointer

\* Rollback protection: replayed manifests, crashes and damage included.
THEOREM NoRollback == Spec => RollbackProtected
  <1>1. StoreInv /\ [Next]_vars => [NewerThanAll]_vars
    BY StepActivatesNewer
  <1> QED BY <1>1, StoreInvariance, PTL DEF Spec, RollbackProtected, NewerThanAll

\* Every step that changes the health record or the engine keeps them in
\* agreement.
LEMMA HealthStep == ASSUME HealthTruthful, [Next]_vars PROVE HealthTruthful'
  <1>1. CASE UNCHANGED <<health, running>>
    BY <1>1 DEF HealthTruthful
  <1>2. CASE health' = running'
    BY <1>2 DEF HealthTruthful
  <1>3. CASE health' = Status("Failed")
    BY <1>3 DEF HealthTruthful, Status
  <1>4. CASE health' = Status("Updating")
    BY <1>4 DEF HealthTruthful, Status
  <1>5. CASE apply_update_event
    BY <1>5, <1>2, <1>3, <1>4 DEF apply_update_event
  <1>6. CASE load_fails
    BY <1>6, <1>2, <1>3 DEF load_fails
  <1> QED BY <1>1, <1>2, <1>5, <1>6
    DEF Next, Activation, vars, service, CheckStarts, FetchNewer, FetchCurrent, FetchRefused,
        FetchPayload, Verify, commit_immutable_version, Retire, Point, Reload, CheckFails,
        ExpiredReload, Tick, Crash, Restart, DamageVersion, DamagePointer

\* The health record names a bundle only while that bundle scans.
THEOREM HealthIsTruthful == Spec => []HealthTruthful
  <1>1. Init => HealthTruthful BY DEF Init, HealthTruthful
  <1> QED BY <1>1, HealthStep, PTL DEF Spec

-----------------------------------------------------------------------------
(* The verdict cache.                                                      *)

IInv == CacheTypeOK /\ Consistent /\ WithinCapacity /\ NoPartialClean

\* BTreeMap::pop_first is defined: a non-empty set of ticks has a smallest one.
LEMMA SmallestTick ==
  ASSUME NEW T \in SUBSET Nat, T # {}
  PROVE  \E t \in T : \A u \in T : t <= u
<1> DEFINE R == OpToRel(<, Nat)
<1>1. IsWellFoundedOn(R, Nat)
  BY NatLessThanWellFounded
<1>2. \A x, y \in Nat : x < y => <<x, y>> \in R
  BY DEF OpToRel
<1> HIDE DEF R
<1>3. PICK x \in T : \A y \in T : ~(<<y, x>> \in R)
  BY <1>1, WFMin
<1>4. \A y \in T : ~(y < x)
  BY <1>2, <1>3
<1>5. \A y \in T : x <= y
  BY <1>4
<1> QED BY <1>5

\* ... so the slot that eviction empties is a real one, and the smallest.
LEMMA OldestIsSmallest ==
  ASSUME CacheTypeOK, DOMAIN recency # {}
  PROVE  Oldest \in DOMAIN recency /\ \A u \in DOMAIN recency : Oldest <= u
<1>1. DOMAIN recency \in SUBSET Nat
  BY DEF CacheTypeOK
<1>2. \E t \in DOMAIN recency : \A u \in DOMAIN recency : t <= u
  BY <1>1, SmallestTick
<1> QED BY <1>2 DEF Oldest

\* What insert leaves behind before it adds: the displaced key and its slot go
\* together, and the displaced slot is the key's own or the smallest.
LEMMA DisplacedInStep ==
  ASSUME CacheTypeOK, Consistent, NEW k
  PROVE  /\ Displaced(k) \subseteq DOMAIN entries
         /\ DisplacedTick(k) \subseteq DOMAIN recency
         /\ \A j \in DOMAIN entries : j \in Displaced(k) <=> entries[j].tick \in DisplacedTick(k)
         /\ k \in DOMAIN entries => k \in Displaced(k)
<1>1. CASE k \in DOMAIN entries
  BY <1>1 DEF Displaced, DisplacedTick, Consistent
<1>2. CASE k \notin DOMAIN entries /\ Cardinality(DOMAIN entries) >= Capacity /\ DOMAIN recency # {}
  <2>1. Oldest \in DOMAIN recency
    BY <1>2, OldestIsSmallest
  <2>2. Displaced(k) = {recency[Oldest]} /\ DisplacedTick(k) = {Oldest}
    BY <1>2 DEF Displaced, DisplacedTick
  <2> QED BY <1>2, <2>1, <2>2 DEF Consistent
<1>3. CASE k \notin DOMAIN entries /\ ~(Cardinality(DOMAIN entries) >= Capacity /\ DOMAIN recency # {})
  BY <1>3 DEF Displaced, DisplacedTick
<1> QED BY <1>1, <1>2, <1>3

\* Insert makes room before it adds one entry.
LEMMA RoomForOne ==
  ASSUME IInv, NEW k
  PROVE  LET D == (DOMAIN entries \ Displaced(k)) \cup {k}
         IN  IsFiniteSet(D) /\ Cardinality(D) <= Capacity
<1> DEFINE C == Cardinality(DOMAIN entries)
<1> USE CacheAssumption
<1>1. IsFiniteSet(DOMAIN entries) /\ C \in Nat /\ C <= Capacity
  BY FS_CardinalityType DEF IInv, WithinCapacity
<1>2. CASE k \in DOMAIN entries
  <2>1. (DOMAIN entries \ Displaced(k)) \cup {k} = DOMAIN entries
    BY <1>2 DEF Displaced
  <2> QED BY <1>1, <2>1
<1>3. CASE k \notin DOMAIN entries /\ C >= Capacity
  <2>1. DOMAIN entries # {}
    BY <1>1, <1>3, FS_EmptySet
  <2>2. DOMAIN recency # {}
    BY <2>1 DEF IInv, Consistent
  <2>3. Oldest \in DOMAIN recency
    BY <2>2, OldestIsSmallest DEF IInv
  <2> DEFINE v == recency[Oldest]
             E == DOMAIN entries \ {v}
  <2>4. v \in DOMAIN entries
    BY <2>3 DEF IInv, Consistent
  <2>5. Displaced(k) = {v}
    BY <1>3, <2>2 DEF Displaced
  <2>6. IsFiniteSet(E) /\ Cardinality(E) = C - 1
    BY <1>1, <2>4, FS_RemoveElement
  <2>7. k \notin E
    BY <1>3
  <2>8. IsFiniteSet(E \cup {k}) /\ Cardinality(E \cup {k}) = C - 1 + 1
    BY <2>6, <2>7, FS_AddElement
  <2> QED BY <1>1, <2>5, <2>8
<1>4. CASE k \notin DOMAIN entries /\ ~(C >= Capacity)
  <2>1. Displaced(k) = {}
    BY <1>4 DEF Displaced
  <2>2. (DOMAIN entries \ Displaced(k)) \cup {k} = DOMAIN entries \cup {k}
    BY <2>1
  <2>3. IsFiniteSet(DOMAIN entries \cup {k}) /\ Cardinality(DOMAIN entries \cup {k}) = C + 1
    BY <1>1, <1>4, FS_AddElement
  <2> QED BY <1>1, <1>4, <2>2, <2>3
<1> QED BY <1>2, <1>3, <1>4

\* The empty cache satisfies the invariant.
LEMMA InitEstablishes == CacheInit => IInv
<1> SUFFICES ASSUME CacheInit PROVE IInv
  OBVIOUS
<1>1. DOMAIN entries = {} /\ DOMAIN recency = {}
  BY DEF CacheInit
<1>2. IsFiniteSet({}) /\ Cardinality({}) = 0
  BY FS_EmptySet
<1> QED BY <1>1, <1>2, CacheAssumption DEF CacheInit, IInv, CacheTypeOK, Consistent, WithinCapacity, NoPartialClean

\* Dropping a stale entry takes its tick along.
LEMMA GetStaleKeeps ==
  ASSUME IInv, NEW k \in Keys, NEW g, GetStale(k, g)
  PROVE  IInv'
<1>1. DOMAIN entries' = DOMAIN entries \ {k} /\ \A j \in DOMAIN entries' : entries'[j] = entries[j]
  BY DEF GetStale, Drop, Restrict
<1>2. /\ DOMAIN recency' = DOMAIN recency \ {entries[k].tick}
      /\ \A t \in DOMAIN recency' : recency'[t] = recency[t]
  BY DEF GetStale, Drop, Restrict
<1>3. CacheTypeOK'
  BY <1>1, <1>2 DEF GetStale, IInv, CacheTypeOK
<1>4. Consistent'
  BY <1>1, <1>2 DEF GetStale, IInv, Consistent
<1>5. WithinCapacity'
  <2>1. IsFiniteSet(DOMAIN entries') /\ Cardinality(DOMAIN entries') <= Cardinality(DOMAIN entries)
    BY <1>1, FS_Subset DEF IInv, WithinCapacity
  <2>2. Cardinality(DOMAIN entries') \in Nat /\ Cardinality(DOMAIN entries) \in Nat
    BY <2>1, FS_CardinalityType DEF IInv, WithinCapacity
  <2> QED BY <2>1, <2>2, CacheAssumption DEF IInv, WithinCapacity
<1>6. NoPartialClean'
  BY <1>1 DEF IInv, NoPartialClean
<1> QED BY <1>3, <1>4, <1>5, <1>6 DEF IInv

\* A hit moves an entry to a tick nobody else has.
LEMMA GetHitKeeps ==
  ASSUME IInv, NEW k \in Keys, NEW g, GetHit(k, g)
  PROVE  IInv'
<1> DEFINE old == entries[k].tick
<1>1. /\ DOMAIN entries' = DOMAIN entries
      /\ \A j \in DOMAIN entries' : j # k => entries'[j] = entries[j]
      /\ entries'[k] = [entries[k] EXCEPT !.tick = tick + 1]
  BY DEF GetHit
<1>2. /\ DOMAIN recency' = (DOMAIN recency \ {old}) \cup {tick + 1}
      /\ \A t \in DOMAIN recency' : recency'[t] = IF t = tick + 1 THEN k ELSE recency[t]
  BY DEF GetHit, Drop, Put, Restrict
<1>3. tick' = tick + 1 /\ tick + 1 \in 1..MaxTick /\ tick + 1 \notin DOMAIN recency
  BY CacheAssumption DEF GetHit, IInv, CacheTypeOK
<1>4. /\ entries'[k].tick = tick + 1 /\ entries'[k].report = entries[k].report
      /\ entries'[k] \in EntryType
  BY <1>1, <1>3 DEF GetHit, IInv, CacheTypeOK, EntryType
<1>5. CacheTypeOK'
  BY <1>1, <1>2, <1>3, <1>4 DEF GetHit, IInv, CacheTypeOK
<1>6. Consistent'
  BY <1>1, <1>2, <1>3, <1>4 DEF GetHit, IInv, Consistent
<1>7. WithinCapacity'
  BY <1>1 DEF IInv, WithinCapacity
<1>8. NoPartialClean'
  BY <1>1, <1>4 DEF GetHit, IInv, NoPartialClean
<1> QED BY <1>5, <1>6, <1>7, <1>8 DEF IInv

\* An insert displaces at most one entry, with its tick, before it adds one.
LEMMA InsertStoredKeeps ==
  ASSUME IInv, NEW k \in Keys, NEW r \in Reports, NEW g \in 1..generation, InsertStored(k, r, g)
  PROVE  IInv'
<1> DEFINE new == [report |-> r, gen |-> g, aged |-> FALSE, tick |-> tick + 1]
<1>1. /\ DOMAIN entries' = (DOMAIN entries \ Displaced(k)) \cup {k}
      /\ \A j \in DOMAIN entries' : entries'[j] = IF j = k THEN new ELSE entries[j]
  BY DEF InsertStored, Put, Restrict
<1>2. /\ DOMAIN recency' = (DOMAIN recency \ DisplacedTick(k)) \cup {tick + 1}
      /\ \A t \in DOMAIN recency' : recency'[t] = IF t = tick + 1 THEN k ELSE recency[t]
  BY DEF InsertStored, Put, Restrict
<1>3. tick' = tick + 1 /\ tick + 1 \in 1..MaxTick /\ tick + 1 \notin DOMAIN recency
  BY CacheAssumption DEF InsertStored, IInv, CacheTypeOK
<1>4. new \in EntryType /\ new.tick = tick + 1 /\ new.report = r
  BY <1>3, CacheAssumption DEF EntryType, IInv, CacheTypeOK
<1>a. Conclusive(r)
  BY DEF InsertStored, is_cacheable, Conclusive
<1> HIDE DEF new
<1>5. CacheTypeOK'
  <2>1. \A j \in DOMAIN entries' : j \in Keys /\ entries'[j] \in EntryType
    BY <1>1, <1>4 DEF IInv, CacheTypeOK
  <2>2. \A t \in DOMAIN recency' : t \in 1..(tick + 1) /\ recency'[t] \in Keys
    BY <1>2, <1>3 DEF IInv, CacheTypeOK
  <2>3. tick' \in 0..MaxTick /\ generation' \in 1..MaxGeneration
    BY <1>3, CacheAssumption DEF InsertStored, IInv, CacheTypeOK
  <2> QED BY <1>3, <2>1, <2>2, <2>3 DEF CacheTypeOK
<1>6. Consistent'
  <2>1. /\ \A j \in DOMAIN entries : j \in Displaced(k) <=> entries[j].tick \in DisplacedTick(k)
        /\ k \in DOMAIN entries => k \in Displaced(k)
    BY DisplacedInStep DEF IInv
  <2> QED BY <1>1, <1>2, <1>3, <1>4, <2>1 DEF IInv, Consistent
<1>7. WithinCapacity'
  BY <1>1, RoomForOne DEF WithinCapacity
<1>8. NoPartialClean'
  BY <1>1, <1>4, <1>a DEF IInv, NoPartialClean
<1> QED BY <1>5, <1>6, <1>7, <1>8 DEF IInv

\* Time touches neither index.
LEMMA AgeKeeps ==
  ASSUME IInv, NEW k \in Keys, Age(k)
  PROVE  IInv'
<1>1. /\ DOMAIN entries' = DOMAIN entries
      /\ \A j \in DOMAIN entries' : j # k => entries'[j] = entries[j]
      /\ entries'[k] = [entries[k] EXCEPT !.aged = TRUE]
  BY DEF Age
<1>2. entries'[k] \in EntryType /\ entries'[k].tick = entries[k].tick /\ entries'[k].report = entries[k].report
  BY <1>1 DEF Age, IInv, CacheTypeOK, EntryType
<1> QED BY <1>1, <1>2 DEF Age, IInv, CacheTypeOK, Consistent, WithinCapacity, NoPartialClean

\* Every step keeps the two indexes in step.
LEMMA StepKeeps == IInv /\ [CacheNext]_cacheVars => IInv'
<1> SUFFICES ASSUME IInv, [CacheNext]_cacheVars PROVE IInv'
  OBVIOUS
<1> DEFINE Same == UNCHANGED <<entries, recency, tick>> /\ generation' \in 1..MaxGeneration
<1>1. ASSUME Same PROVE IInv'
  BY <1>1 DEF IInv, CacheTypeOK, Consistent, WithinCapacity, NoPartialClean
<1>2. ASSUME NEW k \in Keys, NEW g \in 1..generation, Get(k, g) PROVE IInv'
  <2>1. CASE GetMiss(k)
    BY <2>1, <1>1 DEF GetMiss, IInv, CacheTypeOK
  <2> QED BY <1>2, <2>1, GetStaleKeeps, GetHitKeeps DEF Get
<1>3. ASSUME NEW k \in Keys, NEW r \in Reports, NEW g \in 1..generation, Insert(k, r, g) PROVE IInv'
  <2>1. CASE InsertRejected(r)
    BY <2>1, <1>1 DEF InsertRejected, IInv, CacheTypeOK
  <2> QED BY <1>3, <2>1, InsertStoredKeeps DEF Insert
<1>4. CASE NewDefinitions
  BY <1>4, <1>1, CacheAssumption DEF NewDefinitions, IInv, CacheTypeOK
<1>5. CASE UNCHANGED cacheVars
  BY <1>5, <1>1 DEF cacheVars, IInv, CacheTypeOK
<1> QED BY <1>2, <1>3, <1>4, <1>5, AgeKeeps DEF CacheNext

\* The conjunction of the four invariants is inductive.
THEOREM Invariance == CacheSpec => []IInv
<1> QED BY InitEstablishes, StepKeeps, PTL DEF CacheSpec

\* The state of src/verdict_cache.rs keeps its shape.
THEOREM TypeCorrect == CacheSpec => []CacheTypeOK
<1>1. IInv => CacheTypeOK
  BY DEF IInv
<1> QED BY <1>1, Invariance, PTL

\* assert_consistent of the unit tests holds after every history.
THEOREM IndexesConsistent == CacheSpec => []Consistent
<1>1. IInv => Consistent
  BY DEF IInv
<1> QED BY <1>1, Invariance, PTL

\* The cache never outgrows the capacity given to VerdictCache::new.
THEOREM CapacityKept == CacheSpec => []WithinCapacity
<1>1. IInv => WithinCapacity
  BY DEF IInv
<1> QED BY <1>1, Invariance, PTL

\* No partial clean verdict is ever kept.
THEOREM CleanIsComplete == CacheSpec => []NoPartialClean
<1>1. IInv => NoPartialClean
  BY DEF IInv
<1> QED BY <1>1, Invariance, PTL

\* Whatever a use of the cache pushes out was unused for longest.
LEMMA StepEvictsLeastRecent ==
  ASSUME IInv, [CacheNext]_cacheVars,
         NEW v \in DOMAIN entries \ DOMAIN entries', tick' # tick, NEW j \in DOMAIN entries
  PROVE  entries[v].tick <= entries[j].tick
<1>1. PICK k \in Keys, r \in Reports, g \in 1..generation : InsertStored(k, r, g)
  <2>1. ~UNCHANGED cacheVars /\ ~NewDefinitions /\ \A k \in Keys : ~Age(k)
    BY DEF cacheVars, NewDefinitions, Age
  <2>2. ASSUME NEW k \in Keys, NEW g \in 1..generation PROVE ~Get(k, g)
    BY DEF Get, GetMiss, GetStale, GetHit
  <2>3. ASSUME NEW r \in Reports PROVE ~InsertRejected(r)
    BY DEF InsertRejected
  <2> QED BY <2>1, <2>2, <2>3 DEF CacheNext, Insert
<1>2. DOMAIN entries' = (DOMAIN entries \ Displaced(k)) \cup {k}
  BY <1>1 DEF InsertStored, Put, Restrict
<1>3. v \in Displaced(k) /\ v # k
  BY <1>2
<1>4. DOMAIN recency # {} /\ v = recency[Oldest]
  BY <1>3 DEF Displaced
<1>5. Oldest \in DOMAIN recency /\ \A u \in DOMAIN recency : Oldest <= u
  BY <1>4, OldestIsSmallest DEF IInv
<1> QED BY <1>4, <1>5 DEF IInv, Consistent

\* pop_first evicts the least recently used entry.
THEOREM LeastRecentGoesFirst == CacheSpec => EvictsLeastRecent
<1>1. IInv /\ [CacheNext]_cacheVars =>
        [\A k \in DOMAIN entries \ DOMAIN entries' :
           tick' # tick => \A j \in DOMAIN entries : entries[k].tick <= entries[j].tick]_cacheVars
  BY StepEvictsLeastRecent
<1> QED BY <1>1, Invariance, PTL DEF CacheSpec, EvictsLeastRecent

-----------------------------------------------------------------------------
(* Ticks in order.                                                         *)

Orders(s, S) == s \in [1..Cardinality(S) -> S] /\ Sorted(s, S)

\* Of two ordered lists of one set that agree before a place, neither is ahead there.
LEMMA NotAhead ==
  ASSUME NEW S \in SUBSET Nat, NEW n \in Nat, NEW s \in [1..n -> S], NEW t \in [1..n -> S],
         Sorted(s, S), Sorted(t, S), NEW i \in 1..n, \A j \in 1..n : j < i => s[j] = t[j]
  PROVE  t[i] <= s[i]
<1>1. s[i] \in S /\ t[i] \in S /\ DOMAIN s = 1..n /\ DOMAIN t = 1..n
  OBVIOUS
<1>6. s[i] \in Nat /\ t[i] \in Nat
  BY <1>1
<1>7. i \in Nat /\ \A m \in 1..n : m \in Nat
  OBVIOUS
<1>2. PICK j \in 1..n : t[j] = s[i]
  BY <1>1 DEF Sorted
<1>3. ~(j < i)
  <2>1. ASSUME j < i PROVE FALSE
    <3>1. s[j] = s[i]
      BY <1>2, <2>1
    <3>2. s[j] < s[i]
      BY <1>1, <2>1 DEF Sorted
    <3> QED BY <1>6, <3>1, <3>2
  <2> QED BY <2>1
<1>4. CASE j = i
  BY <1>6, <1>2, <1>4
<1>5. CASE i < j
  <2>1. t[i] < t[j]
    BY <1>1, <1>5 DEF Sorted
  <2> QED BY <1>6, <1>2, <2>1
<1> QED BY <1>3, <1>4, <1>5, <1>7

\* A set of ticks has one order.
LEMMA OneOrder ==
  ASSUME NEW S \in SUBSET Nat, IsFiniteSet(S), NEW s, NEW t, Orders(s, S), Orders(t, S)
  PROVE  s = t
<1> DEFINE n == Cardinality(S)
           D == {i \in 1..n : s[i] # t[i]}
<1>1. n \in Nat
  BY FS_CardinalityType
<1>2. s \in [1..n -> S] /\ t \in [1..n -> S] /\ Sorted(s, S) /\ Sorted(t, S)
  BY DEF Orders
<1> HIDE DEF n
<1>3. CASE D = {}
  <2>1. \A i \in 1..n : s[i] = t[i]
    BY <1>3
  <2>2. s = [i \in 1..n |-> s[i]] /\ t = [i \in 1..n |-> t[i]]
    BY <1>2
  <2> QED BY <2>1, <2>2
<1>4. CASE D # {}
  <2>1. D \in SUBSET Nat
    BY <1>1
  <2>2. PICK i \in D : \A u \in D : i <= u
    BY <1>4, <2>1, SmallestTick
  <2>3. i \in 1..n /\ s[i] # t[i] /\ \A j \in 1..n : j < i => s[j] = t[j]
    BY <1>1, <2>2
  <2> HIDE DEF D
  <2>4. t[i] <= s[i]
    BY <1>1, <1>2, <2>3, NotAhead
  <2>5. \A j \in 1..n : j < i => t[j] = s[j]
    BY <2>3
  <2>6. s[i] <= t[i]
    BY <1>1, <1>2, <2>3, <2>5, NotAhead
  <2>7. s[i] \in Nat /\ t[i] \in Nat
    BY <1>2, <2>3
  <2> QED BY <2>3, <2>4, <2>6, <2>7
<1> QED BY <1>3, <1>4

\* ... which is the one InOrder chooses.
LEMMA TheOrder ==
  ASSUME NEW S \in SUBSET Nat, IsFiniteSet(S), NEW s, Orders(s, S)
  PROVE  InOrder(S) = s
<1>1. \E u \in [1..Cardinality(S) -> S] : Sorted(u, S)
  BY DEF Orders
<1>2. Orders(InOrder(S), S)
  BY <1>1 DEF InOrder, Orders
<1> HIDE DEF Orders
<1> QED BY <1>2, OneOrder

\* A list without the element at one place.
LEMMA RemoveFacts ==
  ASSUME NEW E, NEW s \in Seq(E), NEW i \in 1..Len(s)
  PROVE  /\ Lru!RemoveAt(s, i) \in Seq(E)
         /\ Len(Lru!RemoveAt(s, i)) = Len(s) - 1
         /\ Len(s) - 1 \in Nat
         /\ DOMAIN Lru!RemoveAt(s, i) = 1..(Len(s) - 1)
         /\ \A j \in 1..(Len(s) - 1) : Lru!RemoveAt(s, i)[j] = IF j < i THEN s[j] ELSE s[j + 1]
<1> DEFINE n == Len(s)
           a == SubSeq(s, 1, i - 1)
           b == SubSeq(s, i + 1, n)
           r == Lru!RemoveAt(s, i)
<1>1. n \in Nat /\ i \in Int /\ 1 <= i /\ i <= n /\ \A j \in 1..n : s[j] \in E
  OBVIOUS
<1>2. a \in Seq(E) /\ Len(a) = i - 1 /\ \A j \in 1..(i - 1) : a[j] = s[j]
  BY <1>1, SubSeqProperties
<1>3. b \in Seq(E) /\ Len(b) = n - i /\ \A j \in 1..(n - i) : b[j] = s[j + i]
  BY <1>1, SubSeqProperties
<1>4. r = a \o b
  BY DEF Lru!RemoveAt
<1> HIDE DEF a, b, r, n
<1>5. r \in Seq(E) /\ Len(r) = Len(a) + Len(b)
  BY <1>2, <1>3, <1>4, ConcatProperties
<1>6. Len(r) = n - 1 /\ n - 1 \in Nat
  BY <1>1, <1>2, <1>3, <1>5
<1>7. ASSUME NEW j \in 1..(n - 1) PROVE r[j] = IF j < i THEN s[j] ELSE s[j + 1]
  <2>1. j \in Int /\ 1 <= j /\ j <= n - 1
    BY <1>1
  <2>2. j \in 1..(Len(a) + Len(b))
    BY <1>1, <1>2, <1>3, <2>1
  <2>3. r[j] = IF j <= Len(a) THEN a[j] ELSE b[j - Len(a)]
    BY <1>2, <1>3, <1>4, <2>2, ConcatProperties
  <2>4. CASE j < i
    <3>1. j <= Len(a) /\ j \in 1..(i - 1)
      BY <1>1, <1>2, <2>1, <2>4
    <3> QED BY <1>2, <2>3, <2>4, <3>1
  <2>5. CASE ~(j < i)
    <3>1. ~(j <= Len(a)) /\ j - Len(a) = j - i + 1 /\ j - i + 1 \in 1..(n - i) /\ (j - i + 1) + i = j + 1
      BY <1>1, <1>2, <2>1, <2>5
    <3>2. b[j - i + 1] = s[(j - i + 1) + i]
      BY <1>3, <3>1
    <3> QED BY <2>3, <2>5, <3>1, <3>2
  <2> QED BY <2>4, <2>5
<1>8. DOMAIN r = 1..(n - 1)
  BY <1>5, <1>6
<1> QED BY <1>5, <1>6, <1>7, <1>8 DEF n, r

\* The order is a sequence as long as the set is large.
LEMMA OrderSeq ==
  ASSUME NEW S \in SUBSET Nat, IsFiniteSet(S), NEW s, Orders(s, S)
  PROVE  /\ s \in Seq(S) /\ Len(s) = Cardinality(S) /\ Cardinality(S) \in Nat
         /\ DOMAIN s = 1..Len(s) /\ \A i \in 1..Len(s) : s[i] \in S /\ s[i] \in Nat
         /\ \A i, j \in 1..Len(s) : i < j => s[i] < s[j]
         /\ \A t \in S : \E i \in 1..Len(s) : s[i] = t
<1> DEFINE n == Cardinality(S)
<1>1. n \in Nat /\ s \in [1..n -> S]
  BY FS_CardinalityType DEF Orders
<1> HIDE DEF n
<1>2. s \in Seq(S) /\ Len(s) = n /\ DOMAIN s = 1..Len(s)
  BY <1>1
<1>3. \A i \in 1..Len(s) : s[i] \in S /\ s[i] \in Nat
  BY <1>1, <1>2
<1>4. Sorted(s, S)
  BY DEF Orders
<1> QED BY <1>1, <1>2, <1>3, <1>4 DEF n, Sorted

\* Without one tick the rest stays in order.
LEMMA OrderRemove ==
  ASSUME NEW S \in SUBSET Nat, IsFiniteSet(S), NEW s, Orders(s, S), NEW i \in 1..Len(s)
  PROVE  Orders(Lru!RemoveAt(s, i), S \ {s[i]})
<1> DEFINE n == Len(s)
           r == Lru!RemoveAt(s, i)
           T == S \ {s[i]}
<1>1. /\ s \in Seq(S) /\ n = Cardinality(S) /\ n \in Nat
      /\ \A j \in 1..n : s[j] \in S /\ s[j] \in Nat
      /\ \A j, m \in 1..n : j < m => s[j] < s[m]
      /\ \A t \in S : \E j \in 1..n : s[j] = t
  BY OrderSeq
<1>2. /\ r \in Seq(S) /\ n - 1 \in Nat /\ DOMAIN r = 1..(n - 1)
      /\ \A j \in 1..(n - 1) : r[j] = IF j < i THEN s[j] ELSE s[j + 1]
  <2>1. s \in Seq(S) /\ i \in 1..Len(s)
    BY <1>1
  <2> QED BY ONLY <2>1, RemoveFacts
<1>3. i \in 1..n /\ s[i] \in S
  BY <1>1
<1> HIDE DEF n, r
<1>4. Cardinality(T) = n - 1
  BY <1>1, <1>3, FS_RemoveElement
<1> HIDE DEF T
<1>5. \A j \in 1..(n - 1) : j \in 1..n /\ j + 1 \in 1..n /\ j \in Int
  BY <1>1
<1>6. \A j \in 1..n : s[j] = s[i] => j = i
  BY <1>1, <1>3
<1>7. ASSUME NEW j \in 1..(n - 1) PROVE r[j] \in T
  <2>1. CASE j < i
    <3>1. r[j] = s[j] /\ j # i /\ s[j] \in S
      BY <1>1, <1>2, <1>3, <1>5, <2>1
    <3> QED BY <1>5, <1>6, <3>1 DEF T
  <2>2. CASE ~(j < i)
    <3>1. j + 1 # i
      BY <1>3, <1>5, <2>2
    <3> QED BY <1>1, <1>2, <1>3, <1>5, <1>6, <2>2, <3>1 DEF T
  <2> QED BY <2>1, <2>2
<1>8. r \in [1..(n - 1) -> T]
  <2>1. r = [j \in 1..(n - 1) |-> r[j]]
    BY <1>2
  <2> QED BY <1>7, <2>1
<1>9. ASSUME NEW j \in 1..(n - 1), NEW m \in 1..(n - 1), j < m PROVE r[j] < r[m]
  <2> DEFINE x == IF j < i THEN j ELSE j + 1
             y == IF m < i THEN m ELSE m + 1
  <2>2. r[j] = s[x] /\ r[m] = s[y]
    BY <1>2
  <2>3. x \in 1..n /\ y \in 1..n /\ x < y
    BY <1>3, <1>5, <1>9
  <2> QED BY <1>1, <2>2, <2>3
<1>10. ASSUME NEW t \in T PROVE \E j \in 1..(n - 1) : r[j] = t
  <2>1. PICK j \in 1..n : s[j] = t
    BY <1>1 DEF T
  <2>2. j # i /\ j \in Int
    BY <1>1, <2>1 DEF T
  <2>3. CASE j < i
    <3>1. j \in 1..(n - 1)
      BY <1>1, <1>3, <2>1, <2>3
    <3> QED BY <1>2, <2>1, <2>3, <3>1
  <2>4. CASE i < j
    <3>1. j - 1 \in 1..(n - 1) /\ ~(j - 1 < i) /\ (j - 1) + 1 = j
      BY <1>1, <1>3, <2>2, <2>4
    <3>2. r[j - 1] = s[j]
      BY <1>2, <3>1
    <3> QED BY <2>1, <3>1, <3>2
  <2> QED BY <1>3, <2>2, <2>3, <2>4
<1>11. Sorted(r, T)
  BY <1>2, <1>9, <1>10 DEF Sorted
<1> QED BY <1>4, <1>8, <1>11 DEF Orders, r, T

\* A later tick goes to the end.
LEMMA OrderAppend ==
  ASSUME NEW S \in SUBSET Nat, IsFiniteSet(S), NEW s, Orders(s, S), NEW x \in Nat, \A t \in S : t < x
  PROVE  Orders(Append(s, x), S \cup {x})
<1> DEFINE n == Len(s)
           r == Append(s, x)
           T == S \cup {x}
<1>1. /\ s \in Seq(S) /\ n = Cardinality(S) /\ n \in Nat
      /\ \A j \in 1..n : s[j] \in S /\ s[j] \in Nat
      /\ \A j, m \in 1..n : j < m => s[j] < s[m]
      /\ \A t \in S : \E j \in 1..n : s[j] = t
  BY OrderSeq
<1>2. DOMAIN r = 1..(n + 1) /\ r[n + 1] = x /\ \A j \in 1..n : r[j] = s[j]
  BY <1>1
<1>3. r = [j \in 1..(n + 1) |-> r[j]]
  <2>1. r \in Seq(S \cup {x}) /\ Len(r) = n + 1
    BY <1>1, AppendProperties
  <2> HIDE DEF r, n
  <2> QED BY <2>1
<1>4. x \notin S
  BY <1>1
<1>5. Cardinality(T) = n + 1
  BY <1>1, <1>4, FS_AddElement
<1> HIDE DEF n, r, T
<1>6. \A j \in 1..(n + 1) : j \in 1..n \/ j = n + 1
  BY <1>1
<1>7. \A j \in 1..(n + 1) : r[j] \in T
  BY <1>1, <1>2, <1>6 DEF T
<1>8. r \in [1..(n + 1) -> T]
  BY <1>3, <1>7
<1>9. ASSUME NEW j \in 1..(n + 1), NEW m \in 1..(n + 1), j < m PROVE r[j] < r[m]
  <2>1. j \in 1..n
    BY <1>1, <1>9
  <2>2. CASE m = n + 1
    BY <1>1, <1>2, <2>1, <2>2
  <2>3. CASE m \in 1..n
    BY <1>1, <1>2, <1>9, <2>1, <2>3
  <2> QED BY <1>6, <2>2, <2>3
<1>10. ASSUME NEW t \in T PROVE \E j \in 1..(n + 1) : r[j] = t
  <2>1. n + 1 \in 1..(n + 1) /\ \A j \in 1..n : j \in 1..(n + 1)
    BY <1>1
  <2> QED BY <1>1, <1>2, <2>1 DEF T
<1>11. Sorted(r, T)
  BY <1>2, <1>9, <1>10 DEF Sorted
<1> QED BY <1>5, <1>8, <1>11 DEF Orders, r, T

\* The values a list of ticks stands for.
Mapped(s, F) == [i \in DOMAIN s |-> F[s[i]]]

\* Removing a place before or after the reading is the same.
LEMMA MappedRemove ==
  ASSUME NEW S, NEW s \in Seq(S), NEW i \in 1..Len(s), NEW F
  PROVE  Lru!RemoveAt(Mapped(s, F), i) = Mapped(Lru!RemoveAt(s, i), F)
<1> DEFINE n == Len(s)
           m == Mapped(s, F)
           r == Lru!RemoveAt(s, i)
           q == Lru!RemoveAt(m, i)
           E == {F[t] : t \in S}
<1>1. n \in Nat /\ DOMAIN s = 1..n /\ i \in 1..n /\ \A j \in 1..n : s[j] \in S
  OBVIOUS
<1>2. m = [j \in 1..n |-> F[s[j]]]
  BY <1>1 DEF Mapped
<1>3. DOMAIN r = 1..(n - 1) /\ \A j \in 1..(n - 1) : r[j] = IF j < i THEN s[j] ELSE s[j + 1]
  BY RemoveFacts
<1> HIDE DEF n, m, r
<1>4. \A j \in 1..n : F[s[j]] \in E
  BY <1>1
<1> HIDE DEF E
<1>5. m \in Seq(E) /\ Len(m) = n
  BY <1>1, <1>2, <1>4
<1>6. q \in Seq(E) /\ DOMAIN q = 1..(n - 1) /\ \A j \in 1..(n - 1) : q[j] = IF j < i THEN m[j] ELSE m[j + 1]
  BY <1>1, <1>5, RemoveFacts
<1> HIDE DEF q
<1>7. \A j \in 1..(n - 1) : j \in 1..n /\ j + 1 \in 1..n
  BY <1>1
<1>8. \A j \in 1..(n - 1) : q[j] = F[r[j]]
  BY <1>2, <1>3, <1>6, <1>7
<1>9. q = [j \in 1..(n - 1) |-> q[j]]
  BY <1>6
<1> QED BY <1>3, <1>8, <1>9 DEF Mapped, q, m, r

\* So is adding at the end.
LEMMA MappedAppend ==
  ASSUME NEW S, NEW s \in Seq(S), NEW x, NEW E, NEW F, \A t \in S : F[t] \in E, F[x] \in E
  PROVE  Append(Mapped(s, F), F[x]) = Mapped(Append(s, x), F)
<1> DEFINE n == Len(s)
           m == Mapped(s, F)
           r == Append(s, x)
           q == Append(m, F[x])
<1>1. n \in Nat /\ DOMAIN s = 1..n /\ \A j \in 1..n : s[j] \in S
  OBVIOUS
<1>2. m = [j \in 1..n |-> F[s[j]]]
  BY <1>1 DEF Mapped
<1>3. DOMAIN r = 1..(n + 1) /\ r[n + 1] = x /\ \A j \in 1..n : r[j] = s[j]
  BY <1>1
<1> HIDE DEF n, m, r
<1>4. \A j \in 1..n : F[s[j]] \in E
  BY <1>1
<1>5. m \in Seq(E) /\ Len(m) = n
  BY <1>1, <1>2, <1>4
<1>6. q \in Seq(E) /\ Len(q) = n + 1 /\ q[n + 1] = F[x] /\ \A j \in 1..n : q[j] = m[j]
  BY <1>5, AppendProperties
<1> HIDE DEF q
<1>7. \A j \in 1..(n + 1) : j \in 1..n \/ j = n + 1
  BY <1>1
<1>8. \A j \in 1..(n + 1) : q[j] = F[r[j]]
  BY <1>2, <1>3, <1>6, <1>7
<1>9. q = [j \in 1..(n + 1) |-> q[j]]
  BY <1>6
<1> QED BY <1>3, <1>8, <1>9 DEF Mapped, q, m, r

\* Only the ticks in the list matter.
LEMMA MappedSame ==
  ASSUME NEW S, NEW s \in Seq(S), NEW F, NEW G, \A t \in S : F[t] = G[t]
  PROVE  Mapped(s, F) = Mapped(s, G)
<1>1. \A i \in DOMAIN s : s[i] \in S
  OBVIOUS
<1> QED BY <1>1 DEF Mapped

-----------------------------------------------------------------------------
(* The cache read as a list.                                               *)

\* The entry a tick stands for.
At == [t \in DOMAIN recency |-> Listed(recency[t])]

OrderInv == Orders(Ticks, DOMAIN recency)
RefInv == IInv /\ OrderInv

\* The ticks in use are finitely many.
LEMMA TicksFinite ==
  ASSUME IInv
  PROVE  DOMAIN recency \in SUBSET Nat /\ IsFiniteSet(DOMAIN recency)
<1>1. DOMAIN recency \subseteq 1..tick /\ tick \in Nat
  BY DEF IInv, CacheTypeOK
<1>2. 0 \in Int /\ 1 \in Int /\ tick \in Int
  BY <1>1
<1>3. IsFiniteSet(1..tick)
  BY <1>2, FS_Interval
<1>4. IsFiniteSet(DOMAIN recency)
  BY <1>1, <1>3, FS_Subset
<1> QED BY <1>1, <1>4

\* The list of ticks, as a sequence.
LEMMA TickFacts ==
  ASSUME RefInv
  PROVE  /\ Ticks \in Seq(DOMAIN recency) /\ Len(Ticks) = Cardinality(DOMAIN recency)
         /\ Len(Ticks) \in Nat /\ DOMAIN Ticks = 1..Len(Ticks)
         /\ \A i \in 1..Len(Ticks) : Ticks[i] \in DOMAIN recency /\ Ticks[i] \in Nat
         /\ \A i, j \in 1..Len(Ticks) : i < j => Ticks[i] < Ticks[j]
         /\ \A t \in DOMAIN recency : \E i \in 1..Len(Ticks) : Ticks[i] = t
<1>1. DOMAIN recency \in SUBSET Nat /\ IsFiniteSet(DOMAIN recency)
  BY TicksFinite DEF RefInv
<1>2. Orders(Ticks, DOMAIN recency)
  BY DEF RefInv, OrderInv
<1> HIDE DEF Orders
<1> QED BY <1>1, <1>2, OrderSeq

\* Every tick stands for a well-formed entry, the one of its key.
LEMMA AtFacts ==
  ASSUME IInv
  PROVE  \A t \in DOMAIN recency : At[t] = Listed(recency[t]) /\ At[t] \in Lru!Entry /\ At[t].key = recency[t]
<1>1. ASSUME NEW t \in DOMAIN recency
      PROVE  At[t] = Listed(recency[t]) /\ At[t] \in Lru!Entry /\ At[t].key = recency[t]
  <2>1. At[t] = Listed(recency[t])
    BY DEF At
  <2>2. recency[t] \in DOMAIN entries /\ recency[t] \in Keys /\ entries[recency[t]] \in EntryType
    BY DEF IInv, CacheTypeOK, Consistent
  <2> QED BY <2>1, <2>2 DEF Listed, Lru!Entry, EntryType
<1> QED BY <1>1

\* The list as the reading of its ticks.
LEMMA ListFacts ==
  ASSUME RefInv
  PROVE  /\ ListOfEntries = Mapped(Ticks, At)
         /\ ListOfEntries \in Seq(Lru!Entry) /\ Len(ListOfEntries) = Len(Ticks)
         /\ DOMAIN ListOfEntries = 1..Len(Ticks)
         /\ \A i \in 1..Len(Ticks) : /\ ListOfEntries[i] = Listed(recency[Ticks[i]])
                                     /\ ListOfEntries[i].key = recency[Ticks[i]]
<1> DEFINE n == Len(Ticks)
<1>1. /\ n \in Nat /\ DOMAIN Ticks = 1..n
      /\ \A i \in 1..n : Ticks[i] \in DOMAIN recency
  BY TickFacts
<1>2. \A i \in 1..n : /\ At[Ticks[i]] = Listed(recency[Ticks[i]]) /\ At[Ticks[i]] \in Lru!Entry
                      /\ At[Ticks[i]].key = recency[Ticks[i]]
  BY <1>1, AtFacts DEF RefInv
<1> HIDE DEF n
<1>3. ListOfEntries = [i \in 1..n |-> At[Ticks[i]]]
  BY <1>1, <1>2 DEF ListOfEntries
<1>4. ListOfEntries = Mapped(Ticks, At)
  BY <1>1, <1>3 DEF Mapped
<1>5. ListOfEntries \in Seq(Lru!Entry) /\ Len(ListOfEntries) = n
  BY <1>1, <1>2, <1>3
<1> QED BY <1>2, <1>3, <1>4, <1>5 DEF n

\* A key is in the list exactly when the map has it, at the place of its tick.
LEMMA PlaceFacts ==
  ASSUME RefInv, NEW k \in DOMAIN entries
  PROVE  /\ Lru!Holds(ListOfEntries, k)
         /\ Lru!Place(ListOfEntries, k) \in 1..Len(Ticks)
         /\ Ticks[Lru!Place(ListOfEntries, k)] = entries[k].tick
         /\ Lru!EntryOf(ListOfEntries, k) = Listed(k)
<1> DEFINE n == Len(Ticks)
           p == Lru!Place(ListOfEntries, k)
<1>1. entries[k].tick \in DOMAIN recency /\ recency[entries[k].tick] = k
  BY DEF RefInv, IInv, Consistent
<1>2. PICK i \in 1..n : Ticks[i] = entries[k].tick
  BY <1>1, TickFacts
<1>3. DOMAIN ListOfEntries = 1..n /\ \A j \in 1..n : /\ ListOfEntries[j].key = recency[Ticks[j]]
                                                     /\ ListOfEntries[j] = Listed(recency[Ticks[j]])
  BY ListFacts
<1>4. \A j \in 1..n : Ticks[j] \in DOMAIN recency
  BY TickFacts
<1> HIDE DEF n
<1>5. \E j \in DOMAIN ListOfEntries : ListOfEntries[j].key = k
  BY <1>1, <1>2, <1>3
<1>6. p \in 1..n /\ ListOfEntries[p].key = k
  BY <1>3, <1>5 DEF Lru!Place
<1> HIDE DEF p
<1>7. recency[Ticks[p]] = k /\ Ticks[p] \in DOMAIN recency
  BY <1>3, <1>4, <1>6
<1>8. Ticks[p] = entries[k].tick
  BY <1>7 DEF RefInv, IInv, Consistent
<1>9. Lru!Holds(ListOfEntries, k)
  BY <1>5 DEF Lru!Holds
<1>10. Lru!EntryOf(ListOfEntries, k) = Listed(k)
  BY <1>3, <1>6, <1>7 DEF Lru!EntryOf, p
<1> QED BY <1>6, <1>8, <1>9, <1>10 DEF n, p

LEMMA NotHeld ==
  ASSUME RefInv, NEW k, k \notin DOMAIN entries
  PROVE  ~Lru!Holds(ListOfEntries, k)
<1>1. DOMAIN ListOfEntries = 1..Len(Ticks) /\ \A j \in 1..Len(Ticks) : ListOfEntries[j].key = recency[Ticks[j]]
  BY ListFacts
<1>2. \A j \in 1..Len(Ticks) : Ticks[j] \in DOMAIN recency
  BY TickFacts
<1>3. \A j \in 1..Len(Ticks) : recency[Ticks[j]] \in DOMAIN entries
  BY <1>2 DEF RefInv, IInv, Consistent
<1> QED BY <1>1, <1>3 DEF Lru!Holds

\* The list is as long as the map is large.
LEMMA AsManyTicks ==
  ASSUME RefInv
  PROVE  Len(Ticks) = Cardinality(DOMAIN entries)
<1> DEFINE K == DOMAIN entries
           T == DOMAIN recency
           f == [k \in K |-> entries[k].tick]
<1>1. \A k \in K : entries[k].tick \in T /\ recency[entries[k].tick] = k
  BY DEF RefInv, IInv, Consistent
<1>2. \A t \in T : recency[t] \in K /\ entries[recency[t]].tick = t
  BY DEF RefInv, IInv, Consistent
<1>3. IsFiniteSet(K)
  BY DEF RefInv, IInv, WithinCapacity
<1>4. IsFiniteSet(T)
  BY TicksFinite DEF RefInv
<1> HIDE DEF K, T
<1>5. f \in Bijection(K, T)
  <2>1. f \in [K -> T]
    BY <1>1
  <2>2. \A k, j \in K : f[k] = f[j] => k = j
    BY <1>1
  <2>3. \A t \in T : \E k \in K : f[k] = t
    BY <1>2
  <2>4. IsInjective(f)
    BY <2>2 DEF IsInjective
  <2> HIDE DEF f
  <2> QED BY <2>1, <2>3, <2>4 DEF Bijection, Injection, Surjection
<1>6. ExistsBijection(K, T)
  BY <1>5 DEF ExistsBijection
<1>7. Cardinality(K) = Cardinality(T)
  BY <1>3, <1>4, <1>6, FS_Bijection
<1> QED BY <1>7, TickFacts DEF K, T

\* pop_first takes the head of the list.
LEMMA HeadIsOldest ==
  ASSUME RefInv, Len(Ticks) # 0
  PROVE  1 \in 1..Len(Ticks) /\ Ticks[1] = Oldest /\ DOMAIN recency # {}
<1>1. 1 \in 1..Len(Ticks)
  BY TickFacts
<1>2. Ticks[1] \in DOMAIN recency
  BY <1>1, TickFacts
<1>3. CacheTypeOK /\ DOMAIN recency # {}
  BY <1>2 DEF RefInv, IInv
<1>4. Oldest \in DOMAIN recency /\ Oldest <= Ticks[1]
  BY <1>2, <1>3, OldestIsSmallest
<1>5. PICK i \in 1..Len(Ticks) : Ticks[i] = Oldest
  BY <1>4, TickFacts
<1>6. i = 1 \/ 1 < i
  BY <1>5, TickFacts
<1>7. ~(1 < i)
  <2>1. 1 < i => Ticks[1] < Ticks[i]
    BY <1>1, <1>5, TickFacts
  <2>2. Ticks[1] \in Nat /\ Ticks[i] \in Nat
    BY <1>1, <1>5, TickFacts
  <2> QED BY <1>4, <1>5, <2>1, <2>2
<1> QED BY <1>1, <1>3, <1>5, <1>6, <1>7

\* Taking the head off is removing the first place.
LEMMA TailRemoves ==
  ASSUME NEW E, NEW s \in Seq(E), Len(s) # 0
  PROVE  Tail(s) = Lru!RemoveAt(s, 1)
<1> DEFINE n == Len(s)
           a == Tail(s)
           r == Lru!RemoveAt(s, 1)
<1>1. n \in Nat /\ 1 \in 1..n /\ s # << >>
  OBVIOUS
<1>2. a \in Seq(E) /\ Len(a) = n - 1 /\ \A j \in 1..Len(a) : a[j] = s[j + 1]
  BY <1>1, HeadTailProperties
<1>3. r \in Seq(E) /\ Len(r) = n - 1 /\ \A j \in 1..(n - 1) : r[j] = IF j < 1 THEN s[j] ELSE s[j + 1]
  BY <1>1, RemoveFacts
<1> HIDE DEF a, r, n
<1>4. \A j \in 1..(n - 1) : a[j] = r[j]
  BY <1>1, <1>2, <1>3
<1>5. a = [j \in 1..(n - 1) |-> a[j]] /\ r = [j \in 1..(n - 1) |-> r[j]]
  BY <1>2, <1>3
<1> QED BY <1>4, <1>5 DEF a, r

-----------------------------------------------------------------------------
(* What a step does to the list.                                           *)

\* Nothing moved.
LEMMA SameList ==
  ASSUME RefInv, entries' = entries, recency' = recency
  PROVE  OrderInv' /\ ListOfEntries' = ListOfEntries
<1>1. Ticks' = Ticks
  BY DEF Ticks
<1>2. OrderInv'
  BY <1>1 DEF RefInv, OrderInv
<1>3. \A k : Listed(k)' = Listed(k)
  BY DEF Listed
<1> QED BY <1>1, <1>2, <1>3 DEF ListOfEntries

\* The list after a step, read from its ticks.
LEMMA ReadNext ==
  ASSUME Ticks' \in Seq(DOMAIN recency')
  PROVE  ListOfEntries' = Mapped(Ticks', At')
<1>1. \A i \in DOMAIN Ticks' : Ticks'[i] \in DOMAIN recency'
  OBVIOUS
<1>2. \A t \in DOMAIN recency' : At'[t] = Listed(recency[t])'
  BY DEF At, Listed
<1> QED BY <1>1, <1>2 DEF ListOfEntries, Mapped, Listed

\* One slot went: the list lost that place.
LEMMA OneRemoved ==
  ASSUME RefInv, NEW i \in 1..Len(Ticks),
         DOMAIN recency' = DOMAIN recency \ {Ticks[i]},
         \A t \in DOMAIN recency' : At'[t] = At[t]
  PROVE  OrderInv' /\ ListOfEntries' = Lru!RemoveAt(ListOfEntries, i)
<1> DEFINE S == DOMAIN recency
           T == DOMAIN recency'
           r == Lru!RemoveAt(Ticks, i)
<1>1. S \in SUBSET Nat /\ IsFiniteSet(S) /\ Orders(Ticks, S)
  BY TicksFinite DEF RefInv, OrderInv
<1>2. T = S \ {Ticks[i]} /\ IsFiniteSet(T)
  <2>1. IsFiniteSet(S \ {Ticks[i]})
    BY <1>1, FS_RemoveElement
  <2> QED BY <2>1
<1>3. T \in SUBSET Nat
  BY <1>1, <1>2
<1> HIDE DEF Orders
<1>4. Orders(r, T)
  BY <1>1, <1>2, OrderRemove
<1>5. InOrder(T) = r
  BY <1>2, <1>3, <1>4, TheOrder
<1>6. Ticks' = r
  BY <1>5 DEF Ticks
<1>7. OrderInv'
  BY <1>4, <1>6 DEF OrderInv
<1>8. r \in Seq(T)
  BY <1>2, <1>3, <1>4, OrderSeq
<1>9. ListOfEntries' = Mapped(r, At')
  BY <1>6, <1>8, ReadNext
<1>10. Mapped(r, At') = Mapped(r, At)
  BY <1>8, MappedSame
<1>11. Mapped(r, At) = Lru!RemoveAt(ListOfEntries, i)
  <2>1. Ticks \in Seq(S) /\ ListOfEntries = Mapped(Ticks, At)
    BY TickFacts, ListFacts
  <2> HIDE DEF S
  <2>2. Lru!RemoveAt(Mapped(Ticks, At), i) = Mapped(r, At)
    BY <2>1, MappedRemove
  <2> QED BY <2>1, <2>2
<1> QED BY <1>7, <1>9, <1>10, <1>11

\* One slot was added: the list grew at its end.
LEMMA OneAdded ==
  ASSUME RefInv, IInv', tick' = tick + 1,
         DOMAIN recency' = DOMAIN recency \cup {tick + 1},
         \A t \in DOMAIN recency : At'[t] = At[t]
  PROVE  OrderInv' /\ ListOfEntries' = Append(ListOfEntries, At'[tick + 1])
<1> DEFINE S == DOMAIN recency
           T == DOMAIN recency'
           x == tick + 1
           r == Append(Ticks, x)
<1>1. S \in SUBSET Nat /\ IsFiniteSet(S) /\ Orders(Ticks, S)
  BY TicksFinite DEF RefInv, OrderInv
<1>2. x \in Nat /\ (\A t \in S : t < x) /\ T = S \cup {x}
  BY DEF RefInv, IInv, CacheTypeOK
<1> HIDE DEF Orders, x
<1>3. T \in SUBSET Nat
  BY <1>1, <1>2
<1>4. IsFiniteSet(T)
  <2>1. IsFiniteSet(S \cup {x})
    BY <1>1, FS_AddElement
  <2> QED BY <1>2, <2>1
<1>5. Orders(r, T)
  BY <1>1, <1>2, OrderAppend
<1>6. InOrder(T) = r
  BY <1>3, <1>4, <1>5, TheOrder
<1>7. Ticks' = r
  BY <1>6 DEF Ticks
<1>8. OrderInv'
  BY <1>5, <1>7 DEF OrderInv
<1>9. r \in Seq(T)
  BY <1>3, <1>4, <1>5, OrderSeq
<1>10. ListOfEntries' = Mapped(r, At')
  BY <1>7, <1>9, ReadNext
<1>11. Ticks \in Seq(S) /\ ListOfEntries = Mapped(Ticks, At)
  BY TickFacts, ListFacts
<1>12. Mapped(Ticks, At') = ListOfEntries
  BY <1>11, MappedSame
<1>13. Append(Mapped(Ticks, At'), At'[x]) = Mapped(r, At')
  <2> DEFINE F == At'
             E == {F[t] : t \in T}
  <2>1. (\A t \in S : F[t] \in E) /\ F[x] \in E
    BY <1>2
  <2> HIDE DEF S, E, F
  <2>2. Append(Mapped(Ticks, F), F[x]) = Mapped(r, F)
    BY <1>11, <2>1, MappedAppend
  <2> QED BY <2>2 DEF F
<1> QED BY <1>8, <1>10, <1>12, <1>13 DEF x

\* One slot went and one was added, as at a hit, an overwrite and an eviction.
LEMMA OneMoved ==
  ASSUME RefInv, IInv', tick' = tick + 1, NEW i \in 1..Len(Ticks),
         DOMAIN recency' = (DOMAIN recency \ {Ticks[i]}) \cup {tick + 1},
         \A t \in DOMAIN recency \ {Ticks[i]} : At'[t] = At[t]
  PROVE  OrderInv' /\ ListOfEntries' = Append(Lru!RemoveAt(ListOfEntries, i), At'[tick + 1])
<1> DEFINE S == DOMAIN recency
           R == S \ {Ticks[i]}
           T == DOMAIN recency'
           x == tick + 1
           q == Lru!RemoveAt(Ticks, i)
           r == Append(q, x)
<1>1. S \in SUBSET Nat /\ IsFiniteSet(S) /\ Orders(Ticks, S)
  BY TicksFinite DEF RefInv, OrderInv
<1>2. x \in Nat /\ (\A t \in R : t < x) /\ T = R \cup {x}
  BY DEF RefInv, IInv, CacheTypeOK
<1> HIDE DEF Orders, x
<1>3. R \in SUBSET Nat /\ T \in SUBSET Nat
  BY <1>1, <1>2
<1>4. IsFiniteSet(R)
  BY <1>1, FS_RemoveElement
<1>5. Orders(q, R)
  BY <1>1, OrderRemove
<1> HIDE DEF q, R
<1>6. IsFiniteSet(T)
  <2>1. IsFiniteSet(R \cup {x})
    BY <1>4, FS_AddElement
  <2> QED BY <1>2, <2>1
<1>7. Orders(r, T)
  BY <1>2, <1>3, <1>4, <1>5, OrderAppend
<1>8. InOrder(T) = r
  BY <1>3, <1>6, <1>7, TheOrder
<1>9. Ticks' = r
  BY <1>8 DEF Ticks
<1>10. OrderInv'
  BY <1>7, <1>9 DEF OrderInv
<1>11. r \in Seq(T) /\ q \in Seq(R)
  BY <1>3, <1>4, <1>5, <1>6, <1>7, OrderSeq
<1>12. ListOfEntries' = Mapped(r, At')
  BY <1>9, <1>11, ReadNext
<1>13. Mapped(q, At') = Mapped(q, At)
  <2>1. \A t \in R : At'[t] = At[t]
    BY DEF R
  <2> QED BY <1>11, <2>1, MappedSame
<1>14. Mapped(q, At) = Lru!RemoveAt(ListOfEntries, i)
  <2>1. Ticks \in Seq(S) /\ ListOfEntries = Mapped(Ticks, At)
    BY TickFacts, ListFacts
  <2> HIDE DEF S
  <2>2. Lru!RemoveAt(Mapped(Ticks, At), i) = Mapped(q, At)
    BY <2>1, MappedRemove DEF q
  <2> QED BY <2>1, <2>2
<1>15. Append(Mapped(q, At'), At'[x]) = Mapped(r, At')
  <2> DEFINE F == At'
             E == {F[t] : t \in T}
  <2>1. (\A t \in R : F[t] \in E) /\ F[x] \in E
    BY <1>2
  <2> HIDE DEF E, F
  <2>2. Append(Mapped(q, F), F[x]) = Mapped(r, F)
    BY <1>11, <2>1, MappedAppend
  <2> QED BY <2>2 DEF F
<1> QED BY <1>10, <1>12, <1>13, <1>14, <1>15 DEF x

-----------------------------------------------------------------------------
(* Each operation of the cache is one of the list.                         *)

\* A slot whose key and entry stay stands for the same entry.
LEMMA SameAt ==
  ASSUME NEW t \in DOMAIN recency, t \in DOMAIN recency', recency'[t] = recency[t],
         entries'[recency[t]].report = entries[recency[t]].report,
         entries'[recency[t]].gen = entries[recency[t]].gen,
         entries'[recency[t]].aged = entries[recency[t]].aged
  PROVE  At'[t] = At[t]
<1>1. At'[t] = Listed(recency[t])'
  BY DEF At, Listed
<1> QED BY <1>1 DEF At, Listed

\* What a slot stands for after a step.
LEMMA AtNext ==
  ASSUME NEW t \in DOMAIN recency'
  PROVE  At'[t] = [key |-> recency'[t], report |-> entries'[recency'[t]].report,
                   gen |-> entries'[recency'[t]].gen, aged |-> entries'[recency'[t]].aged]
BY DEF At, Listed

\* No answer is no answer.
LEMMA NoAnswer ==
  ASSUME answer' = {}
  PROVE  Answered' = {}
BY DEF Answered

\* The miss leaves the list as it is.
LEMMA MissIsGet ==
  ASSUME RefInv, NEW k \in Keys, NEW g \in 1..generation, GetMiss(k)
  PROVE  OrderInv' /\ Lru!Get(k, g)
<1>1. k \notin DOMAIN entries /\ answer' = {} /\ entries' = entries /\ recency' = recency /\ generation' = generation
  BY DEF GetMiss
<1>2. OrderInv' /\ ListOfEntries' = ListOfEntries
  BY <1>1, SameList
<1>3. ~Lru!Holds(ListOfEntries, k)
  BY <1>1, NotHeld
<1>4. Answered' = {}
  BY <1>1, NoAnswer
<1> QED BY <1>1, <1>2, <1>3, <1>4 DEF Lru!Get, Lru!AfterGet, Lru!AnswerOf

\* A stale entry leaves both indexes, and so the list.
LEMMA StaleIsGet ==
  ASSUME RefInv, NEW k \in Keys, NEW g \in 1..generation, GetStale(k, g)
  PROVE  OrderInv' /\ Lru!Get(k, g)
<1> DEFINE p == Lru!Place(ListOfEntries, k)
<1>1. /\ k \in DOMAIN entries /\ ~fresh(entries[k], g) /\ answer' = {} /\ generation' = generation
      /\ recency' = Drop(recency, entries[k].tick) /\ entries' = Drop(entries, k)
  BY DEF GetStale
<1>2. /\ Lru!Holds(ListOfEntries, k) /\ p \in 1..Len(Ticks) /\ Ticks[p] = entries[k].tick
      /\ Lru!EntryOf(ListOfEntries, k) = Listed(k)
  BY <1>1, PlaceFacts
<1>3. ~Lru!Fresh(Lru!EntryOf(ListOfEntries, k), g)
  BY <1>1, <1>2 DEF Lru!Fresh, fresh, Listed
<1> HIDE DEF p
<1>4. DOMAIN recency' = DOMAIN recency \ {Ticks[p]}
  BY <1>1, <1>2 DEF Drop, Restrict
<1>5. ASSUME NEW t \in DOMAIN recency' PROVE At'[t] = At[t]
  <2>1. t \in DOMAIN recency /\ t # entries[k].tick
    BY <1>2, <1>4
  <2>2. recency[t] \in DOMAIN entries /\ recency[t] # k
    BY <2>1 DEF RefInv, IInv, Consistent
  <2>3. recency'[t] = recency[t]
    BY <1>1, <2>1 DEF Drop, Restrict
  <2>4. entries'[recency[t]] = entries[recency[t]]
    BY <1>1, <2>2 DEF Drop, Restrict
  <2> QED BY <2>1, <2>3, <2>4, SameAt
<1>6. OrderInv' /\ ListOfEntries' = Lru!RemoveAt(ListOfEntries, p)
  BY <1>2, <1>4, <1>5, OneRemoved
<1>7. Answered' = {}
  BY <1>1, NoAnswer
<1> QED BY <1>1, <1>2, <1>3, <1>6, <1>7 DEF Lru!Get, Lru!AfterGet, Lru!AnswerOf, Lru!Without, p

\* A hit moves its entry to the end and answers with it.
LEMMA HitIsGet ==
  ASSUME RefInv, IInv', NEW k \in Keys, NEW g \in 1..generation, GetHit(k, g)
  PROVE  OrderInv' /\ Lru!Get(k, g)
<1> DEFINE p == Lru!Place(ListOfEntries, k)
           x == tick + 1
<1>1. /\ k \in DOMAIN entries /\ fresh(entries[k], g) /\ generation' = generation /\ tick' = x
      /\ answer' = {[key |-> k, entry |-> entries[k]]}
      /\ recency' = Put(Drop(recency, entries[k].tick), x, k)
      /\ entries' = [entries EXCEPT ![k].tick = x]
  BY DEF GetHit
<1>2. /\ Lru!Holds(ListOfEntries, k) /\ p \in 1..Len(Ticks) /\ Ticks[p] = entries[k].tick
      /\ Lru!EntryOf(ListOfEntries, k) = Listed(k)
  BY <1>1, PlaceFacts
<1>3. Lru!Fresh(Lru!EntryOf(ListOfEntries, k), g)
  BY <1>1, <1>2 DEF Lru!Fresh, fresh, Listed
<1>4. x \notin DOMAIN recency
  BY DEF RefInv, IInv, CacheTypeOK
<1> HIDE DEF p
<1>5. DOMAIN recency' = (DOMAIN recency \ {Ticks[p]}) \cup {x} /\ recency'[x] = k
  BY <1>1, <1>2 DEF Drop, Put, Restrict
<1>6. entries[k] \in EntryType
  BY <1>1 DEF RefInv, IInv, CacheTypeOK
<1>7. /\ entries'[k].report = entries[k].report /\ entries'[k].gen = entries[k].gen
      /\ entries'[k].aged = entries[k].aged
  BY <1>1, <1>6 DEF EntryType
<1>8. \A j \in DOMAIN entries : j # k => entries'[j] = entries[j]
  BY <1>1
<1>9. ASSUME NEW t \in DOMAIN recency \ {Ticks[p]} PROVE At'[t] = At[t]
  <2>1. t \in DOMAIN recency' /\ t # entries[k].tick /\ t # x
    BY <1>2, <1>4, <1>5
  <2>2. recency[t] \in DOMAIN entries /\ recency[t] # k
    BY <2>1 DEF RefInv, IInv, Consistent
  <2>3. recency'[t] = recency[t]
    BY <1>1, <2>1 DEF Drop, Put, Restrict
  <2>4. entries'[recency[t]] = entries[recency[t]]
    BY <1>8, <2>2
  <2> QED BY <2>1, <2>3, <2>4, SameAt
<1>10. At'[x] = Listed(k)
  <2>1. At'[x] = [key |-> recency'[x], report |-> entries'[recency'[x]].report,
                  gen |-> entries'[recency'[x]].gen, aged |-> entries'[recency'[x]].aged]
    BY <1>5, AtNext
  <2> QED BY <1>5, <1>7, <2>1 DEF Listed
<1>11. OrderInv' /\ ListOfEntries' = Append(Lru!RemoveAt(ListOfEntries, p), At'[tick + 1])
  BY <1>1, <1>2, <1>5, <1>9, OneMoved
<1>12. Answered' = {Listed(k)}
  BY <1>1 DEF Answered, Listed
<1> QED BY <1>1, <1>2, <1>3, <1>10, <1>11, <1>12 DEF Lru!Get, Lru!AfterGet, Lru!AnswerOf, Lru!Without, p

\* A result that is not worth keeping changes nothing.
LEMMA RejectedIsInsert ==
  ASSUME RefInv, NEW k \in Keys, NEW r \in Reports, NEW g \in 1..generation, InsertRejected(r)
  PROVE  OrderInv' /\ Lru!Insert(k, r, g)
<1>1. ~is_cacheable(r) /\ answer' = {} /\ entries' = entries /\ recency' = recency /\ generation' = generation
  BY DEF InsertRejected
<1>2. OrderInv' /\ ListOfEntries' = ListOfEntries
  BY <1>1, SameList
<1>3. Answered' = {}
  BY <1>1, NoAnswer
<1> QED BY <1>1, <1>2, <1>3 DEF Lru!Insert, Lru!AfterInsert

\* The day is over for one entry, which keeps its place.
LEMMA AgeIsAge ==
  ASSUME RefInv, NEW k \in Keys, Age(k)
  PROVE  OrderInv' /\ Lru!Age(k)
<1>1. /\ k \in DOMAIN entries /\ answer' = {} /\ generation' = generation /\ recency' = recency
      /\ entries' = [entries EXCEPT ![k].aged = TRUE]
  BY DEF Age
<1>2. Ticks' = Ticks
  BY <1>1 DEF Ticks
<1>3. OrderInv'
  BY <1>1, <1>2 DEF RefInv, OrderInv
<1>4. DOMAIN ListOfEntries = 1..Len(Ticks) /\ DOMAIN Ticks = 1..Len(Ticks)
  BY ListFacts, TickFacts
<1>5. \A j \in DOMAIN entries : entries[j] \in EntryType
  BY DEF RefInv, IInv, CacheTypeOK
<1>6. ASSUME NEW j \in DOMAIN entries
      PROVE  Listed(j)' = IF j = k THEN [Listed(j) EXCEPT !.aged = TRUE] ELSE Listed(j)
  BY <1>1, <1>5 DEF Listed, EntryType
<1>7. ASSUME NEW i \in 1..Len(Ticks)
      PROVE  Listed(recency[Ticks[i]])' = IF ListOfEntries[i].key = k
                                          THEN [ListOfEntries[i] EXCEPT !.aged = TRUE] ELSE ListOfEntries[i]
  <2>1. ListOfEntries[i] = Listed(recency[Ticks[i]]) /\ ListOfEntries[i].key = recency[Ticks[i]]
    BY ListFacts
  <2>2. Ticks[i] \in DOMAIN recency
    BY TickFacts
  <2>3. recency[Ticks[i]] \in DOMAIN entries
    BY <2>2 DEF RefInv, IInv, Consistent
  <2>4. Listed(recency[Ticks[i]])' = [key |-> recency[Ticks[i]], report |-> entries'[recency[Ticks[i]]].report,
           gen |-> entries'[recency[Ticks[i]]].gen, aged |-> entries'[recency[Ticks[i]]].aged]
    BY <1>1, <1>2 DEF Listed
  <2> QED BY <1>6, <2>1, <2>3, <2>4 DEF Listed
<1>8. ListOfEntries' = [i \in DOMAIN ListOfEntries |->
         IF ListOfEntries[i].key = k THEN [ListOfEntries[i] EXCEPT !.aged = TRUE] ELSE ListOfEntries[i]]
  BY <1>2, <1>4, <1>7 DEF ListOfEntries
<1>9. Lru!Holds(ListOfEntries, k)
  BY <1>1, PlaceFacts
<1>10. Answered' = {}
  BY <1>1, NoAnswer
<1> QED BY <1>1, <1>3, <1>8, <1>9, <1>10 DEF Lru!Age

\* An insert that keeps its result: the key's own entry, or the head of a full
\* list, makes room for the new entry at the end.
LEMMA StoredIsInsert ==
  ASSUME RefInv, IInv', NEW k \in Keys, NEW r \in Reports, NEW g \in 1..generation, InsertStored(k, r, g)
  PROVE  OrderInv' /\ Lru!Insert(k, r, g)
<1> DEFINE p == Lru!Place(ListOfEntries, k)
           x == tick + 1
           e == [key |-> k, report |-> r, gen |-> g, aged |-> FALSE]
           f == [report |-> r, gen |-> g, aged |-> FALSE, tick |-> x]
<1>1. /\ is_cacheable(r) /\ generation' = generation /\ tick' = tick + 1 /\ answer' = {}
      /\ recency' = Put(Restrict(recency, DOMAIN recency \ DisplacedTick(k)), x, k)
      /\ entries' = Put(Restrict(entries, DOMAIN entries \ Displaced(k)), k, f)
  BY DEF InsertStored
<1>2. x \notin DOMAIN recency
  BY DEF RefInv, IInv, CacheTypeOK
<1>3. DOMAIN recency' = (DOMAIN recency \ DisplacedTick(k)) \cup {x} /\ recency'[x] = k
  BY <1>1 DEF Put, Restrict
<1>4. At'[x] = e
  <2>1. entries'[k] = f
    BY <1>1 DEF Put
  <2>2. At'[x] = [key |-> recency'[x], report |-> entries'[recency'[x]].report,
                  gen |-> entries'[recency'[x]].gen, aged |-> entries'[recency'[x]].aged]
    BY <1>3, AtNext
  <2>3. f.report = r /\ f.gen = g /\ f.aged = FALSE
    OBVIOUS
  <2> HIDE DEF f, x
  <2> QED BY <1>3, <2>1, <2>2, <2>3
<1> HIDE DEF f
<1>5. CacheTypeOK /\ Consistent
  BY DEF RefInv, IInv
<1>6. ASSUME NEW t \in DOMAIN recency \ DisplacedTick(k) PROVE At'[t] = At[t]
  <2>1. t \in DOMAIN recency' /\ t # x
    BY <1>2, <1>3
  <2>2. recency[t] \in DOMAIN entries /\ entries[recency[t]].tick = t
    BY <1>5 DEF Consistent
  <2>3. recency[t] \notin Displaced(k) /\ recency[t] # k
    BY <1>5, <2>2, DisplacedInStep
  <2>4. recency'[t] = recency[t]
    BY <1>1, <2>1 DEF Put, Restrict
  <2>5. entries'[recency[t]] = entries[recency[t]]
    BY <1>1, <2>2, <2>3 DEF Put, Restrict
  <2> QED BY <2>1, <2>4, <2>5, SameAt
<1>7. Answered' = {}
  BY <1>1, NoAnswer
<1>8. e.key = k /\ e.report = r /\ r \in {q \in Reports : is_cacheable(q)}
  BY <1>1
<1>9. Len(ListOfEntries) = Len(Ticks) /\ Len(Ticks) = Cardinality(DOMAIN entries) /\ Len(Ticks) \in Nat
  BY ListFacts, AsManyTicks, TickFacts
<1>10. ASSUME NEW l, ListOfEntries' = Append(l, e),
              l = IF Lru!Holds(ListOfEntries, k) THEN Lru!Without(ListOfEntries, k)
                  ELSE IF Len(ListOfEntries) >= Capacity THEN Tail(ListOfEntries) ELSE ListOfEntries
       PROVE  Lru!Insert(k, r, g)
  BY <1>1, <1>7, <1>8, <1>10 DEF Lru!Insert, Lru!AfterInsert
<1>11. CASE k \in DOMAIN entries
  <2>1. Lru!Holds(ListOfEntries, k) /\ p \in 1..Len(Ticks) /\ Ticks[p] = entries[k].tick
    BY <1>11, PlaceFacts
  <2> HIDE DEF p, e
  <2>2. DisplacedTick(k) = {Ticks[p]}
    BY <1>11, <2>1 DEF DisplacedTick
  <2>3. OrderInv' /\ ListOfEntries' = Append(Lru!RemoveAt(ListOfEntries, p), At'[tick + 1])
    BY <1>1, <1>3, <1>6, <2>1, <2>2, OneMoved
  <2>4. Lru!RemoveAt(ListOfEntries, p) = Lru!Without(ListOfEntries, k)
    BY DEF Lru!Without, p
  <2> QED BY <1>4, <1>10, <2>1, <2>3, <2>4
<1>12. CASE k \notin DOMAIN entries /\ Cardinality(DOMAIN entries) >= Capacity
  <2>1. ~Lru!Holds(ListOfEntries, k)
    BY <1>12, NotHeld
  <2>2. Len(ListOfEntries) >= Capacity /\ Len(Ticks) # 0
    BY <1>9, <1>12, CacheAssumption
  <2>3. 1 \in 1..Len(Ticks) /\ Ticks[1] = Oldest /\ DOMAIN recency # {}
    BY <2>2, HeadIsOldest
  <2> HIDE DEF e
  <2>4. DisplacedTick(k) = {Ticks[1]}
    BY <1>12, <2>3 DEF DisplacedTick
  <2>5. OrderInv' /\ ListOfEntries' = Append(Lru!RemoveAt(ListOfEntries, 1), At'[tick + 1])
    BY <1>1, <1>3, <1>6, <2>3, <2>4, OneMoved
  <2>6. Lru!RemoveAt(ListOfEntries, 1) = Tail(ListOfEntries)
    <3>1. ListOfEntries \in Seq(Lru!Entry) /\ Len(ListOfEntries) # 0
      BY <1>9, <2>2, ListFacts
    <3> QED BY <3>1, TailRemoves
  <2> QED BY <1>4, <1>10, <2>1, <2>2, <2>5, <2>6
<1>13. CASE k \notin DOMAIN entries /\ ~(Cardinality(DOMAIN entries) >= Capacity)
  <2>1. ~Lru!Holds(ListOfEntries, k)
    BY <1>13, NotHeld
  <2>2. ~(Len(ListOfEntries) >= Capacity)
    BY <1>9, <1>13
  <2> HIDE DEF e
  <2>3. DisplacedTick(k) = {}
    BY <1>13 DEF DisplacedTick
  <2>4. OrderInv' /\ ListOfEntries' = Append(ListOfEntries, At'[tick + 1])
    BY <1>1, <1>3, <1>6, <2>3, OneAdded
  <2> QED BY <1>4, <1>10, <2>1, <2>2, <2>4
<1> QED BY <1>11, <1>12, <1>13

\* The empty cache is the empty list.
LEMMA InitImplements == CacheInit => OrderInv /\ Lru!Init
<1> SUFFICES ASSUME CacheInit PROVE OrderInv /\ Lru!Init
  OBVIOUS
<1> DEFINE s == << >>
<1>1. DOMAIN recency = {} /\ generation = 1 /\ answer = {}
  BY DEF CacheInit
<1>2. IsFiniteSet({}) /\ Cardinality({}) = 0
  BY FS_EmptySet
<1>3. s \in [1..0 -> {}] /\ DOMAIN s = {}
  OBVIOUS
<1>4. Orders(s, {})
  BY <1>2, <1>3 DEF Orders, Sorted
<1> HIDE DEF s
<1>5. Ticks = s
  <2>1. InOrder({}) = s
    BY <1>2, <1>4, TheOrder
  <2> QED BY <1>1, <2>1 DEF Ticks
<1>6. OrderInv
  BY <1>1, <1>4, <1>5 DEF OrderInv
<1>7. ListOfEntries = << >>
  BY <1>3, <1>5 DEF ListOfEntries
<1> QED BY <1>1, <1>6, <1>7 DEF Lru!Init, Answered

\* Every step of the cache is a step of the list, or leaves it alone.
LEMMA StepImplements ==
  ASSUME RefInv, IInv', [CacheNext]_cacheVars
  PROVE  OrderInv' /\ [Lru!Next]_<<ListOfEntries, generation, Answered>>
<1>1. ASSUME NEW k \in Keys, NEW g \in 1..generation, Get(k, g)
      PROVE  OrderInv' /\ Lru!Get(k, g)
  BY <1>1, MissIsGet, StaleIsGet, HitIsGet DEF Get
<1>2. ASSUME NEW k \in Keys, NEW r \in Reports, NEW g \in 1..generation, Insert(k, r, g)
      PROVE  OrderInv' /\ Lru!Insert(k, r, g)
  BY <1>2, RejectedIsInsert, StoredIsInsert DEF Insert
<1>3. ASSUME NEW k \in Keys, Age(k)
      PROVE  OrderInv' /\ Lru!Age(k)
  BY <1>3, AgeIsAge
<1>4. CASE NewDefinitions
  <2>1. /\ generation < MaxGeneration /\ generation' = generation + 1 /\ answer' = {}
        /\ entries' = entries /\ recency' = recency
    BY <1>4 DEF NewDefinitions
  <2>2. OrderInv' /\ ListOfEntries' = ListOfEntries
    BY <2>1, SameList
  <2>3. Answered' = {}
    BY <2>1, NoAnswer
  <2>4. Lru!NewDefinitions
    BY <2>1, <2>2, <2>3 DEF Lru!NewDefinitions
  <2> QED BY <2>2, <2>4 DEF Lru!Next
<1>5. CASE UNCHANGED cacheVars
  <2>1. entries' = entries /\ recency' = recency /\ generation' = generation /\ answer' = answer
    BY <1>5 DEF cacheVars
  <2>2. OrderInv' /\ ListOfEntries' = ListOfEntries
    BY <2>1, SameList
  <2>3. Answered' = Answered
    BY <2>1 DEF Answered
  <2> QED BY <2>1, <2>2, <2>3
<1> QED BY <1>1, <1>2, <1>3, <1>4, <1>5 DEF CacheNext, Lru!Next

\* The two indexes get, insert, age and evict exactly as one list kept in order
\* of last use would: the least-recently-used cache the module replaced.
THEOREM ImplementsList == CacheSpec => ImplementsLru
<1>1. CacheInit => OrderInv /\ Lru!Init
  BY InitImplements
<1>2. IInv /\ OrderInv /\ IInv' /\ [CacheNext]_cacheVars =>
        OrderInv' /\ [Lru!Next]_<<ListOfEntries, generation, Answered>>
  BY StepImplements DEF RefInv
<1> QED BY <1>1, <1>2, Invariance, PTL DEF CacheSpec, ImplementsLru, Lru!Spec
=============================================================================
