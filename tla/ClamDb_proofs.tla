---------------------------- MODULE ClamDb_proofs ----------------------------
(***************************************************************************)
(* The ClamAV generations for every number of versions, generations,       *)
(* failures, damaged containers and crashes: the pointer names a complete  *)
(* generation wherever the process dies, and no mirror can take it back.   *)
(***************************************************************************)
EXTENDS ClamDb, TLAPS

Pointers == [gen : 0..MaxGeneration, versions : Versions]
Places == {"off", "start", "check", "headers", "populate", "pointer", "prune", "done", "sleep"}
Checking == {"headers", "populate", "pointer"}

\* What is on disk, as the types of the variables and the freshness of names.
DiskInv ==
  /\ built \in 0..MaxGeneration
  /\ DOMAIN gens \subseteq 1..built
  /\ \A g \in DOMAIN gens : gens[g] \in Versions
  /\ pointer \in Pointers /\ pointer.gen <= built
  /\ spent \in [faults : Nat, damage : Nat, crashes : Nat]

\* The locals of the check, and what passes between the two threads.
LocalInv ==
  /\ pc \in Places /\ up \in {"down", "boot", "load", "loop"}
  /\ previous \in Pointers /\ offered \in Versions /\ staged \in Versions
  /\ result \in 0..MaxGeneration /\ last \in 0..MaxGeneration
  /\ channel = << >> \/ \E r \in 0..MaxGeneration : channel = <<r>>

\* Generation g holds the versions vs, less the containers it has lost.
Holds(g, vs) ==
  /\ g \in DOMAIN gens
  /\ \A c \in Containers : gens[g][c] = vs[c] \/ (spent.damage > 0 /\ gens[g][c] = 0)

\* Where the check stands: the name it builds under is its own until the pointer
\* names it, and the generation is in place before the pointer is written.
PhaseInv ==
  /\ pc = "populate" => built \notin DOMAIN gens /\ pointer.gen < built
  /\ pc = "pointer" => Holds(built, staged) /\ pointer.gen < built
  /\ pc = "prune" => pointer.gen = built

\* What the check remembers of the installed definitions, if it could read them,
\* stays right while it runs, and nothing it has staged is older.
BasisInv ==
  /\ pc \in Checking =>
       IF previous = NoPointer THEN unread \/ active_database = NoPointer
       ELSE previous = pointer
  /\ pc \in {"populate", "pointer"} =>
       \A c \in Containers : staged[c] # 0 => staged[c] >= previous.versions[c]
  /\ pc = "pointer" => Populated

ClamInv == DiskInv /\ LocalInv /\ PhaseInv /\ PointerComplete /\ BasisInv

-----------------------------------------------------------------------------
\* No version is a version table, and no pointer a pointer.
LEMMA Blank == Nothing \in Versions /\ NoPointer \in Pointers /\ NoPointer.gen = 0
  BY ClamDbAssumption DEF Nothing, Versions, NoPointer, Pointers

\* Nothing has been built at first.
LEMMA ClamInit == Init => ClamInv
  <1> SUFFICES ASSUME Init PROVE ClamInv
    OBVIOUS
  <1>1. DOMAIN gens = {}
    BY DEF Init
  <1>2. DiskInv
    BY <1>1, Blank, ClamDbAssumption DEF Init, DiskInv
  <1>3. LocalInv
    BY Blank, ClamDbAssumption DEF Init, LocalInv, Places, Err
  <1> QED BY <1>2, <1>3 DEF ClamInv, Init, PhaseInv, PointerComplete, BasisInv, Checking

\* A failure is counted apart from the damage.
LEMMA Spending ==
  ASSUME DiskInv, UNCHANGED spent \/ Fault \/ Spend("crashes", MaxCrashes)
  PROVE  /\ spent' \in [faults : Nat, damage : Nat, crashes : Nat]
         /\ spent'.damage = spent.damage
  BY DEF DiskInv, Fault, Spend

\* A step that leaves the generations and the pointer alone keeps what the
\* pointer promises and what is readable.
LEMMA DiskStill ==
  ASSUME ClamInv, UNCHANGED <<gens, pointer, built>>,
         UNCHANGED spent \/ Fault \/ Spend("crashes", MaxCrashes)
  PROVE  /\ DiskInv' /\ PointerComplete' /\ active_database' = active_database
         /\ \A g, vs : Holds(g, vs)' <=> Holds(g, vs)
  <1>1. DiskInv
    BY DEF ClamInv
  <1>2. /\ spent' \in [faults : Nat, damage : Nat, crashes : Nat]
        /\ spent'.damage = spent.damage
    BY <1>1, Spending
  <1> QED BY <1>1, <1>2 DEF ClamInv, DiskInv, PointerComplete, active_database, Holds

\* A step after which no check is under way.
LEMMA Idle ==
  ASSUME ClamInv, UNCHANGED <<gens, pointer, built>>,
         UNCHANGED spent \/ Fault \/ Spend("crashes", MaxCrashes),
         LocalInv', pc' \notin Checking \cup {"prune"}
  PROVE  ClamInv'
  BY DiskStill DEF ClamInv, PhaseInv, BasisInv, Checking

\* A step beside the check.
LEMMA Beside ==
  ASSUME ClamInv, UNCHANGED <<gens, pointer, built>>,
         UNCHANGED spent \/ Fault \/ Spend("crashes", MaxCrashes),
         LocalInv', UNCHANGED <<pc, previous, unread, staged>>
  PROVE  ClamInv'
  BY DiskStill DEF ClamInv, PhaseInv, BasisInv, Checking, Populated

\* A check that fails is over, or asks the copy from the beginning.
LEMMA FailsKeeps ==
  ASSUME ClamInv, UNCHANGED <<gens, pointer, built, channel, up>>,
         UNCHANGED spent \/ Fault, Fails, pc \in Checking
  PROVE  ClamInv'
  <1>1. LocalInv'
    BY Blank, ClamDbAssumption DEF ClamInv, LocalInv, Fails, Places, Err
  <1>2. CASE pc' = "done"
    BY <1>1, <1>2, Idle DEF Checking
  <1>3. CASE /\ pc' = "headers" /\ previous = NoPointer /\ previous' = NoPointer
             /\ unread' = unread
    BY <1>1, <1>3, DiskStill DEF ClamInv, PhaseInv, BasisInv, Checking
  <1> QED BY <1>2, <1>3 DEF Fails

\* A read of the pointer brings a pointer, and costs at most a fault.
LEMMA Reading ==
  ASSUME ClamInv, NEW read \in {active_database, NoPointer}, ReadActive(read)
  PROVE  /\ read \in Pointers /\ read.gen \in 0..MaxGeneration
         /\ read = NoPointer \/ read = pointer
         /\ UNCHANGED spent \/ Fault
  <1>1. active_database = NoPointer \/ active_database = pointer
    BY DEF active_database
  <1>2. read \in Pointers
    BY <1>1, Blank DEF ClamInv, DiskInv
  <1>3. read.gen \in 0..MaxGeneration
    BY <1>2 DEF Pointers
  <1> QED BY <1>1, <1>2, <1>3 DEF ReadActive

\* The scheduler's thread begins with a read of the pointer.
LEMMA StartKeeps == ASSUME ClamInv, Start PROVE ClamInv'
  <1>1. PICK read \in {active_database, NoPointer} : ReadActive(read) /\ last' = read.gen
    BY DEF Start
  <1>2. read.gen \in 0..MaxGeneration /\ (UNCHANGED spent \/ Fault)
    BY <1>1, Reading
  <1>3. LocalInv'
    BY <1>1, <1>2 DEF ClamInv, LocalInv, Start, Places, serviceVars
  <1> QED BY <1>2, <1>3, Idle DEF Start, diskVars, Checking

\* The check starts from what it could read.
LEMMA CheckKeeps == ASSUME ClamInv, Check PROVE ClamInv'
  <1>1. PICK read \in {active_database, NoPointer} :
          /\ ReadActive(read) /\ previous' = read /\ unread' = (read # active_database)
          /\ \/ pc' = "done" /\ result' = read.gen /\ UNCHANGED fallback
             \/ pc' = "headers" /\ UNCHANGED result
    BY DEF Check
  <1>2. /\ read \in Pointers /\ read.gen \in 0..MaxGeneration
        /\ read = NoPointer \/ read = pointer
        /\ UNCHANGED spent \/ Fault
    BY <1>1, Reading
  <1>3. LocalInv'
    BY <1>1, <1>2 DEF ClamInv, LocalInv, Check, Places, serviceVars
  <1>4. UNCHANGED <<gens, pointer, built, staged>> /\ pc' \in {"done", "headers"}
    BY <1>1 DEF Check, diskVars
  <1>5. /\ DiskInv' /\ PointerComplete' /\ active_database' = active_database
    BY <1>2, <1>4, DiskStill
  <1>6. BasisInv'
    BY <1>1, <1>2, <1>4, <1>5 DEF BasisInv, Checking
  <1> QED BY <1>3, <1>4, <1>5, <1>6 DEF ClamInv, PhaseInv

\* A new generation gets a name nothing on disk has.
LEMMA HeadersKeeps == ASSUME ClamInv, Headers PROVE ClamInv'
  <1>1. PICK offer \in [Containers -> Served] :
          \/ pc' = "done" /\ result' \in {previous.gen, Err} /\ UNCHANGED <<offered, built>>
          \/ /\ built < MaxGeneration /\ pc' = "populate" /\ offered' = offer
             /\ built' = built + 1 /\ UNCHANGED result
    BY DEF Headers
  <1>2. offer \in Versions
    BY <1>1, ClamDbAssumption DEF Versions, Served
  <1>3. /\ UNCHANGED <<gens, pointer, previous, unread, fallback, last, channel, up, spent>>
        /\ staged' = Nothing /\ pc = "headers"
    BY DEF Headers, serviceVars
  <1>4. LocalInv'
    BY <1>1, <1>2, <1>3, Blank DEF ClamInv, LocalInv, Places, Pointers, Err
  <1>5. CASE pc' = "done"
    BY <1>1, <1>3, <1>4, <1>5, Idle DEF Checking
  <1>6. CASE pc' = "populate"
    <2>1. built < MaxGeneration /\ built' = built + 1
      BY <1>1, <1>6
    <2>2. DiskInv' /\ built' \notin DOMAIN gens' /\ pointer'.gen < built'
      BY <1>3, <2>1, ClamDbAssumption DEF ClamInv, DiskInv, Pointers
    <2>3. PointerComplete' /\ active_database' = active_database
      BY <1>3 DEF ClamInv, PointerComplete, active_database
    <2>4. \A c \in Containers : staged'[c] = 0
      BY <1>3 DEF Nothing
    <2> QED BY <1>3, <1>4, <1>6, <2>2, <2>3, <2>4
            DEF ClamInv, PhaseInv, BasisInv, Checking
  <1> QED BY <1>1, <1>5, <1>6

\* A container enters Staging at a version that is not older than the installed.
LEMMA StageKeeps ==
  ASSUME ClamInv, pc = "populate", NEW c \in Containers, NEW v \in 0..MaxVersion,
         v >= previous.versions[c], staged' = [staged EXCEPT ![c] = v],
         UNCHANGED <<pc, previous, unread, offered, fallback, result, last>>,
         UNCHANGED <<diskVars, channel, serviceVars, spent>>
  PROVE  ClamInv'
  <1>1. staged' \in Versions
    BY DEF ClamInv, LocalInv, Versions
  <1>2. \A d \in Containers : staged'[d] # 0 => staged'[d] >= previous.versions[d]
    BY DEF ClamInv, LocalInv, Versions, BasisInv
  <1>3. LocalInv'
    BY <1>1 DEF ClamInv, LocalInv, serviceVars
  <1>4. /\ DiskInv' /\ PointerComplete' /\ active_database' = active_database
    BY DiskStill DEF diskVars
  <1> QED BY <1>2, <1>3, <1>4 DEF ClamInv, PhaseInv, BasisInv, Checking, diskVars

\* A reused container is at the installed version.
LEMMA ReuseKeeps == ASSUME ClamInv, NEW c \in Containers, Reuse(c) PROVE ClamInv'
  <1>1. previous.versions[c] \in 0..MaxVersion /\ previous.versions[c] >= previous.versions[c]
    BY ClamDbAssumption DEF ClamInv, LocalInv, Pointers, Versions
  <1>2. CASE Fails
    BY <1>2, FailsKeeps DEF Reuse, diskVars, serviceVars, Checking
  <1>3. CASE /\ staged' = [staged EXCEPT ![c] = previous.versions[c]]
             /\ UNCHANGED <<pc, previous, unread, offered, fallback, result, last>>
    BY <1>1, <1>3, StageKeeps DEF Reuse
  <1> QED BY <1>2, <1>3 DEF Reuse

\* A fetched one is refused when it is older.
LEMMA FetchKeeps == ASSUME ClamInv, NEW c \in Containers, Fetch(c) PROVE ClamInv'
  <1>1. PICK body \in Served :
          \/ Fails
          \/ /\ body >= previous.versions[c] /\ staged' = [staged EXCEPT ![c] = body]
             /\ UNCHANGED <<pc, previous, unread, offered, fallback, result, last>>
    BY DEF Fetch, Accepted
  <1>2. body \in 0..MaxVersion
    BY ClamDbAssumption DEF Served
  <1>3. CASE Fails
    BY <1>3, FailsKeeps DEF Fetch, diskVars, serviceVars, Checking
  <1> QED BY <1>1, <1>2, <1>3, StageKeeps DEF Fetch

\* Staging becomes the generation under construction, which no pointer names.
LEMMA RenameKeeps == ASSUME ClamInv, Rename PROVE ClamInv'
  <1>1. CASE Fault /\ Fails /\ UNCHANGED gens
    BY <1>1, FailsKeeps DEF Rename, serviceVars, Checking
  <1>2. CASE ~(Fault /\ Fails /\ UNCHANGED gens)
    <2>1. /\ pc = "populate" /\ Populated /\ pc' = "pointer"
          /\ gens' = [g \in DOMAIN gens \cup {built} |-> IF g = built THEN staged ELSE gens[g]]
          /\ UNCHANGED <<previous, unread, offered, fallback, staged, result, last, spent>>
          /\ UNCHANGED <<pointer, built, channel, up>>
      BY <1>2 DEF Rename, serviceVars
    <2>2. built \notin DOMAIN gens /\ pointer.gen < built /\ built \in Nat \ {0}
      BY <2>1 DEF ClamInv, PhaseInv, DiskInv, Pointers
    <2>3. /\ DOMAIN gens' = DOMAIN gens \cup {built} /\ gens'[built] = staged
          /\ \A g \in DOMAIN gens : gens'[g] = gens[g]
      BY <2>1, <2>2
    <2>4. DiskInv'
      BY <2>1, <2>2, <2>3, ClamDbAssumption DEF ClamInv, DiskInv, LocalInv
    <2>5. LocalInv'
      BY <2>1 DEF ClamInv, LocalInv, Places
    <2>6. PhaseInv'
      BY <2>1, <2>2, <2>3 DEF PhaseInv, Holds
    <2>7. PointerComplete'
      BY <2>1, <2>2, <2>3 DEF ClamInv, PointerComplete
    <2>8. active_database' = active_database
      BY <2>1, <2>2, <2>3 DEF active_database, ClamInv, DiskInv, Pointers
    <2>9. BasisInv'
      BY <2>1, <2>8 DEF ClamInv, BasisInv, Checking, Populated
    <2> QED BY <2>4, <2>5, <2>6, <2>7, <2>9 DEF ClamInv
  <1> QED BY <1>1, <1>2

\* The pointer is moved to a generation that is in place.
LEMMA PointerKeeps == ASSUME ClamInv, WritePointer PROVE ClamInv'
  <1>1. CASE Fault /\ Fails /\ UNCHANGED pointer
    BY <1>1, FailsKeeps DEF WritePointer, serviceVars, Checking
  <1>2. CASE ~(Fault /\ Fails /\ UNCHANGED pointer)
    <2>1. /\ pc = "pointer" /\ pc' = "prune"
          /\ pointer' = [gen |-> built, versions |-> staged]
          /\ UNCHANGED <<previous, unread, offered, fallback, staged, result, last, spent>>
          /\ UNCHANGED <<gens, built, channel, up>>
      BY <1>2 DEF WritePointer, serviceVars
    <2>2. pointer' \in Pointers /\ pointer'.gen = built /\ pointer'.versions = staged
      BY <2>1 DEF ClamInv, DiskInv, LocalInv, Pointers
    <2>3. DiskInv'
      BY <2>1, <2>2 DEF ClamInv, DiskInv
    <2>4. LocalInv'
      BY <2>1 DEF ClamInv, LocalInv, Places
    <2>5. PointerComplete'
      BY <2>1, <2>2 DEF ClamInv, PhaseInv, Holds, PointerComplete
    <2> QED BY <2>1, <2>2, <2>3, <2>4, <2>5 DEF ClamInv, PhaseInv, BasisInv, Checking
  <1> QED BY <1>1, <1>2

\* A generation that is pruned is not the one the pointer names.
LEMMA PruneKeeps == ASSUME ClamInv, NEW g \in DOMAIN gens, Prune(g) PROVE ClamInv'
  <1>1. /\ pc = "prune" /\ g # built /\ gens' = [h \in DOMAIN gens \ {g} |-> gens[h]]
        /\ UNCHANGED <<pointer, built, checkVars, channel, up, spent>>
    BY DEF Prune
  <1>2. pointer.gen = built
    BY <1>1 DEF ClamInv, PhaseInv
  <1>3. DiskInv'
    BY <1>1 DEF ClamInv, DiskInv
  <1>4. LocalInv'
    BY <1>1 DEF ClamInv, LocalInv, checkVars
  <1>5. PointerComplete'
    BY <1>1, <1>2 DEF ClamInv, PointerComplete
  <1> QED BY <1>1, <1>2, <1>3, <1>4, <1>5 DEF ClamInv, PhaseInv, BasisInv, Checking, checkVars

\* A container that disappears is one the damage accounts for, and makes no
\* generation readable that was not.
LEMMA DamageKeeps ==
  ASSUME ClamInv, NEW g \in DOMAIN gens, NEW c \in Containers, Damage(g, c)
  PROVE  ClamInv'
  <1>1. /\ gens' = [gens EXCEPT ![g][c] = 0]
        /\ UNCHANGED <<pointer, built, checkVars, channel, up>>
    BY DEF Damage
  <1>2. /\ spent' \in [faults : Nat, damage : Nat, crashes : Nat]
        /\ spent'.damage > 0
    BY DEF ClamInv, DiskInv, Damage, Spend
  <1>3. /\ DOMAIN gens' = DOMAIN gens
        /\ \A h \in DOMAIN gens : /\ gens'[h] \in Versions
                                  /\ \A d \in Containers : gens'[h][d] \in {gens[h][d], 0}
    BY <1>1, ClamDbAssumption DEF ClamInv, DiskInv, Versions
  <1>4. DiskInv'
    BY <1>1, <1>2, <1>3 DEF ClamInv, DiskInv
  <1>5. LocalInv'
    BY <1>1 DEF ClamInv, LocalInv, checkVars
  <1>6. PointerComplete'
    BY <1>1, <1>2, <1>3 DEF ClamInv, PointerComplete
  <1>7. PhaseInv'
    BY <1>1, <1>2, <1>3 DEF ClamInv, PhaseInv, Holds, checkVars
  <1>8. active_database = NoPointer => active_database' = NoPointer
    BY <1>1, <1>3 DEF active_database
  <1>9. BasisInv'
    BY <1>1, <1>8 DEF ClamInv, BasisInv, checkVars, Populated
  <1> QED BY <1>4, <1>5, <1>6, <1>7, <1>9 DEF ClamInv

\* Every step keeps the invariant.
LEMMA ClamStep == ClamInv /\ [Next]_vars => ClamInv'
  <1> SUFFICES ASSUME ClamInv, [Next]_vars PROVE ClamInv'
    OBVIOUS
  <1>1. CASE Start \/ Check \/ Headers
    BY <1>1, StartKeeps, CheckKeeps, HeadersKeeps
  <1>2. CASE \E c \in Containers : Reuse(c) \/ Fetch(c)
    BY <1>2, ReuseKeeps, FetchKeeps
  <1>3. CASE Rename \/ WritePointer
    BY <1>3, RenameKeeps, PointerKeeps
  <1>4. CASE \E g \in DOMAIN gens : Prune(g)
    BY <1>4, PruneKeeps
  <1>5. CASE PruneEnds
    <2>1. LocalInv'
      BY <1>5 DEF ClamInv, DiskInv, LocalInv, PruneEnds, Places, serviceVars
    <2> QED BY <1>5, <2>1, Idle DEF PruneEnds, diskVars, Checking
  <1>6. CASE Deliver
    <2>1. channel' = channel \/ channel' = <<result>>
      BY <1>6 DEF Deliver
    <2>2. LocalInv'
      BY <1>6, <2>1, Blank, ClamDbAssumption
         DEF ClamInv, LocalInv, Deliver, Places, serviceVars, Forget, Err
    <2> QED BY <1>6, <2>2, Idle DEF Deliver, diskVars, Checking
  <1>7. CASE Wake
    <2>1. LocalInv'
      BY <1>7 DEF ClamInv, LocalInv, Wake, Places, serviceVars
    <2> QED BY <1>7, <2>1, Idle DEF Wake, Checking
  <1>8. CASE RequestFails \/ RateLimited
    BY <1>8, FailsKeeps DEF RequestFails, RateLimited, diskVars, serviceVars, Checking
  <1>9. CASE Boot
    <2>1. UNCHANGED spent \/ Fault
      BY <1>9 DEF Boot, ReadActive
    <2>2. LocalInv'
      BY <1>9 DEF ClamInv, LocalInv, Boot, Places
    <2> QED BY <1>9, <2>1, <2>2, Idle DEF Boot, diskVars, Checking
  <1>10. CASE Receive \/ Load
    <2>1. LocalInv'
      BY <1>10 DEF ClamInv, LocalInv, Receive, Load, checkVars
    <2> QED BY <1>10, <2>1, Beside DEF Receive, Load, diskVars, checkVars
  <1>11. CASE \E g \in DOMAIN gens, c \in Containers : Damage(g, c)
    BY <1>11, DamageKeeps
  <1>12. CASE Crash
    <2>1. LocalInv'
      BY <1>12, Blank, ClamDbAssumption DEF ClamInv, LocalInv, Crash, Places, Forget, Err
    <2> QED BY <1>12, <2>1, Idle DEF Crash, diskVars, Checking
  <1>13. CASE Restart
    <2>1. LocalInv'
      BY <1>13 DEF ClamInv, LocalInv, Restart, checkVars
    <2> QED BY <1>13, <2>1, Beside DEF Restart, checkVars
  <1>14. CASE UNCHANGED vars
    <2>1. LocalInv'
      BY <1>14 DEF ClamInv, LocalInv, vars, checkVars, serviceVars
    <2> QED BY <1>14, <2>1, Beside DEF vars, diskVars, checkVars
  <1> QED BY <1>1, <1>2, <1>3, <1>4, <1>5, <1>6, <1>7, <1>8, <1>9, <1>10, <1>11,
             <1>12, <1>13, <1>14
          DEF Next, SchedulerStep, ServiceStep

\* Every reachable state satisfies the invariant.
LEMMA ClamInvariant == Spec => []ClamInv
  BY ClamInit, ClamStep, PTL DEF Spec

\* Every variable keeps its type, and generation names stay within the bound.
THEOREM ClamTypes == Spec => []TypeOK
  <1>1. ASSUME ClamInv PROVE TypeOK
    <2>1. Len(channel) <= 1
      <3>1. CASE channel = << >>
        BY <3>1
      <3>2. CASE \E r \in 0..MaxGeneration : channel = <<r>>
        BY <3>2
      <3> QED BY <1>1, <3>1, <3>2 DEF ClamInv, LocalInv
    <2> QED BY <1>1, <2>1 DEF ClamInv, DiskInv, LocalInv, Pointers, Places, TypeOK
  <1> QED BY ClamInvariant, <1>1, PTL

\* Wherever the process dies between the rename, the pointer and the prune, the
\* pointer names a generation in place, at the versions it records.
THEOREM PointerAlwaysComplete == Spec => []PointerComplete
  <1>1. ClamInv => PointerComplete
    BY DEF ClamInv
  <1> QED BY ClamInvariant, <1>1, PTL

\* Only write_active_pointer moves the pointer, and what it writes is no older
\* than what is installed, whatever the mirror answered and was damaged since, if
\* the check had been able to read what was installed.
THEOREM NoDowngrade == Spec => NeverOlder
  <1>1. ASSUME ClamInv, [Next]_vars
        PROVE  [active_database # NoPointer /\ ~unread =>
                  \A c \in Containers : pointer'.versions[c] >= pointer.versions[c]]_vars
    <2>1. \A c \in Containers : pointer.versions[c] >= pointer.versions[c]
      BY <1>1, ClamDbAssumption DEF ClamInv, DiskInv, Pointers, Versions
    <2>2. CASE /\ WritePointer /\ pointer' # pointer
             /\ active_database # NoPointer /\ ~unread
      <3>1. pc = "pointer" /\ pointer'.versions = staged
        BY <2>2 DEF WritePointer
      <3>2. previous = pointer
        BY <1>1, <2>2, <3>1 DEF ClamInv, BasisInv, Checking
      <3>3. \A c \in Containers : staged[c] >= previous.versions[c]
        BY <1>1, <3>1 DEF ClamInv, BasisInv, Populated
      <3> QED BY <3>1, <3>2, <3>3
    <2>3. CASE ~WritePointer
      <3>1. UNCHANGED pointer
        BY <1>1, <2>3
           DEF Next, SchedulerStep, ServiceStep, Start, Check, Headers, Reuse, Fetch, Rename,
               Prune, PruneEnds, Deliver, Wake, RequestFails, RateLimited, Boot, Receive,
               Load, Damage, Crash, Restart, vars, diskVars
      <3> QED BY <2>1, <3>1
    <2> QED BY <2>1, <2>2, <2>3
  <1> QED BY ClamInvariant, <1>1, PTL DEF Spec, NeverOlder
=============================================================================
