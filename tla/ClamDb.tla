------------------------------- MODULE ClamDb -------------------------------
(***************************************************************************)
(* The ClamAV definitions on disk and in memory: the scheduler thread that *)
(* checks the mirror and activates generations (src/clamdb/scheduler.rs,   *)
(* src/clamdb/downloader.rs), and the service thread that reads the active *)
(* pointer when it starts and loads each generation handed to it           *)
(* (src/service.rs).  A generation is a directory with the unpacked files  *)
(* of every container; the pointer names the active one.                   *)
(*                                                                         *)
(* The mirror is a set of nodes that may lag: a header and the body behind *)
(* it can come from different nodes.  The process may die between any two  *)
(* steps; what is on disk stays.                                           *)
(***************************************************************************)
EXTENDS Naturals, Sequences

CONSTANTS MaxVersion,   \* bound on the versions the mirror serves
          MaxGeneration,\* bound on generations built
          MaxFaults,    \* bound on failed requests, writes and loads
          MaxDamage,    \* bound on containers lost from a generation
          MaxCrashes    \* bound on ends of the process

ASSUME ClamDbAssumption ==
  /\ MaxVersion \in Nat \ {0} /\ MaxGeneration \in Nat
  /\ MaxFaults \in Nat /\ MaxDamage \in Nat /\ MaxCrashes \in Nat

VARIABLES
  gens,        \* the directories below Generations: container versions, 0 lost
  pointer,     \* active.json: [gen, versions], or NoPointer
  recent,      \* last_contact is less than an hour old
  cooldown,    \* the cooldown file names a time to come
  built,       \* generations built so far: the next one's name
  pc,          \* the scheduler's place
  previous,    \* the pointer read when the check began
  unread,      \* observer: there was one, and the check could not read it
  fallback,    \* blackshard's copy is being asked
  offered,     \* remote_versions
  staged,      \* the versions unpacked into Staging so far
  result,      \* what the check returned: a generation, or Err
  last,        \* last_generation, 0 for none
  channel,     \* freshclam_receiver
  up,          \* the service's place: "down", "boot", "load", "loop"
  index,       \* the native index in use: [gen, whole], gen 0 for none
  loading,     \* the generation being loaded, and whether its files were there
  missed,      \* observer: a generation on disk was not read or did not load
  spent        \* faults, damage and crashes so far

diskVars == <<gens, pointer, recent, cooldown, built>>
checkVars == <<pc, previous, unread, fallback, offered, staged, result, last>>
serviceVars == <<up, index, loading, missed>>
vars == <<diskVars, checkVars, channel, serviceVars, spent>>

\* CONTAINERS, in the order they are fetched.
Order == <<"main", "daily">>
Containers == {Order[i] : i \in DOMAIN Order}
Versions == [Containers -> 0..MaxVersion]
Nothing == [c \in Containers |-> 0]
NoPointer == [gen |-> 0, versions |-> Nothing]
NoIndex == [gen |-> 0, whole |-> FALSE]
Err == 0

Init ==
  /\ gens = << >> /\ pointer = NoPointer /\ built = 0
  /\ recent = FALSE /\ cooldown = FALSE
  /\ pc = "off" /\ previous = NoPointer /\ unread = FALSE /\ fallback = FALSE
  /\ offered = Nothing /\ staged = Nothing /\ result = Err /\ last = 0
  /\ channel = << >>
  /\ up = "boot" /\ index = NoIndex /\ loading = NoIndex /\ missed = FALSE
  /\ spent = [faults |-> 0, damage |-> 0, crashes |-> 0]

-----------------------------------------------------------------------------
Spend(k, max) == spent[k] < max /\ spent' = [spent EXCEPT ![k] = @ + 1]
Fault == Spend("faults", MaxFaults)

\* What is installed: the pointer, if its directory holds every container.
active_database ==
  IF pointer.gen \in DOMAIN gens /\ \A c \in Containers : gens[pointer.gen][c] # 0
  THEN pointer ELSE NoPointer

\* active_database(..).ok(): a file or directory that cannot be read passes for
\* no definitions at all.
ReadActive(read) ==
  \/ read = active_database /\ UNCHANGED spent
  \/ read = NoPointer /\ active_database # NoPointer /\ Fault

\* installed_is_current
installed_is_current(installed, offer) == installed # 0 /\ installed >= offer

\* The check's locals, once it is over.
Forget ==
  /\ previous' = NoPointer /\ unread' = FALSE /\ fallback' = FALSE
  /\ offered' = Nothing /\ staged' = Nothing

-----------------------------------------------------------------------------
(* The scheduler: its start, and one check.                                *)

\* start_scheduler: the new thread reads the pointer once more, for the
\* generation it need not pass on.
Start ==
  /\ pc = "start" /\ pc' = "check"
  /\ \E read \in {active_database, NoPointer} : ReadActive(read) /\ last' = read.gen
  /\ UNCHANGED <<diskVars, previous, unread, fallback, offered, staged, result,
                 channel, serviceVars>>

\* download_databases: an hour's rest, then a mirror that asked to be left alone.
Check ==
  /\ pc = "check"
  /\ \E read \in {active_database, NoPointer} :
       LET has == read # NoPointer
       IN  /\ ReadActive(read)
           /\ previous' = read /\ unread' = (read # active_database)
           /\ \/ /\ has /\ (recent \/ cooldown)
                 /\ pc' = "done" /\ result' = read.gen /\ UNCHANGED fallback
              \/ /\ ~has /\ cooldown
                 /\ pc' = "headers" /\ fallback' = TRUE /\ UNCHANGED result
              \/ /\ ~cooldown /\ ~(has /\ recent)
                 /\ pc' = "headers" /\ UNCHANGED <<fallback, result>>
  /\ UNCHANGED <<diskVars, offered, staged, last, channel, serviceVars>>

\* refresh failed: without definitions the official mirror's failure is followed
\* by blackshard's copy; an attempt on that, or with definitions, is an error.
Fails ==
  /\ offered' = Nothing /\ staged' = Nothing /\ UNCHANGED <<previous, unread, last>>
  /\ IF previous = NoPointer /\ ~fallback
     THEN pc' = "headers" /\ fallback' = TRUE /\ UNCHANGED result
     ELSE pc' = "done" /\ result' = Err /\ UNCHANGED fallback

\* A request fails or what it brings does not verify.
RequestFails ==
  /\ pc \in {"headers", "populate"}
  /\ Fault /\ Fails
  /\ UNCHANGED <<diskVars, channel, serviceVars>>

\* 429, or 503 with Retry-After: the official mirror's wish is recorded.
RateLimited ==
  /\ pc \in {"headers", "populate"}
  /\ Fault /\ Fails
  /\ cooldown' = (cooldown \/ ~fallback)
  /\ UNCHANGED <<gens, pointer, recent, built, channel, serviceVars>>

\* What the nodes of the mirror can answer: new versions appear, old ones linger.
Served == 1..MaxVersion

\* refresh: the signed headers, then either nothing newer or a new generation.
Headers ==
  /\ pc = "headers"
  /\ \E offer \in [Containers -> Served] :
          IF previous # NoPointer
               /\ \A c \in Containers : installed_is_current(previous.versions[c], offer[c])
          THEN /\ pc' = "done" /\ result' = previous.gen
               /\ recent' \in {recent, TRUE}     \* the pointer rewritten, or not
               /\ UNCHANGED <<offered, built>>
          ELSE IF built < MaxGeneration
          THEN /\ pc' = "populate" /\ offered' = offer /\ built' = built + 1
               /\ UNCHANGED <<result, recent>>
          ELSE /\ pc' = "done" /\ result' = Err      \* the bound, as a failed request
               /\ UNCHANGED <<offered, built, recent>>
  /\ staged' = Nothing                           \* Staging is cleared
  /\ UNCHANGED <<gens, pointer, cooldown, previous, unread, fallback, last, channel,
                 serviceVars, spent>>

\* Whose turn it is in populate_generation.
Due(c) == \E i \in DOMAIN Order : Order[i] = c /\ \A j \in DOMAIN Order :
            (staged[Order[j]] = 0) <=> (j >= i)

Unchanged(c) == installed_is_current(previous.versions[c], offered[c])

\* link_container_files finds the previous generation's files, or fails.
Reuse(c) ==
  /\ pc = "populate" /\ Due(c) /\ Unchanged(c)
  /\ IF previous.gen \in DOMAIN gens /\ gens[previous.gen][c] # 0
     THEN staged' = [staged EXCEPT ![c] = previous.versions[c]]
          /\ UNCHANGED <<pc, previous, unread, offered, fallback, result, last>>
     ELSE Fails
  /\ UNCHANGED <<diskVars, channel, serviceVars, spent>>

\* Mutant of Accepted: the header has been looked at already.
Accepted_unchecked(c, body) == TRUE

\* A body older than what is installed is refused.
Accepted(c, body) == body >= previous.versions[c]

\* fetch_container, verify_container, extract.
Fetch(c) ==
  /\ pc = "populate" /\ Due(c) /\ ~Unchanged(c)
  /\ \E body \in Served :
       IF Accepted(c, body)
       THEN staged' = [staged EXCEPT ![c] = body]
            /\ UNCHANGED <<pc, previous, unread, offered, fallback, result, last>>
       ELSE Fails
  /\ UNCHANGED <<diskVars, channel, serviceVars, spent>>

Populated == \A c \in Containers : staged[c] # 0

\* Mutant of Rename: the generation is activated before it is in place.
Rename_late ==
  /\ pc = "populate" /\ Populated
  /\ pointer' = [gen |-> built, versions |-> staged] /\ recent' = TRUE
  /\ pc' = "prune"
  /\ UNCHANGED <<gens, cooldown, built, previous, unread, offered, fallback, staged,
                 result, last, channel, serviceVars, spent>>

\* Staging becomes a generation.
Rename ==
  /\ pc = "populate" /\ Populated
  /\ \/ /\ pc' = "pointer"
        /\ gens' = [g \in DOMAIN gens \cup {built} |-> IF g = built THEN staged ELSE gens[g]]
        /\ UNCHANGED <<previous, unread, offered, fallback, staged, result, last, spent>>
     \/ Fault /\ Fails /\ UNCHANGED gens
  /\ UNCHANGED <<pointer, recent, cooldown, built, channel, serviceVars>>

\* write_active_pointer replaces the file atomically; if it cannot, the
\* generation stays behind without a pointer to it.
WritePointer ==
  /\ pc = "pointer"
  /\ \/ /\ pc' = "prune"
        /\ pointer' = [gen |-> built, versions |-> staged] /\ recent' = TRUE
        /\ UNCHANGED <<previous, unread, offered, fallback, staged, result, last, spent>>
     \/ Fault /\ Fails /\ UNCHANGED <<pointer, recent>>
  /\ UNCHANGED <<gens, cooldown, built, channel, serviceVars>>

\* prune_generations, one directory at a time; the service may be reading it.
Prune(g) ==
  /\ pc = "prune" /\ g \in DOMAIN gens \ {built}
  /\ gens' = [h \in DOMAIN gens \ {g} |-> gens[h]]
  /\ loading' = [loading EXCEPT !.whole = @ /\ loading.gen # g]
  /\ UNCHANGED <<pointer, recent, cooldown, built, checkVars, channel, up, index,
                 missed, spent>>

\* Nothing is left to prune, or the rest cannot be removed now.
PruneEnds ==
  /\ pc = "prune"
  /\ pc' = "done" /\ result' = built
  /\ \/ DOMAIN gens \subseteq {built} /\ UNCHANGED spent
     \/ ~(DOMAIN gens \subseteq {built}) /\ Fault
  /\ UNCHANGED <<diskVars, previous, unread, fallback, offered, staged, last, channel,
                 serviceVars>>

\* Mutant of Deliver: try_send, which finds an earlier result still queued.
Deliver_dropping ==
  /\ pc = "done"
  /\ pc' = "sleep" /\ Forget /\ result' = Err
  /\ last' = IF result = Err THEN last ELSE result
  /\ channel' = IF (result = last /\ result # Err) \/ channel # << >> THEN channel
                ELSE Append(channel, result)
  /\ UNCHANGED <<diskVars, serviceVars, spent>>

\* start_scheduler: a generation seen before is not passed on; send waits
\* until the service has taken what it was sent before.
Deliver ==
  /\ pc = "done"
  /\ \/ result # Err /\ result = last /\ UNCHANGED channel
     \/ ~(result # Err /\ result = last) /\ channel = << >> /\ channel' = <<result>>
  /\ last' = IF result = Err THEN last ELSE result
  /\ pc' = "sleep" /\ Forget /\ result' = Err
  /\ UNCHANGED <<diskVars, serviceVars, spent>>

\* next_check_delay outlasts the hour whenever there are definitions.
Wake ==
  /\ pc = "sleep"
  /\ pc' = "check" /\ recent' = FALSE /\ cooldown' \in {cooldown, FALSE}
  /\ UNCHANGED <<gens, pointer, built, previous, unread, fallback, offered, staged,
                 result, last, channel, serviceVars, spent>>

-----------------------------------------------------------------------------
(* The service.                                                            *)

\* The service reads the pointer and starts the scheduler, whose first check
\* runs at once, beside the load of the generation the pointer named.
Boot ==
  /\ up = "boot" /\ pc = "off"
  /\ pc' = "start"
  /\ \E read \in {active_database, NoPointer} :
       /\ ReadActive(read)
       /\ missed' = (missed \/ read # active_database)
       /\ IF read = NoPointer THEN up' = "loop" /\ UNCHANGED loading
          ELSE up' = "load" /\ loading' = [gen |-> read.gen, whole |-> TRUE]
  /\ UNCHANGED <<diskVars, previous, unread, fallback, offered, staged, result, last,
                 channel, index>>

\* The loop takes a result: an error is only reported.
Receive ==
  /\ up = "loop" /\ channel # << >>
  /\ channel' = << >>
  /\ LET g == Head(channel)
     IN  IF g = Err THEN UNCHANGED <<up, loading>>
         ELSE /\ up' = "load"
              /\ loading' = [gen |-> g, whole |-> g \in DOMAIN gens
                                          /\ \A c \in Containers : gens[g][c] # 0]
  /\ UNCHANGED <<diskVars, checkVars, index, missed, spent>>

\* load_native_index: of a directory that was removed under it, what had been
\* read by then, or nothing.
Load ==
  /\ up = "load"
  /\ up' = "loop" /\ loading' = NoIndex
  /\ \/ index' = loading /\ UNCHANGED <<missed, spent>>
     \/ ~loading.whole /\ UNCHANGED <<index, missed, spent>>
     \/ loading.whole /\ Fault /\ missed' = TRUE /\ UNCHANGED index
  /\ UNCHANGED <<diskVars, checkVars, channel>>

-----------------------------------------------------------------------------
(* The environment.                                                        *)

\* The files of a container disappear from a generation.
Damage(g, c) ==
  /\ g \in DOMAIN gens /\ gens[g][c] # 0
  /\ Spend("damage", MaxDamage)
  /\ gens' = [gens EXCEPT ![g][c] = 0]
  /\ loading' = [loading EXCEPT !.whole = @ /\ loading.gen # g]
  /\ UNCHANGED <<pointer, recent, cooldown, built, checkVars, channel, up, index,
                 missed>>

\* The process ends, stopped or not: the scheduler's thread is never joined.
Crash ==
  /\ up # "down" /\ Spend("crashes", MaxCrashes)
  /\ up' = "down" /\ pc' = "off" /\ Forget /\ result' = Err /\ last' = 0
  /\ channel' = << >> /\ index' = NoIndex /\ loading' = NoIndex
  /\ UNCHANGED <<diskVars, missed>>

Restart ==
  /\ up = "down" /\ up' = "boot"
  /\ recent' \in {recent, FALSE} /\ cooldown' \in {cooldown, FALSE}
  /\ UNCHANGED <<gens, pointer, built, checkVars, channel, index, loading,
                 missed, spent>>

-----------------------------------------------------------------------------
SchedulerStep ==
  \/ Start \/ Check \/ Headers
  \/ \E c \in Containers : Reuse(c) \/ Fetch(c)
  \/ Rename \/ WritePointer
  \/ \E g \in DOMAIN gens : Prune(g)
  \/ PruneEnds \/ Deliver \/ Wake

ServiceStep == Boot \/ Receive \/ Load

Next ==
  \/ SchedulerStep \/ RequestFails \/ RateLimited
  \/ ServiceStep
  \/ \E g \in DOMAIN gens, c \in Containers : Damage(g, c)
  \/ Crash \/ Restart

Spec == Init /\ [][Next]_vars

(***************************************************************************)
(* The two threads run for as long as the process does, which is started   *)
(* again; a request that is repeated at every check succeeds in the end.   *)
(***************************************************************************)
FairSpec ==
  /\ Spec
  /\ WF_vars(SchedulerStep) /\ WF_vars(ServiceStep) /\ WF_vars(Restart)

-----------------------------------------------------------------------------
(* Properties.                                                             *)

TypeOK ==
  /\ \A g \in DOMAIN gens : g \in 1..built /\ gens[g] \in Versions
  /\ pointer \in [gen : 0..MaxGeneration, versions : Versions]
  /\ pc \in {"off", "start", "check", "headers", "populate", "pointer", "prune", "done", "sleep"}
  /\ up \in {"down", "boot", "load", "loop"}
  /\ Len(channel) <= 1 /\ last \in 0..MaxGeneration

\* Wherever the process dies, the pointer names a generation that is in place,
\* with each container at the version the pointer records, unless it was damaged
\* since: activation is a rename, a pointer and a prune, none of them atomic
\* with the others.
PointerComplete ==
  pointer # NoPointer =>
    /\ pointer.gen \in DOMAIN gens
    /\ \A c \in Containers :
         gens[pointer.gen][c] = pointer.versions[c] \/ (spent.damage > 0 /\ gens[pointer.gen][c] = 0)

\* A lagging or replaying mirror cannot take an installed container back: no
\* step replaces a readable pointer by one with an older version, unless the
\* check that wrote it had failed to read what was installed.
NeverOlder ==
  [][active_database # NoPointer /\ ~unread =>
       \A c \in Containers : pointer'.versions[c] >= pointer.versions[c]]_vars

\* Whatever the orders of downloads, loads and restarts, the index in use ends
\* up as all of the generation the pointer names, unless one was there and was
\* not read, or did not load.  A generation that is pruned while the start still
\* reads it is made good by the one that replaced it.
IndexCatchesUp ==
  <>[](active_database # NoPointer => index = [gen |-> pointer.gen, whole |-> TRUE])
    \/ <>missed
=============================================================================
