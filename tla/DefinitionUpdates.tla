-------------------------- MODULE DefinitionUpdates --------------------------
(***************************************************************************)
(* The signed-definition pipeline: the update worker (src/update_client.rs)*)
(* fetches an offered bundle, the versioned store (src/updater.rs) commits *)
(* and activates it through two pointer files, the loader                  *)
(* (src/definitions.rs) chooses what to run, and the service loop          *)
(* (src/service.rs) adopts it when the worker's event arrives.  The        *)
(* service may die between any two writes; the disk survives.              *)
(*                                                                         *)
(* A bundle stands for one signed envelope with its payload.  Bundles that *)
(* share sequence and payload digest share a version directory; bundles    *)
(* with no valid signature never get past verify_manifest and are left out.*)
(***************************************************************************)
EXTENDS Naturals, Sequences, FiniteSets

CONSTANTS Bundles,        \* correctly signed envelopes the network may offer
          Sequence,       \* manifest.sequence of each bundle
          Digest,         \* manifest.payload_sha256 of each bundle
          ExpiresAt,      \* manifest.expires_at of each bundle
          Compiles,       \* bundles build_authenticated_engine accepts
          None,           \* no pointer file, no bundle
          Corrupt,        \* a pointer file that parse_pointer refuses
          EventCapacity,  \* EVENT_CHANNEL_CAPACITY
          MaxTime,        \* bound on the wall clock
          MaxCrashes,     \* bound on service deaths
          MaxDamage       \* bound on files damaged on disk

ASSUME UpdatesAssumption ==
  /\ Sequence \in [Bundles -> Nat \ {0}]
  /\ ExpiresAt \in [Bundles -> Nat]
  /\ Compiles \subseteq Bundles
  /\ None \notin Bundles /\ Corrupt \notin Bundles /\ None # Corrupt
  /\ EventCapacity \in Nat \ {0}
  /\ MaxTime \in Nat /\ MaxCrashes \in Nat /\ MaxDamage \in Nat

VARIABLES
  versions,  \* disk: bundles whose version directory is in place
  damaged,   \* disk: bundles whose directory no longer matches its envelope
  current,   \* disk: state/current.json
  previous,  \* disk: state/previous.json
  pc,        \* the update worker's place in perform_update, "down" when dead
  offer,     \* the envelope it is working on
  events,    \* the bounded channel to the service loop
  running,   \* the engine behind SharedDetectionEngine
  health,    \* snapshot.definitions
  now,       \* Utc::now()
  crashes,   \* service deaths so far
  lost,      \* observer: an Installed event found the channel full, or a load failed
  activated  \* observer: every bundle current.json has named

disk == <<versions, damaged, current, previous, activated>>
service == <<running, health>>
vars == <<versions, damaged, current, previous, pc, offer, events, running, health,
          now, crashes, lost, activated>>

Slot(b) == <<Sequence[b], Digest[b]>>
Status(s) == [source |-> s, bundle |-> None]
BuiltIn == Status("BuiltIn")
Working == {"manifest", "payload", "activate", "commit", "retire", "point", "reload"}

\* load_active_candidate: directory present, envelope and digest verified, the
\* pointer equal to the manifest, the rules compiled.  Expiry does not matter.
Loadable(p) == p \in (versions \ damaged) \cap Compiles

\* DefinitionStore::load
load ==
  IF Loadable(current) THEN [source |-> "Current", bundle |-> current]
  ELSE IF Loadable(previous) THEN [source |-> "LastKnownGood", bundle |-> previous]
  ELSE BuiltIn

\* Mutant of installed_sequence: the other pointer file is read.
installed_sequence_previous == IF previous \in Bundles THEN Sequence[previous] ELSE 0

\* installed_sequence of a store without a pointer is 0; its callers stop at a
\* corrupt one before they look at the number.
installed_sequence == IF current \in Bundles THEN Sequence[current] ELSE 0

Init ==
  /\ versions = {} /\ damaged = {}
  /\ current = None /\ previous = None
  /\ pc = "idle" /\ offer = None
  /\ events = <<>>
  /\ running = BuiltIn /\ health = BuiltIn
  /\ now = 0 /\ crashes = 0 /\ lost = FALSE /\ activated = {}

-----------------------------------------------------------------------------
(* The update worker.                                                      *)

\* emit is try_send: an event that finds the channel full is gone.
emit(e) ==
  /\ events' = IF Len(events) < EventCapacity THEN Append(events, e) ELSE events
  /\ lost' = (lost \/ (e = "Installed" /\ Len(events) >= EventCapacity))

\* run_one_check ends with this event, whatever happened in between.
Finish(e) == pc' = "idle" /\ offer' = None /\ emit(e)

\* verify_manifest, for a manifest whose signature and shape are right.
verify_manifest(b) == ExpiresAt[b] > now

\* A scheduled or manual trigger.
CheckStarts ==
  /\ pc = "idle"
  /\ pc' = "manifest"
  /\ emit("CheckStarted")
  /\ UNCHANGED <<disk, offer, service, now, crashes>>

\* The manifest arrived and is newer than what is installed.
FetchNewer(b) ==
  /\ pc = "manifest"
  /\ verify_manifest(b)
  /\ current # Corrupt
  /\ Sequence[b] > installed_sequence
  /\ pc' = "payload" /\ offer' = b
  /\ UNCHANGED <<disk, events, service, now, crashes, lost>>

\* Sequence and metadata equal what is installed: nothing to do.
FetchCurrent(b) ==
  /\ pc = "manifest"
  /\ verify_manifest(b)
  /\ current = b
  /\ Finish("Current")
  /\ UNCHANGED <<disk, service, now, crashes>>

\* Expired, rolled back, in conflict with the installed sequence, or the
\* pointer cannot be read.
FetchRefused(b) ==
  /\ pc = "manifest"
  /\ \/ ~verify_manifest(b)
     \/ current = Corrupt
     \/ b # current /\ Sequence[b] <= installed_sequence
  /\ Finish("Failed")
  /\ UNCHANGED <<disk, service, now, crashes>>

\* The payload arrived whole, verify_update and from_bytes accept it.
FetchPayload ==
  /\ pc = "payload"
  /\ verify_manifest(offer)
  /\ pc' = "activate"
  /\ UNCHANGED <<disk, offer, events, service, now, crashes, lost>>

\* stage_and_activate: the lock is held, the installed sequence and the
\* manifest are verified again.
Verify ==
  /\ pc = "activate"
  /\ current # Corrupt
  /\ verify_manifest(offer)
  /\ Sequence[offer] > installed_sequence
  /\ pc' = "commit"
  /\ UNCHANGED <<disk, offer, events, service, now, crashes, lost>>

\* Mutant of commit_immutable_version: a directory that exists is taken as is.
commit_unvalidated ==
  /\ pc = "commit"
  /\ versions' = IF \E v \in versions : Slot(v) = Slot(offer) THEN versions
                 ELSE versions \cup {offer}
  /\ pc' = "retire"
  /\ UNCHANGED <<damaged, current, previous, activated, offer, events, service, now, crashes, lost>>

\* commit_immutable_version: a fresh directory is staged, synced and renamed
\* into place; one that exists must hold this very envelope and payload.
commit_immutable_version ==
  /\ pc = "commit"
  /\ \/ /\ \A v \in versions : Slot(v) # Slot(offer)
        /\ versions' = versions \cup {offer}
     \/ /\ offer \in versions \ damaged
        /\ versions' = versions
  /\ pc' = "retire"
  /\ UNCHANGED <<damaged, current, previous, activated, offer, events, service, now, crashes, lost>>

\* current.json is copied to previous.json ...
Retire ==
  /\ pc = "retire"
  /\ current # Corrupt
  /\ previous' = IF current = None THEN previous ELSE current
  /\ pc' = "point"
  /\ UNCHANGED <<versions, damaged, current, activated, offer, events, service, now, crashes, lost>>

\* ... and then replaced.
Point ==
  /\ pc = "point"
  /\ current' = offer
  /\ activated' = activated \cup {offer}
  /\ pc' = "reload"
  /\ UNCHANGED <<versions, damaged, previous, offer, events, service, now, crashes, lost>>

\* Mutant of Reload: an activation is reported as if nothing had changed.
Reload_unannounced ==
  /\ pc = "reload"
  /\ Finish(IF load.source = "Current" /\ load.bundle = offer THEN "Current" ELSE "Failed")
  /\ UNCHANGED <<disk, service, now, crashes>>

\* perform_update loads what it just activated before it reports success.
Reload ==
  /\ pc = "reload"
  /\ Finish(IF load.source = "Current" /\ load.bundle = offer THEN "Installed" ELSE "Failed")
  /\ UNCHANGED <<disk, service, now, crashes>>

\* Network, I/O and verification errors, and a version directory in conflict,
\* end the check where it stands.
CheckFails ==
  /\ pc \in Working \ {"reload"}
  /\ Finish("Failed")
  /\ UNCHANGED <<disk, service, now, crashes>>

-----------------------------------------------------------------------------
(* The service loop.                                                       *)

\* Mutant of apply_update_event: the new bundle is reported, the engine stays.
apply_without_replacing ==
  /\ pc # "down"
  /\ events # <<>>
  /\ events' = Tail(events)
  /\ running' = running
  /\ health' = IF Head(events) = "Installed" THEN load ELSE health
  /\ UNCHANGED <<disk, pc, offer, now, crashes, lost>>

\* apply_update_event
apply_update_event ==
  /\ pc # "down"
  /\ events # <<>>
  /\ events' = Tail(events)
  /\ \/ Head(events) = "Installed" /\ running' = load /\ health' = load
     \/ Head(events) = "Current" /\ running' = running /\ health' = running
     \/ Head(events) = "Failed" /\ running' = running /\ health' = Status("Failed")
     \/ Head(events) = "CheckStarted" /\ running' = running /\ health' = Status("Updating")
  /\ UNCHANGED <<disk, pc, offer, now, crashes, lost>>

\* load_detection_engine fails, the store cannot be opened: the event is spent and
\* what runs stays; if what runs has expired, the built-in rules take its place.
load_fails ==
  /\ pc # "down"
  /\ lost' = TRUE
  /\ \/ /\ events # <<>> /\ Head(events) = "Installed"
        /\ events' = Tail(events) /\ running' = running /\ health' = Status("Failed")
     \/ /\ running.bundle # None /\ ExpiresAt[running.bundle] <= now
        /\ running' = BuiltIn /\ health' = BuiltIn /\ UNCHANGED events
  /\ UNCHANGED <<disk, pc, offer, now, crashes>>

\* definitions_expired: what runs has expired, so the store is asked again.
ExpiredReload ==
  /\ pc # "down"
  /\ running.bundle # None
  /\ ExpiresAt[running.bundle] <= now
  /\ health' = load
  /\ running' = load
  /\ UNCHANGED <<disk, pc, offer, events, now, crashes, lost>>

-----------------------------------------------------------------------------
(* The environment.                                                        *)

Tick ==
  /\ now < MaxTime
  /\ now' = now + 1
  /\ UNCHANGED <<disk, pc, offer, events, service, crashes, lost>>

\* Power loss or service death: only the disk survives.
Crash ==
  /\ pc # "down"
  /\ crashes < MaxCrashes
  /\ crashes' = crashes + 1
  /\ pc' = "down" /\ offer' = None
  /\ events' = <<>> /\ running' = BuiltIn /\ health' = BuiltIn
  /\ lost' = FALSE
  /\ UNCHANGED <<disk, now>>

\* The service starts and loads what the store holds.
Restart ==
  /\ pc = "down"
  /\ pc' = "idle"
  /\ running' = load /\ health' = load
  /\ UNCHANGED <<disk, offer, events, now, crashes, lost>>

\* The damage on disk that load and validate_existing_version guard against.
Unreadable == {p \in {<<"current", current>>, <<"previous", previous>>} : p[2] = Corrupt}
MoreDamage == Cardinality(damaged) + Cardinality(Unreadable) < MaxDamage

DamageVersion(b) ==
  /\ MoreDamage
  /\ b \in versions \ damaged
  /\ damaged' = damaged \cup {b}
  /\ UNCHANGED <<versions, current, previous, activated, pc, offer, events, service, now, crashes, lost>>

DamagePointer ==
  /\ MoreDamage
  /\ \/ current \in Bundles /\ current' = Corrupt /\ previous' = previous
     \/ previous \in Bundles /\ previous' = Corrupt /\ current' = current
  /\ UNCHANGED <<versions, damaged, activated, pc, offer, events, service, now, crashes, lost>>

Activation == Verify \/ commit_immutable_version \/ Retire \/ Point \/ Reload

Next ==
  \/ CheckStarts
  \/ \E b \in Bundles : FetchNewer(b)
  \/ \E b \in Bundles : FetchCurrent(b)
  \/ \E b \in Bundles : FetchRefused(b)
  \/ FetchPayload
  \/ Activation
  \/ CheckFails
  \/ apply_update_event
  \/ ExpiredReload
  \/ load_fails
  \/ Tick
  \/ Crash
  \/ Restart
  \/ \E b \in Bundles : DamageVersion(b)
  \/ DamagePointer

Spec == Init /\ [][Next]_vars

\* The network is eventually reachable and serves the newest manifest again and
\* again; the scheduled check comes round, and the two threads keep running.  A
\* step of a check of the newest bundle may fail any number of times, not for
\* ever, and no check hangs: every request has a deadline.
Newest == {b \in Bundles : \A c \in Bundles \ {b} : Sequence[c] < Sequence[b]}
Fairness ==
  /\ WF_vars(CheckStarts) /\ WF_vars(Restart) /\ WF_vars(apply_update_event)
  /\ WF_vars(Reload) /\ WF_vars(CheckFails)
  /\ \A b \in Newest :
       /\ SF_vars(FetchNewer(b))
       /\ SF_vars(offer = b /\ FetchPayload) /\ SF_vars(offer = b /\ Verify)
       /\ SF_vars(offer = b /\ commit_immutable_version)
       /\ SF_vars(offer = b /\ Retire) /\ SF_vars(offer = b /\ Point)
FairSpec == Spec /\ Fairness

-----------------------------------------------------------------------------
Pointers == Bundles \cup {None, Corrupt}
Sources == {"Current", "LastKnownGood", "BuiltIn", "Updating", "Failed"}
Outcomes == [source : Sources, bundle : Bundles \cup {None}]

\* The shape of the state; a check holds an envelope from its payload on.
TypeOK ==
  /\ versions \subseteq Bundles /\ damaged \subseteq versions
  /\ current \in Pointers /\ previous \in Pointers
  /\ pc \in Working \cup {"idle", "down"}
  /\ offer \in IF pc \in Working \ {"manifest"} THEN Bundles ELSE {None}
  /\ events \in Seq({"CheckStarted", "Installed", "Current", "Failed"})
  /\ Len(events) <= EventCapacity
  /\ running \in Outcomes /\ health \in Outcomes
  /\ now \in 0..MaxTime /\ crashes \in 0..MaxCrashes
  /\ lost \in BOOLEAN /\ activated \subseteq Bundles

\* No replayed manifest, failed check, crash or damaged file makes current.json
\* name a bundle that is not newer than everything it has ever named.
RollbackProtected ==
  [][\A b \in activated' \ activated : \A a \in activated : Sequence[a] < Sequence[b]]_vars

\* Whatever the moment of a crash, a pointer names a bundle whose directory is
\* in place under its own name and no other envelope's, and the fallback is
\* never newer than the bundle it stands behind.
PointersCommitted ==
  /\ {current, previous} \cap Bundles \subseteq versions
  /\ \A v, w \in versions : Slot(v) = Slot(w) => v = w
  /\ current \in Bundles /\ previous \in Bundles => Sequence[previous] <= Sequence[current]

\* While nothing on disk is damaged, a bundle that was activated and compiles is
\* found again by every later load, also after a crash in the next activation.
ActiveSurvives ==
  current \in Compiles \ damaged => load = [source |-> "Current", bundle |-> current]

\* The health record names a bundle only if that bundle is what scans now.
HealthTruthful ==
  health.source \in {"Current", "LastKnownGood", "BuiltIn"} => health = running

\* If the newest bundle compiles, the service ends up scanning with it, through
\* failed checks, stale mirrors, crashes and damage to other bundles or to the
\* fallback pointer, unless its event met a full channel or a load of the store
\* failed: nobody asks again before the next event, expiry or start.  A damaged
\* current.json and a damaged copy of the bundle itself nothing repairs at all.
NewestAdopted ==
  \A b \in Newest \cap Compiles :
    <>[](running.bundle = b \/ lost \/ b \in damaged \/ current = Corrupt)
=============================================================================
