-------------------------- MODULE ServiceLifecycle --------------------------
(***************************************************************************)
(* The life of the service process: the start phases and their failure     *)
(* exits, the main loop that judges the protection and arms the driver     *)
(* (src/service.rs, src/readiness.rs), the connection supervisor that owns *)
(* the port to the minifilter (src/connection_supervisor.rs), and the      *)
(* order in which a stop takes the parts down.                             *)
(*                                                                         *)
(* The supervisor runs beside the service thread and tells it what happens *)
(* over a bounded channel that the real-time workers fill as well; the     *)
(* update client and the ClamAV scheduler send over channels of their own. *)
(* What a scan or an update does is in RealtimeVerdict, DefinitionUpdates  *)
(* and ClamDb: here only what it means for readiness is kept.              *)
(***************************************************************************)
EXTENDS Naturals, Sequences, FiniteSets, SequencesExt

CONSTANTS EventCapacity,   \* REALTIME_EVENT_CHANNEL_CAPACITY
          MaxConnections,  \* bound on port handles opened
          MaxFaults,       \* bound on failures of every other kind
          MaxChecks,       \* bound on definition checks
          HasDatabase      \* a ClamAV database is on disk when the service starts

ASSUME LifecycleAssumption ==
  /\ EventCapacity \in Nat \ {0}
  /\ MaxConnections \in Nat \ {0}
  /\ MaxFaults \in Nat /\ MaxChecks \in Nat /\ HasDatabase \in BOOLEAN

VARIABLES
  tier,        \* detect_protection_tier, once at start
  pc,          \* the service thread's place
  stopFlag,    \* stop_requested
  readiness,   \* ReadinessMonitor::current_state
  snapshot,    \* lifecycle, connection and definitions of the snapshot
  file,        \* the snapshot in the health file
  freshclam,   \* active_freshclam.is_some()
  download,    \* a generation waiting in freshclam_receiver
  selfTest,    \* self_test_passed
  streak,      \* consecutive_health_successes and _failures
  observed,    \* what this iteration found
  runtimeError,\* runtime_error.is_some()
  updater,     \* the update client: "none", "idle", "checking", "stopped"
  update,      \* the last event in its channel, or "none"
  rpc,         \* the control server runs
  sup,         \* the supervisor's place
  supStop,     \* RealtimeProtection::stop flag
  handle,      \* the handle the supervisor connected with
  port,        \* the published handle, 0 for none
  opened,      \* handles opened so far
  closed,      \* how often each handle was closed
  driver,      \* the handle the driver serves, 0 for none
  armed,       \* the driver's ready generation is set
  events,      \* the real-time event channel
  dropped,     \* observer: a Connected event found the channel full
  faults,      \* failures so far
  checks       \* definition checks so far

threadVars == <<pc, readiness, snapshot, file>>
foundVars == <<freshclam, selfTest, streak, observed>>
serviceVars == <<threadVars, foundVars, runtimeError>>
controlVars == <<tier, stopFlag, rpc>>
clientVars == <<updater, update, checks, download>>
handleVars == <<port, opened, closed, driver, armed>>
channelVars == <<events, dropped>>
supervisorVars == <<sup, handle, supStop, handleVars, channelVars>>
vars == <<serviceVars, controlVars, clientVars, supervisorVars, faults>>

Startup == {"settings", "freshclam", "definitions", "workers", "protocol", "connecting"}
Loop == {"drain", "query", "selftest", "judge"}
Teardown == {"stop", "rpc", "updater", "protection", "join", "finish"}
Ended == {"stopped", "failed"}
requires_driver == tier = "Kernel"
NothingObserved == [health |-> FALSE, ready |-> FALSE, stores |-> TRUE, suppressed |-> FALSE]

Init ==
  /\ tier \in {"Kernel", "Userland"}
  /\ pc = "settings" /\ stopFlag = FALSE
  /\ readiness = "Starting"
  /\ snapshot = [lifecycle |-> "Starting", connection |-> "Connecting", definitions |-> "Stable"]
  /\ file = [lifecycle |-> "none", connection |-> "none", readiness |-> "none"]
  /\ freshclam = HasDatabase /\ download = FALSE
  /\ selfTest = FALSE /\ streak = [good |-> 0, bad |-> 0]
  /\ observed = NothingObserved
  /\ runtimeError = FALSE
  /\ updater = "none" /\ update = "none" /\ rpc = FALSE
  /\ sup = "none" /\ supStop = FALSE /\ handle = 0
  /\ port = 0 /\ opened = 0 /\ closed = [h \in 1..MaxConnections |-> 0]
  /\ driver = 0 /\ armed = FALSE
  /\ events = <<>> /\ dropped = FALSE /\ faults = 0 /\ checks = 0

-----------------------------------------------------------------------------
(* Readiness.                                                              *)

\* Something fails that may fail.
Fault == faults < MaxFaults /\ faults' = faults + 1

\* ProtectionComponents::mandatory_failures, for the components that can fail.
mandatory_failures ==
  {c \in {"message loop", "native definitions", "FreshClam", "stores", "self-test",
          "minifilter"} :
     \/ c = "message loop" /\ snapshot.lifecycle # "Running"
     \/ c = "native definitions" /\ snapshot.definitions = "Failed"
     \/ c = "FreshClam" /\ ~freshclam
     \/ c = "stores" /\ ~observed.stores
     \/ c = "self-test" /\ ~selfTest
     \/ c = "minifilter" /\ requires_driver
          /\ ~(snapshot.connection = "Connected" /\ observed.health)}

\* derive_readiness
derive_readiness(ready, good) ==
  IF mandatory_failures # {} THEN "Degraded"
  ELSE IF requires_driver /\ ~ready THEN "Recovering"
  ELSE IF good < 3 THEN "Recovering"
  ELSE "Ready"

\* In the user-land tier driver_connected is never true, so a bad iteration is
\* always an explicit driver failure there.
explicit_driver_failure == ~(snapshot.connection = "Connected" /\ observed.health)

\* ReadinessMonitor::report_components: one bad iteration does not end Ready.
report_components(ready, s) ==
  LET derived == derive_readiness(ready, s.good)
      tolerated == readiness = "Ready" /\ derived = "Degraded"
                     /\ ~explicit_driver_failure /\ s.bad < 2
      final == readiness \in {"Stopping", "Stopped", "Failed"}
  IN  IF tolerated \/ final THEN readiness ELSE derived

\* write_health_best_effort: a write that fails leaves the old file.
write_health(snap, ready) ==
  file' = [lifecycle |-> snap.lifecycle, connection |-> snap.connection, readiness |-> ready]

Lifecycle(l) == [snapshot EXCEPT !.lifecycle = l]
StoppedSnapshot == [snapshot EXCEPT !.lifecycle = "Stopped", !.connection = "Stopped"]

-----------------------------------------------------------------------------
(* The real-time event channel and the handles.                            *)

\* try_send: what finds the channel full is gone.
try_send(e) ==
  /\ events' = IF Len(events) < EventCapacity THEN Append(events, e) ELSE events
  /\ dropped' = (dropped \/ (e = "Connected" /\ Len(events) >= EventCapacity))

\* Closing the client end makes the driver forget it and its ready generation.
CloseHandle(h) ==
  /\ closed' = [closed EXCEPT ![h] = @ + 1]
  /\ driver' = IF driver = h THEN 0 ELSE driver
  /\ armed' = (armed /\ driver # h)

\* RealtimeProtection::driver_health reaches a driver only over an open port.
PortAnswers == port # 0 /\ driver = port

-----------------------------------------------------------------------------
(* The service thread: start.                                              *)

\* The exit of a start that failed: what runs is taken down by Teardown first.
Fails ==
  /\ pc' = "failed" /\ readiness' = "Failed" /\ snapshot' = StoppedSnapshot
  /\ write_health(StoppedSnapshot, "Failed")

\* Private state moved, settings read (or the defaults taken), the first
\* snapshot written with LoadingFreshClam.
LoadSettings ==
  /\ pc = "settings"
  /\ pc' = "freshclam" /\ readiness' = "LoadingFreshClam"
  /\ write_health(snapshot, "LoadingFreshClam")
  /\ UNCHANGED <<supervisorVars, foundVars, controlVars, clientVars, snapshot,
                 runtimeError, faults>>

\* active_database was read, the scheduler and the learned shards started.
StartScheduler ==
  /\ pc = "freshclam"
  /\ pc' = "definitions" /\ readiness' = "LoadingDefinitions"
  /\ UNCHANGED <<supervisorVars, foundVars, controlVars, clientVars, snapshot, file,
                 runtimeError, faults>>

\* load_detection_engine refused: nothing was started that must be stopped.
EngineFails ==
  /\ pc = "definitions" /\ Fault
  /\ Fails
  /\ UNCHANGED <<supervisorVars, foundVars, clientVars, tier, runtimeError,
                 stopFlag, rpc>>

\* The engine is loaded, with the native index of the active database.
LoadEngine ==
  /\ pc = "definitions"
  /\ pc' = "workers" /\ readiness' = "StartingDetectionWorkers"
  /\ UNCHANGED <<supervisorVars, foundVars, controlVars, clientVars, snapshot, file,
                 runtimeError, faults>>

\* RealtimeProtection::start or without_driver, then start_definition_updater:
\* a client, none configured, or one that cannot start.
StartWorkers ==
  /\ pc = "workers"
  /\ pc' = "protocol" /\ readiness' = "ValidatingProtocol"
  /\ sup' = IF requires_driver THEN "top" ELSE "none"
  /\ \/ updater' = "idle" /\ UNCHANGED <<snapshot, faults>>
     \/ updater' = "none" /\ UNCHANGED <<snapshot, faults>>
     \/ Fault /\ updater' = "none" /\ snapshot' = [snapshot EXCEPT !.definitions = "Failed"]
  /\ UNCHANGED <<foundVars, controlVars, handleVars, channelVars, file,
                 runtimeError, download, update, handle, supStop, checks>>

\* RpcServer::start could not create its pipes; client and protection stop.
RpcFails ==
  /\ pc = "protocol" /\ Fault
  /\ pc' = "updater" /\ runtimeError' = TRUE
  /\ UNCHANGED <<readiness, supervisorVars, foundVars, controlVars, clientVars, snapshot,
                 file>>

StartRpc ==
  /\ pc = "protocol"
  /\ pc' = "connecting" /\ rpc' = TRUE /\ readiness' = "ConnectingDriver"
  /\ snapshot' = Lifecycle("Running")
  /\ write_health(snapshot', "ConnectingDriver")
  /\ UNCHANGED <<supervisorVars, foundVars, clientVars, tier, runtimeError,
                 stopFlag, faults>>

\* report_state(Running).  The SCM accepts a stop only once it was told Running,
\* so an earlier one comes from a console run, whose reporter cannot fail.
ReportRunning ==
  /\ pc = "connecting"
  /\ \/ pc' = "drain" /\ UNCHANGED <<runtimeError, faults>>
     \/ ~stopFlag /\ Fault /\ pc' = "rpc" /\ runtimeError' = TRUE
  /\ UNCHANGED <<supervisorVars, foundVars, clientVars, tier, readiness,
                 snapshot, file, stopFlag, rpc>>

-----------------------------------------------------------------------------
(* The service thread: one iteration of the main loop.                     *)

\* apply_realtime_event over everything drained: the last connection event.
apply_realtime_events(snap) ==
  LET states == SelectSeq(events, LAMBDA e : e # "Decision")
  IN  IF states = <<>> THEN snap ELSE [snap EXCEPT !.connection = Last(states)]

\* apply_update_event: each event overwrites what the one before it said, so
\* only the last in the channel is kept.
apply_update_event(snap, e) ==
  CASE e = "none" -> snap
    [] e = "CheckStarted" -> [snap EXCEPT !.definitions = "Updating"]
    [] e \in {"Installed", "Current"} -> [snap EXCEPT !.definitions = "Stable"]
    [] e = "Failed" -> [snap EXCEPT !.definitions = "Failed"]

\* The periodic work of an iteration: an expired bundle is reloaded, from disk or
\* from the built-in definitions, and clears what an update said; the built-in
\* ones may fail too; an update asked for by hand without a client is an error.
\* The vault's purge and the settings are in RollbackVault and IpcServer.
Upkeep == {"nothing", "reloaded", "no engine", "no client"}
upkept(snap, work) ==
  CASE work = "nothing" -> snap
    [] work = "reloaded" -> [snap EXCEPT !.definitions = "Stable"]
    [] work \in {"no engine", "no client"} -> [snap EXCEPT !.definitions = "Failed"]

\* The loop's head.  A channel whose sender is gone is found only when empty,
\* and ends the loop after this iteration.
Drain ==
  /\ pc = "drain"
  /\ ~stopFlag /\ ~runtimeError
  /\ \E work \in Upkeep, loads \in BOOLEAN :
       LET gone == sup = "panicked" /\ events = <<>>
           seen == IF gone THEN [snapshot EXCEPT !.connection = "Disconnected"]
                   ELSE apply_realtime_events(snapshot)
       IN  /\ ~loads => download               \* the downloaded index does not load
           /\ work = "no client" => updater = "none"
           /\ IF loads /\ work \in {"nothing", "reloaded"} THEN UNCHANGED faults ELSE Fault
           /\ freshclam' = (freshclam \/ (download /\ loads))
           /\ runtimeError' = (gone \/ work = "no engine")
           /\ snapshot' = upkept(apply_update_event(seen, update), work)
  /\ events' = <<>> /\ update' = "none" /\ download' = FALSE
  /\ pc' = "query"
  /\ UNCHANGED <<controlVars, handleVars, readiness, file, selfTest, streak,
                 observed, updater, sup, handle, supStop, dropped, checks>>

\* driver_health, the stores' availability and the rule circuit breaker.
Query ==
  /\ pc = "query"
  /\ \E stores, suppressed \in BOOLEAN :
       /\ IF stores /\ ~suppressed THEN UNCHANGED faults ELSE Fault
       /\ observed' = [health |-> PortAnswers, ready |-> PortAnswers /\ armed,
                       stores |-> stores, suppressed |-> suppressed]
  /\ pc' = IF ~selfTest /\ freshclam /\ (requires_driver => PortAnswers)
           THEN "selftest" ELSE "judge"
  /\ UNCHANGED <<supervisorVars, controlVars, clientVars, readiness, snapshot, file,
                 freshclam, selfTest, streak, runtimeError>>

\* run_tiered_self_test passes: the probe was blocked, or the engine convicts.
SelfTestPasses ==
  /\ pc = "selftest"
  /\ requires_driver => PortAnswers
  /\ selfTest' = TRUE /\ pc' = "judge"
  /\ UNCHANGED <<supervisorVars, controlVars, clientVars, readiness, snapshot, file,
                 freshclam, streak, observed, runtimeError, faults>>

\* It fails, or the last attempt is less than 30 s old.
SelfTestFails ==
  /\ pc = "selftest"
  /\ pc' = "judge"
  /\ UNCHANGED <<supervisorVars, foundVars, controlVars, clientVars, readiness,
                 snapshot, file, runtimeError, faults>>

\* Mutant of preflight_healthy: only the rule circuit breaker is looked at.
preflight_healthy_rules == ~observed.suppressed

preflight_healthy == mandatory_failures = {} /\ ~observed.suppressed

\* The counters, arming through set_ready_generation, the new readiness, and
\* the health file.
Judge ==
  /\ pc = "judge"
  /\ LET s == IF preflight_healthy
              THEN [good |-> IF streak.good < 3 THEN streak.good + 1 ELSE 3, bad |-> 0]
              ELSE [good |-> 0, bad |-> IF streak.bad < 2 THEN streak.bad + 1 ELSE 2]
         arming == preflight_healthy /\ s.good = 3 /\ ~observed.ready /\ PortAnswers
         next == report_components(observed.ready \/ arming, s)
     IN  /\ streak' = s
         /\ armed' = (armed \/ arming)
         /\ readiness' = next
         /\ write_health(snapshot, next)
  /\ observed' = NothingObserved
  /\ pc' = IF runtimeError THEN "stop" ELSE "drain"
  /\ UNCHANGED <<controlVars, clientVars, channelVars, snapshot, freshclam,
                 selfTest, runtimeError, sup, handle, supStop, port,
                 opened, closed, driver, faults>>

-----------------------------------------------------------------------------
(* The service thread: stop.                                               *)

\* The SCM handler, or the console's signal.
StopControl ==
  /\ ~stopFlag /\ pc \notin Ended
  /\ stopFlag' = TRUE
  /\ UNCHANGED <<serviceVars, supervisorVars, clientVars, tier, rpc,
                 faults>>

\* The loop ends: readiness Stopping, the file StopPending.
LoopEnds ==
  /\ \/ pc = "drain" /\ stopFlag
     \/ pc = "stop"
  /\ pc' = "rpc" /\ readiness' = "Stopping"
  /\ snapshot' = Lifecycle("StopPending")
  /\ write_health(snapshot', "Stopping")
  /\ UNCHANGED <<supervisorVars, foundVars, clientVars, tier, runtimeError,
                 stopFlag, rpc, faults>>

\* stop_workers waits five seconds; a listener that is still answering is left to
\* the process's exit (IpcServer).
StopRpc ==
  /\ pc = "rpc"
  /\ pc' = "updater" /\ rpc' = FALSE
  /\ UNCHANGED <<supervisorVars, foundVars, clientVars, tier, readiness,
                 snapshot, file, runtimeError, stopFlag, faults>>

\* UpdateClientHandle::stop joins the worker, whose check is cut short.
StopUpdater ==
  /\ pc = "updater"
  /\ pc' = "protection"
  /\ updater' = IF updater = "none" THEN "none" ELSE "stopped"
  /\ UNCHANGED <<supervisorVars, foundVars, controlVars, readiness, snapshot, file,
                 runtimeError, download, update, faults, checks>>

\* RealtimeProtection::stop up to its join: the flag, then whoever takes the
\* published handle closes it.
StopProtection ==
  /\ pc = "protection"
  /\ pc' = "join" /\ supStop' = TRUE /\ port' = 0
  /\ IF port # 0 THEN CloseHandle(port) ELSE UNCHANGED <<closed, driver, armed>>
  /\ UNCHANGED <<foundVars, controlVars, clientVars, channelVars, readiness,
                 snapshot, file, runtimeError, sup, handle, opened, faults>>

\* The supervisor is joined; a start that failed ends here too.
Join ==
  /\ pc = "join"
  /\ sup \in {"none", "ended", "panicked"}
  /\ IF readiness = "Stopping"
     THEN /\ pc' = "stopped" /\ readiness' = "Stopped"
          /\ snapshot' = StoppedSnapshot
          /\ write_health(StoppedSnapshot, "Stopped")
     ELSE Fails
  /\ UNCHANGED <<supervisorVars, foundVars, clientVars, tier, runtimeError,
                 stopFlag, rpc, faults>>

-----------------------------------------------------------------------------
(* The connection supervisor.                                              *)

\* Mutant of SupervisorTop: the loop does not look at the stop flag.
SupervisorTop_restless ==
  /\ sup = "top"
  /\ sup' = "connect" /\ try_send("Connecting")
  /\ UNCHANGED <<serviceVars, controlVars, clientVars, handleVars, handle, supStop,
                 faults>>

\* The head of connection_loop.
SupervisorTop ==
  /\ sup = "top"
  /\ IF supStop THEN sup' = "ended" /\ UNCHANGED <<events, dropped>>
     ELSE sup' = "connect" /\ try_send("Connecting")
  /\ UNCHANGED <<serviceVars, controlVars, clientVars, handleVars, handle, supStop,
                 faults>>

\* FilterConnectCommunicationPort: a new client is never armed.
Connect ==
  /\ sup = "connect" /\ driver = 0 /\ opened < MaxConnections
  /\ opened' = opened + 1 /\ handle' = opened + 1 /\ driver' = opened + 1 /\ armed' = FALSE
  /\ sup' = "publish"
  /\ UNCHANGED <<serviceVars, controlVars, clientVars, channelVars, supStop, port,
                 closed, faults>>

\* The port does not open: the driver is not there, or serves someone else.
ConnectFails ==
  /\ sup = "connect"
  /\ Fault \/ (opened = MaxConnections /\ UNCHANGED faults)
  /\ sup' = "wait" /\ try_send("Disconnected")
  /\ UNCHANGED <<serviceVars, controlVars, clientVars, handleVars, handle, supStop>>

\* CreateEventW fails: the handle is closed before anyone else sees it.
EventFails ==
  /\ sup = "publish" /\ Fault
  /\ CloseHandle(handle)
  /\ sup' = "wait" /\ try_send("Disconnected")
  /\ UNCHANGED <<serviceVars, controlVars, clientVars, handle, supStop, port,
                 opened>>

\* Mutant of Publish: the event is forgotten.
Publish_silent ==
  /\ sup = "publish"
  /\ port' = handle /\ UNCHANGED channelVars
  /\ sup' = "receive"
  /\ UNCHANGED <<serviceVars, controlVars, clientVars, handle, supStop, opened,
                 closed, driver, armed, faults>>

\* The port is published and the workers start.
Publish ==
  /\ sup = "publish"
  /\ port' = handle /\ try_send("Connected")
  /\ sup' = "receive"
  /\ UNCHANGED <<serviceVars, controlVars, clientVars, handle, supStop, opened,
                 closed, driver, armed, faults>>

\* A worker cannot be spawned: the supervisor dies with its end of the channel.
SupervisorPanics ==
  /\ sup = "receive" /\ Fault
  /\ sup' = "panicked"
  /\ UNCHANGED <<serviceVars, controlVars, clientVars, handleVars, channelVars,
                 handle, supStop>>

\* A verdict or an overload is reported over the same channel.
Traffic ==
  /\ sup = "receive" /\ Len(events) < EventCapacity
  /\ try_send("Decision")
  /\ UNCHANGED <<serviceVars, controlVars, clientVars, handleVars, sup, handle,
                 supStop, faults>>

\* The driver is unloaded or the receive fails.
DriverLost ==
  /\ driver # 0 /\ Fault
  /\ driver' = 0 /\ armed' = FALSE
  /\ UNCHANGED <<serviceVars, controlVars, clientVars, channelVars, sup, handle,
                 supStop, port, opened, closed>>

\* receive_message ends: a stop, a lost driver, or the handle was closed.
ReceiveEnds ==
  /\ sup = "receive"
  /\ supStop \/ driver # handle
  /\ sup' = "release"
  /\ UNCHANGED <<serviceVars, controlVars, clientVars, handleVars, channelVars,
                 handle, supStop, faults>>

\* Mutant of Release: the handle is closed whoever took it off the port.
Release_always ==
  /\ sup = "release"
  /\ CloseHandle(handle) /\ port' = IF port = handle THEN 0 ELSE port
  /\ sup' = "announce"
  /\ UNCHANGED <<serviceVars, controlVars, clientVars, channelVars, handle, supStop,
                 opened, faults>>

\* The workers are joined; compare_exchange decides who closes the handle.
Release ==
  /\ sup = "release"
  /\ IF port = handle THEN CloseHandle(handle) /\ port' = 0
     ELSE UNCHANGED <<closed, driver, armed, port>>
  /\ sup' = "announce"
  /\ UNCHANGED <<serviceVars, controlVars, clientVars, channelVars, handle, supStop,
                 opened, faults>>

Announce ==
  /\ sup = "announce"
  /\ try_send(IF supStop THEN "Stopped" ELSE "Disconnected")
  /\ sup' = "wait"
  /\ UNCHANGED <<serviceVars, controlVars, clientVars, handleVars, handle, supStop,
                 faults>>

\* interruptible_wait: the back-off, or a stop.
WaitEnds ==
  /\ sup = "wait" /\ sup' = "top"
  /\ UNCHANGED <<serviceVars, controlVars, clientVars, handleVars, channelVars,
                 handle, supStop, faults>>

-----------------------------------------------------------------------------
(* The update client and the ClamAV scheduler, seen from the service.      *)

CheckBegins ==
  /\ updater = "idle" /\ checks < MaxChecks
  /\ updater' = "checking" /\ checks' = checks + 1
  /\ update' = "CheckStarted"
  /\ UNCHANGED <<serviceVars, supervisorVars, controlVars, download, faults>>

CheckEnds ==
  /\ updater = "checking"
  /\ updater' = "idle"
  /\ \/ \E e \in {"Installed", "Current"} : update' = e /\ UNCHANGED faults
     \/ update' = "Failed" /\ checks < MaxChecks /\ Fault
  /\ UNCHANGED <<serviceVars, supervisorVars, controlVars, download, checks>>

DownloadLands ==
  /\ pc \notin {"settings", "freshclam"} \cup Ended
  /\ ~freshclam /\ ~download
  /\ download' = TRUE
  /\ UNCHANGED <<serviceVars, supervisorVars, controlVars, updater, update, faults,
                 checks>>

-----------------------------------------------------------------------------
ServiceStep ==
  \/ LoadSettings \/ StartScheduler \/ EngineFails \/ LoadEngine \/ StartWorkers
  \/ RpcFails \/ StartRpc \/ ReportRunning
  \/ Drain \/ Query \/ SelfTestPasses \/ SelfTestFails \/ Judge
  \/ LoopEnds \/ StopRpc \/ StopUpdater \/ StopProtection \/ Join

SupervisorStep ==
  \/ SupervisorTop \/ Connect \/ ConnectFails \/ EventFails \/ Publish \/ SupervisorPanics
  \/ ReceiveEnds \/ Release \/ Announce \/ WaitEnds

\* The process has ended; its detached scheduler thread went with it.
Done == pc \in Ended /\ UNCHANGED vars

Next ==
  \/ ServiceStep \/ StopControl
  \/ SupervisorStep \/ Traffic \/ DriverLost
  \/ CheckBegins \/ CheckEnds \/ DownloadLands
  \/ Done

Spec == Init /\ [][Next]_vars

(***************************************************************************)
(* Both threads run; checks, downloads and reconnections are retried on    *)
(* timers for as long as the process lives; a self-test that keeps being   *)
(* repeated with a connected driver passes in the end.                     *)
(***************************************************************************)
FairSpec ==
  /\ Spec
  /\ WF_vars(ServiceStep) /\ WF_vars(SupervisorStep)
  /\ WF_vars(CheckBegins) /\ WF_vars(CheckEnds) /\ WF_vars(DownloadLands)
  /\ SF_vars(SelfTestPasses)

-----------------------------------------------------------------------------
(* Properties.                                                             *)

TypeOK ==
  /\ tier \in {"Kernel", "Userland"}
  /\ pc \in Startup \cup Loop \cup Teardown \cup Ended
  /\ stopFlag \in BOOLEAN /\ supStop \in BOOLEAN /\ rpc \in BOOLEAN
  /\ snapshot.lifecycle \in {"Starting", "Running", "StopPending", "Stopped"}
  /\ snapshot.connection \in {"Connecting", "Connected", "Disconnected", "Stopped"}
  /\ snapshot.definitions \in {"Stable", "Updating", "Failed"}
  /\ streak.good \in 0..3 /\ streak.bad \in 0..2
  /\ updater \in {"none", "idle", "checking", "stopped"}
  /\ sup \in {"none", "top", "connect", "publish", "receive", "release", "announce", "wait",
              "ended", "panicked"}
  /\ opened \in 0..MaxConnections
  /\ {handle, port, driver} \subseteq 0..opened
  /\ Len(events) <= EventCapacity

\* A driver fails closed only for a service that has proved itself: it is armed
\* only after a self-test has passed with a ClamAV database in place, and never
\* by a service that has not reached its loop.
ArmedOnlyWhenProven ==
  armed => /\ requires_driver /\ selfTest /\ freshclam
           /\ pc \notin Startup /\ driver # 0

\* Between stop and the supervisor each port handle is closed once, and a
\* process that reports Stopped has closed them all and left no thread behind,
\* whatever made it stop.  Only a supervisor that dies just after publishing to
\* a service that has stopped already leaves its handle to the process's exit.
QuietWhenStopped ==
  /\ \A h \in 1..MaxConnections : closed[h] <= 1
  /\ file.lifecycle = "Stopped" =>
       /\ sup \in {"none", "ended", "panicked"} /\ ~rpc
       /\ updater \in {"none", "stopped"}
       /\ sup # "panicked" =>
            port = 0 /\ driver = 0 /\ \A h \in 1..opened : closed[h] = 1

\* A stop is never held up: by a queue nobody reads, a receive that waits for
\* the driver, or a reconnection.
StopCompletes == stopFlag ~> pc \in Ended

\* Unless a Connected event was lost, a service that is never stopped or broken
\* and has a driver ends up Ready with the driver armed, whatever failed before.
EndsUpReady ==
  <>[](readiness = "Ready" /\ (requires_driver => armed))
    \/ <>(stopFlag \/ runtimeError \/ pc = "failed" \/ dropped
            \/ (sup = "connect" /\ opened = MaxConnections)
            \/ (updater = "none" /\ snapshot.definitions = "Failed"))
=============================================================================
