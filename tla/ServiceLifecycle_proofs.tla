----------------------- MODULE ServiceLifecycle_proofs -----------------------
(***************************************************************************)
(* The service's life for any number of connections, faults and checks and *)
(* any event channel: who closes a port handle when a stop meets the       *)
(* supervisor, what is left when the health file says Stopped, and what    *)
(* must have been proved before the driver is armed.                       *)
(***************************************************************************)
EXTENDS ServiceLifecycle, TLAPS

Places == Startup \cup Loop \cup Teardown \cup Ended
Early == {"settings", "freshclam", "definitions", "workers"}
Connected == {"publish", "receive", "release", "panicked"}
SupervisorPlaces == {"none", "top", "connect", "announce", "wait", "ended"} \cup Connected

\* The newest handle is open: not yet published, or on the port.
Live == sup = "publish" \/ port # 0

\* Every handle but a live one has been closed exactly once, and the driver
\* serves no other.
HandleInv ==
  /\ opened \in 0..MaxConnections /\ closed \in [1..MaxConnections -> Nat]
  /\ sup \in SupervisorPlaces
  /\ \A h \in 1..MaxConnections :
       closed[h] = IF h <= opened /\ ~(h = opened /\ Live) THEN 1 ELSE 0
  /\ port # 0 => port = opened /\ sup \in {"receive", "release", "panicked"}
  /\ sup \in Connected => handle = opened /\ opened # 0
  /\ driver # 0 => driver = opened /\ Live
  /\ sup = "none" => opened = 0 /\ port = 0
  /\ sup # "none" => requires_driver

\* What runs at which place of the service thread.
PartsInv ==
  /\ pc \in Places
  /\ pc \in Early => sup = "none" /\ updater = "none"
  /\ pc \in Early \cup {"protocol", "updater", "protection", "join"} \cup Ended => ~rpc
  /\ pc \in {"protection", "join"} \cup Ended => updater \in {"none", "stopped"}
  /\ pc \in Ended => sup \in {"none", "ended", "panicked"}
  /\ update \in {"none", "CheckStarted", "Installed", "Current", "Failed"}
  /\ DOMAIN snapshot = {"lifecycle", "connection", "definitions"}
  /\ snapshot.lifecycle = "Stopped" \/ file.lifecycle = "Stopped" => pc \in Ended

LifeInv == HandleInv /\ PartsInv /\ ArmedOnlyWhenProven

\* The steps of the service thread that leave the port and the supervisor alone.
Elsewhere ==
  \/ LoadSettings \/ StartScheduler \/ EngineFails \/ LoadEngine \/ RpcFails \/ StartRpc
  \/ ReportRunning \/ Drain \/ Query \/ SelfTestPasses \/ SelfTestFails \/ Judge
  \/ LoopEnds \/ StopRpc \/ StopUpdater \/ Join \/ StopControl
  \/ CheckBegins \/ CheckEnds \/ DownloadLands \/ Done

-----------------------------------------------------------------------------
(* The handles.                                                            *)

\* A step that touches neither the handles nor the supervisor's place.
LEMMA HandleStill ==
  ASSUME HandleInv, UNCHANGED <<sup, handle, port, opened, closed, driver, tier>>
  PROVE  HandleInv'
  BY DEF HandleInv, Live, requires_driver

\* Closing the live handle closes it for the first time.
LEMMA CloseLive ==
  ASSUME HandleInv, Live, opened # 0, CloseHandle(opened)
  PROVE  /\ closed' \in [1..MaxConnections -> Nat] /\ driver' = 0
         /\ \A h \in 1..MaxConnections : closed'[h] = IF h <= opened THEN 1 ELSE 0
  <1>1. opened \in 1..MaxConnections
    BY DEF HandleInv
  <1>2. closed' = [closed EXCEPT ![opened] = @ + 1] /\ closed[opened] = 0
    BY <1>1 DEF CloseHandle, HandleInv
  <1>3. closed' \in [1..MaxConnections -> Nat]
    BY <1>1, <1>2 DEF HandleInv
  <1>4. \A h \in 1..MaxConnections : closed'[h] = IF h <= opened THEN 1 ELSE 0
    BY <1>1, <1>2 DEF HandleInv
  <1>5. driver' = 0
    BY DEF CloseHandle, HandleInv
  <1> QED BY <1>3, <1>4, <1>5

\* The service thread starts the supervisor, or finds no driver to supervise.
LEMMA StartHandles == ASSUME HandleInv, PartsInv, StartWorkers PROVE HandleInv'
  <1>1. sup = "none" /\ UNCHANGED <<handle, port, opened, closed, driver, tier>>
    BY DEF StartWorkers, PartsInv, Early, handleVars, controlVars
  <1>2. opened = 0 /\ port = 0 /\ driver = 0
    BY <1>1 DEF HandleInv, Live
  <1>3. sup' = IF requires_driver THEN "top" ELSE "none"
    BY DEF StartWorkers
  <1> QED BY <1>1, <1>2, <1>3
          DEF HandleInv, Live, Connected, SupervisorPlaces, requires_driver

\* A stop takes the handle off the port and closes it; if the supervisor was
\* first, there is none.
LEMMA StopHandles == ASSUME HandleInv, StopProtection PROVE HandleInv'
  <1>1. port' = 0 /\ UNCHANGED <<sup, handle, opened, tier>>
    BY DEF StopProtection, controlVars
  <1>2. CASE port = 0
    BY <1>1, <1>2 DEF StopProtection, HandleInv, Live, requires_driver
  <1>3. CASE port # 0
    <2>1. port = opened /\ sup \in {"receive", "release", "panicked"} /\ Live
      BY <1>3 DEF HandleInv, Live
    <2>2. /\ closed' \in [1..MaxConnections -> Nat] /\ driver' = 0
          /\ \A h \in 1..MaxConnections : closed'[h] = IF h <= opened THEN 1 ELSE 0
      BY <1>3, <2>1, CloseLive DEF StopProtection
    <2> QED BY <1>1, <2>1, <2>2 DEF HandleInv, Live, Connected, requires_driver
  <1> QED BY <1>2, <1>3

\* A new connection gets a handle of its own, while no other is live.
LEMMA ConnectHandles == ASSUME HandleInv, Connect PROVE HandleInv'
  <1>1. /\ sup = "connect" /\ sup' = "publish" /\ opened < MaxConnections
        /\ opened' = opened + 1 /\ handle' = opened + 1 /\ driver' = opened + 1
        /\ UNCHANGED <<port, closed, tier>>
    BY DEF Connect, controlVars
  <1>2. port = 0 /\ ~Live
    BY <1>1 DEF HandleInv, Live
  <1>3. \A h \in 1..MaxConnections : closed[h] = IF h <= opened THEN 1 ELSE 0
    BY <1>2 DEF HandleInv
  <1>4. opened \in Nat /\ opened' \in 0..MaxConnections
    BY <1>1, LifecycleAssumption DEF HandleInv
  <1>5. \A h \in 1..MaxConnections : closed'[h] = IF h <= opened' /\ ~(h = opened') THEN 1 ELSE 0
    BY <1>1, <1>3, <1>4
  <1> QED BY <1>1, <1>2, <1>4, <1>5
          DEF HandleInv, Live, Connected, SupervisorPlaces, requires_driver

\* The handle that was never published is closed by the one who opened it.
LEMMA EventHandles == ASSUME HandleInv, EventFails PROVE HandleInv'
  <1>1. /\ sup = "publish" /\ sup' = "wait" /\ UNCHANGED <<port, opened, handle, tier>>
        /\ handle = opened /\ opened # 0 /\ port = 0 /\ Live
    BY DEF EventFails, HandleInv, Connected, Live, controlVars
  <1>2. /\ closed' \in [1..MaxConnections -> Nat] /\ driver' = 0
        /\ \A h \in 1..MaxConnections : closed'[h] = IF h <= opened THEN 1 ELSE 0
    BY <1>1, CloseLive DEF EventFails
  <1> QED BY <1>1, <1>2
          DEF HandleInv, Live, Connected, SupervisorPlaces, requires_driver

\* Whoever takes the handle off the port closes it.
LEMMA ReleaseHandles == ASSUME HandleInv, Release PROVE HandleInv'
  <1>1. /\ sup = "release" /\ sup' = "announce" /\ UNCHANGED <<opened, handle, tier>>
        /\ handle = opened /\ opened # 0
    BY DEF Release, HandleInv, Connected, controlVars
  <1>2. CASE port = handle
    <2>1. Live /\ port' = 0 /\ CloseHandle(opened)
      BY <1>1, <1>2 DEF Live, Release
    <2>2. /\ closed' \in [1..MaxConnections -> Nat] /\ driver' = 0
          /\ \A h \in 1..MaxConnections : closed'[h] = IF h <= opened THEN 1 ELSE 0
      BY <1>1, <2>1, CloseLive
    <2> QED BY <1>1, <2>1, <2>2
            DEF HandleInv, Live, Connected, SupervisorPlaces, requires_driver
  <1>3. CASE port # handle
    <2>1. port = 0 /\ ~Live /\ UNCHANGED <<port, closed, driver>>
      BY <1>1, <1>3 DEF HandleInv, Live, Release
    <2> QED BY <1>1, <2>1
            DEF HandleInv, Live, Connected, SupervisorPlaces, requires_driver
  <1> QED BY <1>2, <1>3

\* Every step keeps the handles in order.
LEMMA HandleStep == ASSUME HandleInv, PartsInv, [Next]_vars PROVE HandleInv'
  <1>1. CASE StartWorkers \/ StopProtection
    BY <1>1, StartHandles, StopHandles
  <1>2. CASE Connect \/ EventFails \/ Release
    BY <1>2, ConnectHandles, EventHandles, ReleaseHandles
  <1>3. CASE Publish
    <2>1. /\ sup = "publish" /\ sup' = "receive" /\ port' = handle
          /\ UNCHANGED <<handle, opened, closed, driver, tier>>
      BY <1>3 DEF Publish, controlVars
    <2> QED BY <2>1 DEF HandleInv, Live, Connected, SupervisorPlaces, requires_driver
  <1>4. CASE SupervisorPanics \/ ReceiveEnds
    <2>1. /\ sup = "receive" /\ sup' \in {"panicked", "release"}
          /\ UNCHANGED <<handle, port, opened, closed, driver, tier>>
      BY <1>4 DEF SupervisorPanics, ReceiveEnds, controlVars, handleVars
    <2> QED BY <2>1 DEF HandleInv, Live, Connected, SupervisorPlaces, requires_driver
  <1>5. CASE SupervisorTop \/ ConnectFails \/ Announce \/ WaitEnds
    <2>1. /\ sup \in {"top", "connect", "announce", "wait"}
          /\ sup' \in {"ended", "connect", "wait", "top"}
          /\ UNCHANGED <<handle, port, opened, closed, driver, tier>>
      BY <1>5 DEF SupervisorTop, ConnectFails, Announce, WaitEnds, controlVars, handleVars
    <2> QED BY <2>1 DEF HandleInv, Live, Connected, SupervisorPlaces, requires_driver
  <1>6. CASE DriverLost
    <2>1. driver' = 0 /\ UNCHANGED <<sup, handle, port, opened, closed, tier>>
      BY <1>6 DEF DriverLost, controlVars
    <2> QED BY <2>1 DEF HandleInv, Live, requires_driver
  <1>7. CASE Elsewhere \/ Traffic \/ UNCHANGED vars
    <2>1. UNCHANGED <<sup, handle, port, opened, closed, driver, tier>>
      BY <1>7
         DEF Elsewhere, LoadSettings, StartScheduler, EngineFails, LoadEngine, RpcFails, StartRpc,
             ReportRunning, Drain, Query, SelfTestPasses, SelfTestFails, Judge, LoopEnds, StopRpc,
             StopUpdater, Join, StopControl, CheckBegins, CheckEnds, DownloadLands, Done, Traffic,
             vars, supervisorVars, handleVars, controlVars
    <2> QED BY <2>1, HandleStill
  <1> QED BY <1>1, <1>2, <1>3, <1>4, <1>5, <1>6, <1>7
          DEF Next, ServiceStep, SupervisorStep, Elsewhere

-----------------------------------------------------------------------------
(* The parts of the service.                                               *)

\* A step of the supervisor or of the driver keeps what runs.
LEMMA SupervisorParts ==
  ASSUME PartsInv, SupervisorStep \/ Traffic \/ DriverLost PROVE PartsInv'
  <1>1. UNCHANGED <<pc, updater, update, rpc, snapshot, file>>
    BY DEF SupervisorStep, SupervisorTop, Connect, ConnectFails, EventFails, Publish,
           SupervisorPanics, ReceiveEnds, Release, Announce, WaitEnds, Traffic, DriverLost,
           serviceVars, threadVars, controlVars, clientVars
  <1>2. UNCHANGED sup \/ sup \notin {"none", "ended", "panicked"}
    BY DEF SupervisorStep, SupervisorTop, Connect, ConnectFails, EventFails, Publish,
           SupervisorPanics, ReceiveEnds, Release, Announce, WaitEnds, Traffic, DriverLost
  <1> QED BY <1>1, <1>2 DEF PartsInv

\* The start, the loop and the stop each begin and end what they say.
LEMMA ServiceParts == ASSUME PartsInv, ServiceStep PROVE PartsInv'
  <1> USE DEF supervisorVars, controlVars, clientVars, foundVars, Places, Startup, Loop,
              Teardown, Ended, Early
  <1>1. CASE LoadSettings
    BY <1>1 DEF LoadSettings, write_health, PartsInv
  <1>2. CASE StartScheduler \/ LoadEngine \/ ReportRunning \/ RpcFails
    BY <1>2 DEF StartScheduler, LoadEngine, ReportRunning, RpcFails, PartsInv
  <1>3. CASE EngineFails
    BY <1>3 DEF EngineFails, Fails, write_health, StoppedSnapshot, PartsInv
  <1>4. CASE StartWorkers
    BY <1>4 DEF StartWorkers, PartsInv
  <1>5. CASE StartRpc
    BY <1>5 DEF StartRpc, write_health, Lifecycle, PartsInv
  <1>6. CASE Drain
    <2> DEFINE Same(t) == DOMAIN t = {"lifecycle", "connection", "definitions"}
                            /\ t.lifecycle = snapshot.lifecycle
    <2>1. Same(snapshot)
      BY DEF PartsInv
    <2>2. \A t, x : Same(t) => Same([t EXCEPT !.connection = x]) /\ Same([t EXCEPT !.definitions = x])
      OBVIOUS
    <2> HIDE DEF Same
    <2>3. Same(apply_realtime_events(snapshot)) /\ Same([snapshot EXCEPT !.connection = "Disconnected"])
      BY <2>1, <2>2 DEF apply_realtime_events
    <2>4. \A t : Same(t) => Same(apply_update_event(t, update))
      BY <2>2 DEF apply_update_event, PartsInv
    <2>5. \A t : \A work \in Upkeep : Same(t) => Same(upkept(t, work))
      BY <2>2 DEF upkept, Upkeep
    <2>6. Same(snapshot')
      BY <1>6, <2>3, <2>4, <2>5 DEF Drain
    <2>7. DOMAIN snapshot' = {"lifecycle", "connection", "definitions"}
          /\ snapshot'.lifecycle = snapshot.lifecycle
      BY <2>6 DEF Same
    <2> QED BY <1>6, <2>7 DEF Drain, PartsInv
  <1>7. CASE Query \/ SelfTestPasses \/ SelfTestFails
    BY <1>7 DEF Query, SelfTestPasses, SelfTestFails, PartsInv
  <1>8. CASE Judge
    BY <1>8 DEF Judge, write_health, PartsInv
  <1>9. CASE LoopEnds
    BY <1>9 DEF LoopEnds, write_health, Lifecycle, PartsInv
  <1>10. CASE StopRpc \/ StopUpdater \/ StopProtection
    BY <1>10 DEF StopRpc, StopUpdater, StopProtection, PartsInv
  <1>11. CASE Join
    BY <1>11 DEF Join, Fails, write_health, StoppedSnapshot, PartsInv
  <1> QED BY <1>1, <1>2, <1>3, <1>4, <1>5, <1>6, <1>7, <1>8, <1>9, <1>10, <1>11
          DEF ServiceStep

\* Every step keeps what runs at which place.
LEMMA PartsStep == ASSUME PartsInv, [Next]_vars PROVE PartsInv'
  <1>1. CASE StopControl \/ CheckBegins \/ CheckEnds \/ DownloadLands \/ Done \/ UNCHANGED vars
    BY <1>1 DEF StopControl, CheckBegins, CheckEnds, DownloadLands, Done, vars, serviceVars,
                threadVars, supervisorVars, controlVars, clientVars, PartsInv, Early
  <1> QED BY <1>1, SupervisorParts, ServiceParts DEF Next

-----------------------------------------------------------------------------
(* Arming the driver.                                                      *)

\* Only Judge arms the driver, and only after the self-test.
LEMMA ArmedStep ==
  ASSUME HandleInv, PartsInv, ArmedOnlyWhenProven, [Next]_vars PROVE ArmedOnlyWhenProven'
  <1> USE DEF handleVars, supervisorVars, controlVars, foundVars, Startup
  <1>1. CASE Judge
    <2>1. UNCHANGED <<tier, selfTest, freshclam, driver>> /\ pc' \notin Startup
      BY <1>1 DEF Judge
    <2>2. armed' => armed \/ (preflight_healthy /\ PortAnswers)
      BY <1>1 DEF Judge
    <2>3. preflight_healthy => selfTest /\ freshclam
      BY DEF preflight_healthy, mandatory_failures
    <2>4. PortAnswers => driver # 0 /\ requires_driver
      BY DEF PortAnswers, HandleInv
    <2> QED BY <2>1, <2>2, <2>3, <2>4 DEF ArmedOnlyWhenProven, requires_driver
  <1>2. CASE SupervisorStep \/ Traffic \/ DriverLost
    <2>1. UNCHANGED <<tier, selfTest, freshclam, pc>>
      BY <1>2 DEF SupervisorStep, SupervisorTop, Connect, ConnectFails, EventFails, Publish,
                  SupervisorPanics, ReceiveEnds, Release, Announce, WaitEnds, Traffic, DriverLost,
                  serviceVars, threadVars
    <2>2. armed' => armed /\ driver' = driver
      BY <1>2 DEF SupervisorStep, SupervisorTop, Connect, ConnectFails, EventFails, Publish,
                  SupervisorPanics, ReceiveEnds, Release, Announce, WaitEnds, Traffic, DriverLost,
                  CloseHandle
    <2> QED BY <2>1, <2>2 DEF ArmedOnlyWhenProven, requires_driver
  <1>3. CASE StopProtection
    BY <1>3 DEF StopProtection, CloseHandle, ArmedOnlyWhenProven, requires_driver
  <1>4. CASE StartWorkers
    BY <1>4 DEF StartWorkers, ArmedOnlyWhenProven
  <1>5. CASE Elsewhere \/ UNCHANGED vars
    <2>1. CASE Judge
      BY <1>1, <2>1
    <2>2. CASE Drain
      <3>1. UNCHANGED <<tier, armed, driver, selfTest>> /\ pc \notin Startup /\ pc' = "query"
        BY <2>2 DEF Drain
      <3>2. freshclam => freshclam'
        BY <2>2 DEF Drain
      <3> QED BY <3>1, <3>2 DEF ArmedOnlyWhenProven, requires_driver
    <2>3. CASE ~Judge /\ ~Drain
      <3>1. UNCHANGED <<tier, armed, driver>> /\ (selfTest => selfTest') /\ (freshclam => freshclam')
        BY <1>5, <2>3
           DEF Elsewhere, LoadSettings, StartScheduler, EngineFails, LoadEngine, RpcFails, StartRpc,
               ReportRunning, Query, SelfTestPasses, SelfTestFails, LoopEnds, StopRpc,
               StopUpdater, Join, StopControl, CheckBegins, CheckEnds, DownloadLands, Done,
               vars, serviceVars
      <3>2. pc \notin Startup => pc' \notin Startup
        BY <1>5, <2>3
           DEF Elsewhere, LoadSettings, StartScheduler, EngineFails, LoadEngine, RpcFails, StartRpc,
               ReportRunning, Query, SelfTestPasses, SelfTestFails, LoopEnds, StopRpc,
               StopUpdater, Join, StopControl, CheckBegins, CheckEnds, DownloadLands, Done, Fails,
               vars, serviceVars, threadVars
      <3> QED BY <3>1, <3>2 DEF ArmedOnlyWhenProven, requires_driver
    <2> QED BY <2>1, <2>2, <2>3
  <1> QED BY <1>2, <1>3, <1>4, <1>5 DEF Next, ServiceStep, Elsewhere

-----------------------------------------------------------------------------
\* Nothing runs when the process starts.
LEMMA LifeInit == Init => LifeInv
  <1> SUFFICES ASSUME Init PROVE LifeInv
    OBVIOUS
  <1>1. HandleInv
    BY LifecycleAssumption DEF Init, HandleInv, Live, Connected, SupervisorPlaces
  <1>2. PartsInv
    BY DEF Init, PartsInv, Places, Startup, Early, Ended
  <1> QED BY <1>1, <1>2 DEF Init, LifeInv, ArmedOnlyWhenProven

\* Every reachable state satisfies the invariant.
LEMMA LifeInvariant == Spec => []LifeInv
  <1>1. LifeInv /\ [Next]_vars => LifeInv'
    BY HandleStep, PartsStep, ArmedStep DEF LifeInv
  <1> QED BY LifeInit, <1>1, PTL DEF Spec

\* The driver fails closed only for a service whose self-test has passed with
\* a ClamAV database in place: readiness's preflight guards set_ready_generation.
THEOREM ArmedMeansProven == Spec => []ArmedOnlyWhenProven
  <1>1. LifeInv => ArmedOnlyWhenProven
    BY DEF LifeInv
  <1> QED BY LifeInvariant, <1>1, PTL

\* stop's swap and the supervisor's compare_exchange close each handle once
\* between them, and what reports Stopped has left nothing running or open.
THEOREM StoppedIsQuiet == Spec => []QuietWhenStopped
  <1>1. ASSUME LifeInv PROVE QuietWhenStopped
    <2>1. \A h \in 1..MaxConnections : closed[h] <= 1
      BY <1>1 DEF LifeInv, HandleInv
    <2>2. ASSUME file.lifecycle = "Stopped"
          PROVE  /\ sup \in {"none", "ended", "panicked"} /\ ~rpc
                 /\ updater \in {"none", "stopped"}
      BY <1>1, <2>2 DEF LifeInv, PartsInv
    <2>3. ASSUME sup \in {"none", "ended"}
          PROVE  port = 0 /\ driver = 0 /\ \A h \in 1..opened : closed[h] = 1
      <3>1. port = 0 /\ ~Live
        BY <1>1, <2>3 DEF LifeInv, HandleInv, Live
      <3>2. \A h \in 1..opened : h \in 1..MaxConnections /\ h <= opened
        BY <1>1, LifecycleAssumption DEF LifeInv, HandleInv
      <3> QED BY <1>1, <3>1, <3>2 DEF LifeInv, HandleInv
    <2> QED BY <2>1, <2>2, <2>3 DEF QuietWhenStopped
  <1> QED BY LifeInvariant, <1>1, PTL
=============================================================================
