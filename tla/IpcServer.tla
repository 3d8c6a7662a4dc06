------------------------------ MODULE IpcServer ------------------------------
(***************************************************************************)
(* The local control channel and what is changed through it                *)
(* (src/ipc.rs, src/config.rs, src/history.rs, src/notification_agent.rs): *)
(* pipe instances that serve one client after another, the clients and     *)
(* their deadlines, the machine settings with the service's own reload     *)
(* (src/service.rs), the activity history, and the notification agent that *)
(* polls it in a user's session.                                           *)
(*                                                                         *)
(* Both pipes run the same loop; the clients here are the management       *)
(* pipe's.  "Read" stands for the commands that change nothing here: those *)
(* that only read, and those whose effects are in ScanManager, Quarantine  *)
(* and DefinitionUpdates.                                                  *)
(***************************************************************************)
EXTENDS Naturals, Sequences, FiniteSetsExt

CONSTANTS Listeners,    \* the instances of a pipe
          Recorders,    \* threads that record alerts
          Admin,        \* the elevated helper
          User,         \* the desktop UI of a standard user
          Mute,         \* a desktop UI that connects and sends nothing
          Agent,        \* the notification agent
          MaxLog,       \* entries at which the history rotates
          EventsPerPoll,\* MAX_ACTIVITY_RESULTS
          Muted,        \* writes of the settings with notify_on_detection off
          MaxEvents     \* bound on calls, alerts, edits and faults together

ASSUME IpcAssumption ==
  /\ MaxEvents \in Nat
  /\ MaxLog \in Nat \ {0} /\ EventsPerPoll \in Nat \ {0}
  /\ Listeners # {} /\ Muted \subseteq Nat

Clients == {Admin, User, Mute, Agent}
None == "none"

VARIABLES
  pc,        \* each listener's place
  peer,      \* the client on each instance, None for a poke
  asked,     \* the command each listener has read
  call,      \* each client's call: "idle", "waiting", "open", "sent", "closed"
  command,   \* what each client asks for
  stopping,  \* RpcServer::stop
  file,      \* the settings file: the number of the write that made it
  active,    \* the settings in use
  saving,    \* the settings SaveSettings read back
  reload,    \* the service thread: its place, the stamp it saw, what it loaded
  log,       \* the history file: the timestamps of its entries
  torn,      \* it ends in part of an entry, without a line end
  event,     \* the alert each recorder is about to append, 0 for none
  clock,     \* timestamps given so far
  alerts,    \* those that are alerts
  quiet,     \* the last denial in the history is less than a minute old
  agent,     \* its place, what it fetched, last_seen, and the cursor file
  shown,     \* alerts handed to the desktop as a toast
  lost,      \* observer: alerts that no poll will show, by the ways AlertsShown names
  mixed,     \* observer: the file was edited during a save, or was not read
  spent      \* calls, alerts, edits and faults so far

listenerVars == <<pc, peer, asked>>
clientVars == <<call, command>>
settingsVars == <<file, active, saving, reload, mixed>>
historyVars == <<log, torn, event, clock, alerts, quiet>>
agentVars == <<agent, shown, lost>>
vars == <<listenerVars, clientVars, stopping, settingsVars, historyVars, agentVars, spent>>

Init ==
  /\ pc = [l \in Listeners |-> "head"]
  /\ peer = [l \in Listeners |-> None] /\ asked = [l \in Listeners |-> None]
  /\ call = [c \in Clients |-> "idle"] /\ command = [c \in Clients |-> None]
  /\ stopping = FALSE
  /\ file = 0 /\ active = 0 /\ saving = 0 /\ mixed = FALSE
  /\ reload = [pc |-> "idle", seen |-> 0, loaded |-> 0]
  /\ log = << >> /\ torn = FALSE /\ event = [w \in Recorders |-> 0] /\ clock = 0 /\ alerts = {} /\ quiet = FALSE
  /\ agent = [pc |-> "poll", fetched |-> {}, enabled |-> TRUE, last |-> 0, cursor |-> 0]
  /\ shown = {} /\ lost = {} /\ spent = 0

\* Something happens that need not: a call, an alert, an edit by hand, or a fault.
Spend == spent < MaxEvents /\ spent' = spent + 1

-----------------------------------------------------------------------------
(* Who may do what.                                                        *)

\* authorize_client and classify_installed_component
Component(c) ==
  CASE c = Admin -> "ElevatedHelper"
    [] c \in {User, Mute} -> "DesktopUi"
    [] c = Agent -> "NotificationAgent"

component_allows_command(component, cmd) ==
  \/ component = "ElevatedHelper"
  \/ component = "DesktopUi" /\ cmd \in {"Read", "RecentActivity", "GetSettings"}
  \/ component = "NotificationAgent" /\ cmd \in {"RecentActivity", "GetSettings"}

requires_elevated_admin(cmd) == cmd \in {"SaveSettings", "ClearActivity"}

Allowed(c, cmd) ==
  /\ component_allows_command(Component(c), cmd)
  /\ requires_elevated_admin(cmd) => c = Admin

\* What the clients of this model ask for.
Commands(c) ==
  CASE c = Admin -> {"SaveSettings", "ClearActivity"}
    [] c = User -> {"ClearActivity"}
    [] c = Mute -> {None}

-----------------------------------------------------------------------------
(* The clients: call_endpoint, connect_client.                             *)

BeginCall(c) ==
  /\ c # Agent /\ call[c] = "idle" /\ ~stopping /\ Spend
  /\ \E cmd \in Commands(c) : command' = [command EXCEPT ![c] = cmd]
  /\ call' = [call EXCEPT ![c] = "waiting"]
  /\ UNCHANGED <<listenerVars, stopping, settingsVars, historyVars, agentVars>>

\* An instance in ConnectNamedPipe takes the client.
Connect(c, l) ==
  /\ call[c] = "waiting" /\ pc[l] = "wait"
  /\ call' = [call EXCEPT ![c] = "open"]
  /\ pc' = [pc EXCEPT ![l] = "connected"] /\ peer' = [peer EXCEPT ![l] = c]
  /\ UNCHANGED <<asked, command, stopping, settingsVars, historyVars, agentVars, spent>>

Send(c) ==
  /\ call[c] = "open" /\ c # Mute
  /\ call' = [call EXCEPT ![c] = "sent"]
  /\ UNCHANGED <<listenerVars, command, stopping, settingsVars, historyVars, agentVars,
                 spent>>

\* A call is over without its answer; the agent starts its poll again.
Hangs(c) ==
  /\ call' = [call EXCEPT ![c] = "idle"] /\ command' = [command EXCEPT ![c] = None]
  /\ agent' = IF c = Agent THEN [agent EXCEPT !.pc = "poll", !.fetched = {}, !.enabled = TRUE] ELSE agent

\* Every instance was kept busy by others until the deadline, or has ended.
GiveUp(c) ==
  /\ call[c] = "waiting" /\ \A l \in Listeners : pc[l] \notin {"head", "wait"}
  /\ Hangs(c)
  /\ UNCHANGED <<listenerVars, stopping, settingsVars, historyVars, shown, lost, spent>>

\* The answer takes longer than IO_TIMEOUT; the service goes on all the same.
TimesOut(c) ==
  /\ call[c] = "sent" /\ Spend
  /\ Hangs(c)
  /\ peer' = [l \in Listeners |-> IF peer[l] = c THEN None ELSE peer[l]]
  /\ UNCHANGED <<pc, asked, stopping, settingsVars, historyVars, shown, lost>>

\* The server has disconnected.
PeerGone(c) ==
  /\ call[c] = "closed"
  /\ Hangs(c)
  /\ UNCHANGED <<listenerVars, stopping, settingsVars, historyVars, shown, lost, spent>>

-----------------------------------------------------------------------------
(* The history.                                                            *)

\* EventHistory::append: a full file is moved aside before the entry is
\* written, and nobody reads it there.  A write that fails leaves nothing, or
\* part of the entry, and the next entry joins that part in a line nobody can
\* read.  No caller looks at the result.
append(t) ==
  LET rotates == Len(log) >= MaxLog
      aside == IF rotates THEN {log[i] : i \in DOMAIN log} ELSE {}
      kept == IF rotates THEN << >> ELSE log
      LostWith(more) == lost' = lost \cup (alerts \cap ((aside \ shown) \cup more))
  IN  \/ /\ torn => rotates
         /\ log' = Append(kept, t) /\ torn' = FALSE /\ LostWith({}) /\ UNCHANGED spent
      \/ /\ torn /\ ~rotates
         /\ log' = log /\ torn' = FALSE /\ LostWith({t}) /\ UNCHANGED spent
      \/ /\ Spend
         /\ log' = kept /\ torn' \in {torn /\ ~rotates, TRUE} /\ LostWith({t})

\* EventHistory::clear, and the entry that says who did it.  A file that cannot
\* be removed stays, and the command fails.
clear(t) ==
  \/ /\ log' \in {<<t>>, << >>} /\ torn' = FALSE
     /\ IF log' = <<t>> THEN UNCHANGED spent ELSE Spend
     /\ lost' = lost \cup ((alerts \ shown) \cap {log[i] : i \in DOMAIN log})
  \/ Spend /\ UNCHANGED <<log, torn, lost>>

\* EventHistory::recent: the newest entries, no more than were asked for.
recent(n) == {log[i] : i \in {j \in DOMAIN log : j + n > Len(log)}}

\* A malicious script or file: its event is stamped, by an AMSI request
\* (validate_and_scan_amsi), a scan or a real-time worker...
Stamp(w) ==
  /\ event[w] = 0 /\ Spend
  /\ clock' = clock + 1 /\ alerts' = alerts \cup {clock + 1}
  /\ event' = [event EXCEPT ![w] = clock + 1]
  /\ UNCHANGED <<listenerVars, clientVars, stopping, settingsVars, log, torn, quiet, agentVars>>

\* ... and appended once the writer lock is free, or dropped if that fails.
AppendAlert(w) ==
  /\ event[w] # 0
  /\ append(event[w]) /\ event' = [event EXCEPT ![w] = 0]
  /\ UNCHANGED <<listenerVars, clientVars, stopping, settingsVars, clock, alerts, quiet, agent,
                 shown>>

-----------------------------------------------------------------------------
(* server_loop.                                                            *)

Goto(l, place) == pc' = [pc EXCEPT ![l] = place]

\* The end of a request: DisconnectNamedPipe, whatever the client is at.
Drop(l, place) ==
  /\ Goto(l, place)
  /\ peer' = [peer EXCEPT ![l] = None] /\ asked' = [asked EXCEPT ![l] = None]
  /\ call' = IF peer[l] # None THEN [call EXCEPT ![peer[l]] = "closed"] ELSE call

LoopHead(l) ==
  /\ pc[l] = "head"
  /\ Goto(l, IF stopping THEN "ended" ELSE "wait")
  /\ UNCHANGED <<peer, asked, clientVars, stopping, settingsVars, historyVars, agentVars, spent>>

\* A connection that finds the stop on its way is dropped unserved.
Connected(l) ==
  /\ pc[l] = "connected"
  /\ IF stopping THEN Drop(l, "ended")
     ELSE Goto(l, "read") /\ UNCHANGED <<peer, asked, call>>
  /\ UNCHANGED <<command, stopping, settingsVars, historyVars, agentVars, spent>>

\* read_frame
ReadFrame(l) ==
  /\ pc[l] = "read" /\ peer[l] # None /\ call[peer[l]] = "sent"
  /\ asked' = [asked EXCEPT ![l] =
       IF Allowed(peer[l], command[peer[l]]) THEN command[peer[l]] ELSE "Denied"]
  /\ Goto(l, "dispatch")
  /\ UNCHANGED <<peer, clientVars, stopping, settingsVars, historyVars, agentVars, spent>>

\* Mutant of ReadFails: a client that says nothing is waited for.
ReadFails_patient(l) ==
  /\ pc[l] = "read" /\ peer[l] = None
  /\ Drop(l, "head")
  /\ UNCHANGED <<command, stopping, settingsVars, historyVars, agentVars, spent>>

\* The request did not come in time, or its client has gone.
ReadFails(l) ==
  /\ pc[l] = "read" /\ peer[l] \in {None, Mute}
  /\ Drop(l, "head")
  /\ UNCHANGED <<command, stopping, settingsVars, historyVars, agentVars, spent>>

\* append_rpc_access_denied keeps one entry a minute.
Deny(l) ==
  /\ pc[l] = "dispatch" /\ asked[l] = "Denied"
  /\ Goto(l, "reply")
  /\ quiet' = TRUE
  /\ IF quiet THEN UNCHANGED <<log, torn, lost, clock, spent>>
     ELSE clock' = clock + 1 /\ append(clock + 1)
  /\ UNCHANGED <<peer, asked, clientVars, stopping, settingsVars, event, alerts, agent, shown>>

\* dispatch of what reads, or acts in another module.
Serve(l) ==
  /\ pc[l] = "dispatch" /\ asked[l] \in {"Read", "RecentActivity", "GetSettings"}
  /\ Goto(l, "reply")
  /\ agent' = CASE peer[l] # Agent -> agent
                [] asked[l] = "RecentActivity" -> [agent EXCEPT !.fetched = recent(EventsPerPoll)]
                [] OTHER -> [agent EXCEPT !.enabled = active \notin Muted]
  /\ UNCHANGED <<peer, asked, clientVars, stopping, settingsVars, historyVars, shown, lost, spent>>

ClearActivity(l) ==
  /\ pc[l] = "dispatch" /\ asked[l] = "ClearActivity"
  /\ Goto(l, "reply")
  /\ clock' = clock + 1 /\ clear(clock + 1)
  /\ UNCHANGED <<peer, asked, clientVars, stopping, settingsVars, event, alerts, quiet, agent,
                 shown>>

\* SaveSettings: the file, then what the file reads back as, then the settings
\* in use.
Save(l) ==
  /\ pc[l] = "dispatch" /\ asked[l] = "SaveSettings"
  /\ Goto(l, "readback")
  /\ file' = file + 1
  /\ UNCHANGED <<peer, asked, clientVars, stopping, active, saving, reload, mixed,
                 historyVars, agentVars, spent>>

ReadBack(l) ==
  /\ pc[l] = "readback"
  /\ \/ Goto(l, "install") /\ saving' = file /\ UNCHANGED spent
     \/ Goto(l, "reply") /\ Spend /\ UNCHANGED saving
  /\ UNCHANGED <<peer, asked, clientVars, stopping, file, active, reload, mixed,
                 historyVars, agentVars>>

Install(l) ==
  /\ pc[l] = "install"
  /\ Goto(l, "reply") /\ active' = saving /\ saving' = 0
  /\ UNCHANGED <<peer, asked, clientVars, stopping, file, reload, mixed, historyVars,
                 agentVars, spent>>

\* The response is written, and a client that still waits closes with it; one
\* that does not close is disconnected after the instance's I/O timeout.
Reply(l) ==
  /\ pc[l] = "reply"
  /\ Goto(l, "head")
  /\ peer' = [peer EXCEPT ![l] = None] /\ asked' = [asked EXCEPT ![l] = None]
  /\ IF peer[l] = None THEN UNCHANGED <<call, command, agent>>
     ELSE /\ call' = [call EXCEPT ![peer[l]] = "idle"]
          /\ command' = [command EXCEPT ![peer[l]] = None]
          /\ agent' = IF peer[l] # Agent THEN agent
                      ELSE [agent EXCEPT !.pc = IF @ = "events" THEN "settings" ELSE "toast"]
  /\ UNCHANGED <<stopping, settingsVars, historyVars, shown, lost, spent>>

\* RpcServer::stop
Stop ==
  /\ ~stopping /\ stopping' = TRUE
  /\ UNCHANGED <<listenerVars, clientVars, settingsVars, historyVars, agentVars, spent>>

\* Mutant of Poke: the listeners are woken before the flag is set.
Poke_early(l) ==
  /\ ~stopping /\ pc[l] = "wait"
  /\ Goto(l, "connected")
  /\ UNCHANGED <<peer, asked, clientVars, stopping, settingsVars, historyVars, agentVars, spent>>

\* stop_workers connects to what listens.  Its five seconds are five hundred
\* rounds: only a listener that is busy all that time is not waited for.
Poke(l) ==
  /\ stopping /\ pc[l] = "wait"
  /\ Goto(l, "connected")
  /\ UNCHANGED <<peer, asked, clientVars, stopping, settingsVars, historyVars, agentVars, spent>>

MinutePasses ==
  /\ quiet /\ quiet' = FALSE
  /\ UNCHANGED <<listenerVars, clientVars, stopping, settingsVars, log, torn, event, clock,
                 alerts, agentVars, spent>>

-----------------------------------------------------------------------------
(* The service thread's reload_settings_if_changed.                        *)

ReadStamp ==
  /\ reload.pc = "idle" /\ reload.seen # file
  /\ reload' = [reload EXCEPT !.pc = "load", !.seen = file]
  /\ UNCHANGED <<listenerVars, clientVars, stopping, file, active, saving, mixed,
                 historyVars, agentVars, spent>>

\* A file that cannot be read leaves the settings as they are, and is not read
\* again before it changes.
LoadSettings ==
  /\ reload.pc = "load"
  /\ \/ reload' = [reload EXCEPT !.pc = "install", !.loaded = file] /\ UNCHANGED <<mixed, spent>>
     \/ Spend /\ reload' = [reload EXCEPT !.pc = "idle"] /\ mixed' = TRUE
  /\ UNCHANGED <<listenerVars, clientVars, stopping, file, active, saving, historyVars,
                 agentVars>>

\* Mutant of InstallSettings: the stamp is taken when the settings are.
InstallSettings_stamped ==
  /\ reload.pc = "install"
  /\ active' = reload.loaded /\ reload' = [pc |-> "idle", seen |-> file, loaded |-> 0]
  /\ UNCHANGED <<listenerVars, clientVars, stopping, file, saving, mixed, historyVars,
                 agentVars, spent>>

InstallSettings ==
  /\ reload.pc = "install"
  /\ active' = reload.loaded /\ reload' = [reload EXCEPT !.pc = "idle", !.loaded = 0]
  /\ UNCHANGED <<listenerVars, clientVars, stopping, file, saving, mixed, historyVars,
                 agentVars, spent>>

\* An administrator edits the file itself.
EditFile ==
  /\ Spend
  /\ file' = file + 1
  /\ mixed' = (mixed \/ \E l \in Listeners : pc[l] \in {"readback", "install"})
  /\ UNCHANGED <<listenerVars, clientVars, stopping, active, saving, reload, historyVars,
                 agentVars>>

-----------------------------------------------------------------------------
(* notification_agent::run.                                                *)

\* fetch_from_service: the events, then whether toasts are on, in two calls.
AgentCalls ==
  /\ agent.pc \in {"poll", "settings"} /\ call[Agent] = "idle" /\ ~stopping
  /\ agent' = [agent EXCEPT !.pc = IF @ = "poll" THEN "events" ELSE "settings"]
  /\ command' = [command EXCEPT ![Agent] =
       IF agent.pc = "poll" THEN "RecentActivity" ELSE "GetSettings"]
  /\ call' = [call EXCEPT ![Agent] = "waiting"]
  /\ UNCHANGED <<listenerVars, stopping, settingsVars, historyVars, shown, lost, spent>>

\* Mutant of Toast: the cursor moves to the present, not to the newest event.
Toast_present ==
  /\ agent.pc = "toast"
  /\ LET seen == {t \in agent.fetched : t > agent.last}
     IN  /\ shown' = IF agent.enabled THEN shown \cup (seen \cap alerts) ELSE shown
         /\ lost' = IF agent.enabled THEN lost ELSE lost \cup (seen \cap alerts)
         /\ agent' = [agent EXCEPT !.pc = "save", !.last = clock, !.fetched = {}, !.enabled = TRUE]
  /\ UNCHANGED <<listenerVars, clientVars, stopping, settingsVars, historyVars, spent>>

\* Events newer than last_seen raise their toasts, unless those are off, and are
\* behind the cursor either way; alerts of one file within thirty seconds are one
\* alert here.  What was stamped before the newest event of the batch and was
\* not in it is behind the cursor from now on, too.
Toast ==
  /\ agent.pc = "toast"
  /\ LET seen == {t \in agent.fetched : t > agent.last}
         last == IF seen = {} THEN agent.last ELSE Max(seen)
         toasts == IF agent.enabled THEN seen \cap alerts ELSE {}
     IN  /\ shown' = shown \cup toasts
         /\ lost' = lost \cup ({t \in alerts : t <= last} \ (shown \cup toasts))
         /\ agent' = [agent EXCEPT !.pc = "save", !.last = last, !.fetched = {}, !.enabled = TRUE]
  /\ UNCHANGED <<listenerVars, clientVars, stopping, settingsVars, historyVars, spent>>

\* A save that fails is ignored.
SaveCursor ==
  /\ agent.pc = "save"
  /\ \/ agent' = [agent EXCEPT !.pc = "poll", !.cursor = agent.last] /\ UNCHANGED spent
     \/ agent' = [agent EXCEPT !.pc = "poll"] /\ Spend
  /\ UNCHANGED <<listenerVars, clientVars, stopping, settingsVars, historyVars, shown, lost>>

\* The agent starts from a moment, which it saves.
StartFrom(t) == agent' = [pc |-> "poll", fetched |-> {}, enabled |-> TRUE, last |-> t, cursor |-> t]

\* The user signs out and in again: the agent starts from the cursor file, or
\* from the present if that cannot be read, and ends if it cannot be written.
AgentRestarts ==
  /\ Spend /\ call[Agent] = "idle"
  /\ \/ StartFrom(agent.cursor) /\ UNCHANGED lost
     \/ StartFrom(clock) /\ lost' = lost \cup (alerts \ shown)
     \/ agent' = [agent EXCEPT !.pc = "ended", !.fetched = {}, !.enabled = TRUE] /\ UNCHANGED lost
  /\ UNCHANGED <<listenerVars, clientVars, stopping, settingsVars, historyVars, shown>>

-----------------------------------------------------------------------------
ClientStep(c) ==
  \/ \E l \in Listeners : Connect(c, l)
  \/ Send(c) \/ GiveUp(c) \/ PeerGone(c)

ListenerStep(l) ==
  \/ LoopHead(l) \/ Connected(l) \/ ReadFrame(l) \/ ReadFails(l)
  \/ Deny(l) \/ Serve(l) \/ ClearActivity(l) \/ Save(l) \/ ReadBack(l) \/ Install(l)
  \/ Reply(l) \/ Poke(l)

ReloadStep == ReadStamp \/ LoadSettings \/ InstallSettings
AgentStep == AgentCalls \/ Toast \/ SaveCursor

\* After a stop the process ends.
Done == stopping /\ UNCHANGED vars

Next ==
  \/ \E c \in Clients : BeginCall(c) \/ ClientStep(c) \/ TimesOut(c)
  \/ \E l \in Listeners : ListenerStep(l)
  \/ \E w \in Recorders : Stamp(w) \/ AppendAlert(w)
  \/ Stop \/ MinutePasses \/ ReloadStep \/ EditFile \/ AgentStep \/ AgentRestarts \/ Done

Spec == Init /\ [][Next]_vars

(***************************************************************************)
(* Every thread and every client runs; nobody has to call, edit or stop.   *)
(* A client asks for an instance twenty times a second, the agent once in  *)
(* two seconds: a client that waits is not passed over for ever.           *)
(***************************************************************************)
FairSpec ==
  /\ Spec
  /\ WF_vars(ClientStep(Agent)) /\ SF_vars(\E c \in Clients \ {Agent} : ClientStep(c))
  /\ \A l \in Listeners : WF_vars(ListenerStep(l))
  /\ \A w \in Recorders : WF_vars(AppendAlert(w))
  /\ WF_vars(ReloadStep) /\ WF_vars(AgentStep)

-----------------------------------------------------------------------------
(* Properties.                                                             *)

\* No client keeps the pipe from the others: whatever one of them does or does
\* not send, and whenever the service stops, every call ends.
CallsEnd ==
  /\ []<>(\A c \in Clients \ {Agent} : call[c] = "idle")
  /\ []<>(call[Agent] = "idle")

\* RpcServer::stop ends every listener: the one parked in ConnectNamedPipe, the
\* one that had looked at the flag just before, and the one in a request.
ListenersEnd == stopping ~> \A l \in Listeners : pc[l] = "ended"

\* SaveSettings and the service's reload may install each other's older copy,
\* but the settings in use end up as the file: the stamp is read before it.
\* Only an edit during a save, or a file that could not be read, is missed.
SettingsConverge == <>[](active = file) \/ <>mixed

\* Every alert is shown in the end, however polls fail and the agent restarts,
\* while there is an agent: one whose cursor file cannot be written at its start
\* ends.  The alerts not shown are those whose append to the history failed or
\* joined one that had; that were rotated or cleared away, or overtaken by a
\* later event that was appended, and fetched, before them; that were fetched
\* while notifications were off; and all so far when the cursor cannot be read.
AlertsShown == []<>(alerts \subseteq shown \cup lost \/ stopping \/ agent.pc = "ended")
=============================================================================
