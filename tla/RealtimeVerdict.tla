--------------------------- MODULE RealtimeVerdict ---------------------------
(***************************************************************************)
(* The path of one on-access verdict, composed from the minifilter         *)
(* (src/driver/blackshard_driver.c), the connection thread and its bounded *)
(* queue (src/connection_supervisor.rs), the scan workers                  *)
(* (src/realtime.rs), the verdict cache (its abstract list, LruCache) and  *)
(* the service loop that replaces definitions under the workers' feet      *)
(* (src/service.rs).                                                       *)
(*                                                                         *)
(* One file is watched.  `content` counts the writes that reached it and   *)
(* stands for its bytes; the change time moves on every write, and each    *)
(* time it is asked for it may turn out unreadable.  Writes leave length   *)
(* and modification time as they were: those two would only tell more.     *)
(* The driver's own ContentGeneration moves when a user-mode write is      *)
(* admitted, before the bytes land, and not at all for mapped and          *)
(* kernel-mode writes.                                                     *)
(***************************************************************************)
EXTENDS Naturals, Sequences, FiniteSets

CONSTANTS Requests,        \* file operations the driver will ask about, each once
          Workers,         \* real-time worker threads
          QueueCapacity,   \* worker_count * 16 in the code
          CacheCapacity,   \* entries of the verdict cache
          MaxWrites,       \* bound on writes to the file, tracked or not
          MaxEngine,       \* bound on detection-engine versions
          MaxIndex,        \* bound on native-index versions
          Disturbances,    \* environment events explored besides requests and definitions
          EngineDetects,   \* <<engine version, content>> pairs the rules convict
          IndexDetects     \* <<index version, content>> pairs the ClamAV index convicts

ASSUME RealtimeAssumption ==
  /\ IsFiniteSet(Requests)
  /\ QueueCapacity \in Nat \ {0} /\ CacheCapacity \in Nat \ {0}
  /\ MaxWrites \in Nat /\ MaxEngine \in Nat \ {0} /\ MaxIndex \in Nat \ {0}
  /\ EngineDetects \subseteq (1..MaxEngine) \X (0..MaxWrites)
  /\ IndexDetects \subseteq (1..MaxIndex) \X (0..MaxWrites)
  /\ Disturbances \subseteq {"failure", "timeout", "disconnect", "settings", "open failure",
                       "unreadable"}

VARIABLES
  phase,      \* gBlackshardData.OperationalPhase
  connected,  \* ClientPort # NULL
  ctxGen,     \* ContentGeneration of the file's stream context
  counters,   \* the driver's enforcement counters
  req,        \* each operation inside BlackshardEvaluateOpenedObject
  content,    \* writes that have landed
  inflight,   \* tracked writes admitted and not yet landed
  writes,     \* writes started so far
  inbox,      \* messages the connection thread has not received
  queue,      \* the sync_channel between connection thread and workers
  worker,     \* each worker's place in realtime_worker
  enabled,    \* settings.real_time_protection for this path
  engine,     \* version behind the SharedDetectionEngine lock
  index,      \* version of the process-wide native ClamAV index
  generation, \* definition_generation
  swapping,   \* the service loop replaced definitions, fetch_add still to come
  cache       \* verdict cache, least recently used first

driverVars == <<phase, connected, counters>>
fileVars == <<ctxGen, content, inflight, writes>>
serviceVars == <<enabled, engine, index, generation, swapping>>
vars == <<phase, connected, ctxGen, counters, req, content, inflight, writes, inbox, queue,
          worker, enabled, engine, index, generation, swapping, cache>>

Phases == {"EarlyBoot", "Starting", "Ready", "Recovering"}
\* BLACKSHARD_FAILURE_REASON.  "Unresolved" stands for the reasons the policy
\* does not tell apart: process, name or file not resolved, wrong IRQL, internal
\* error, a reply of the wrong size or protocol.
Failures == {"ServiceUnavailable", "Timeout", "Unresolved", "PathTooLong", "ContentRace"}

Report(v, e, i, c) == [verdict |-> v, engine |-> e, index |-> i, content |-> c]
NoReport == Report("None", 0, 0, 0)
ReportSet == [verdict : {"None", "Clean", "Malicious", "Error"}, engine : 0..MaxEngine,
              index : 0..MaxIndex, content : 0..MaxWrites]
\* opened_change_time: None, or a time of its own for each content.
Unreadable == 0
ChangeTime(c) == c + 1
ChangeTimes(c) == {ChangeTime(c)} \cup {t \in {Unreadable} : "unreadable" \in Disturbances}
\* opened identity, length and change time, with the notified generation
KeySet == [gen : 1..(MaxWrites + 1), change : {Unreadable} \cup 1..(MaxWrites + 1)]
NoKey == [gen |-> 1, change |-> Unreadable]

Lru == INSTANCE LruCache WITH
  list <- cache, answer <- {}, Keys <- KeySet, Reports <- ReportSet,
  Cacheable <- {r \in ReportSet : r.verdict \in {"Clean", "Malicious"}},
  Capacity <- CacheCapacity, MaxGeneration <- MaxEngine + MaxIndex

IdleWorker == [pc |-> "recv", item |-> <<>>, engine |-> 0, gen |-> 0,
               key |-> NoKey, before |-> Unreadable, start |-> 0, seen |-> 0, hit |-> FALSE, report |-> NoReport]

Init ==
  /\ phase = "EarlyBoot" /\ connected = FALSE
  /\ counters = [bypasses |-> 0, required |-> 0]
  /\ req = [r \in Requests |-> [pc |-> "idle", enforce |-> FALSE, gen |-> 1, reply |-> "None",
                                result |-> "None", how |-> "None", raced |-> FALSE]]
  /\ ctxGen = 1 /\ content = 0 /\ inflight = 0 /\ writes = 0
  /\ inbox = {} /\ queue = <<>>
  /\ worker = [w \in Workers |-> IdleWorker]
  /\ enabled = TRUE /\ engine = 1 /\ index = 1 /\ generation = 1 /\ swapping = "no"
  /\ cache = <<>>

-----------------------------------------------------------------------------
(* The minifilter.                                                         *)

\* BlackshardApplyFailurePolicy: only an image load, only once the service has
\* armed the filter, and only for these two reasons is a failure a denial.
FailureBlocks(reason, enforce) ==
  enforce /\ phase = "Ready" /\ reason \in {"ContentRace", "PathTooLong"}

ApplyFailurePolicy(r, reason, enforce) ==
  /\ counters' = [counters EXCEPT
       !.required = IF FailureBlocks(reason, enforce) THEN @ + 1 ELSE @,
       !.bypasses = IF enforce /\ ~FailureBlocks(reason, enforce) THEN @ + 1 ELSE @]
  /\ req' = [req EXCEPT ![r].pc = "done", ![r].enforce = enforce, ![r].how = reason,
       ![r].result = IF FailureBlocks(reason, enforce) THEN "Block" ELSE "Allow"]

\* The generation is read before the message goes out; what the service says is
\* about the file as it was then.
Evaluate(r, enforce) ==
  /\ req[r].pc = "idle"
  /\ connected
  /\ req' = [req EXCEPT ![r].pc = "sent", ![r].enforce = enforce, ![r].gen = ctxGen]
  /\ inbox' = inbox \cup {r}
  /\ UNCHANGED <<driverVars, fileVars, queue, worker, serviceVars, cache>>

\* Anything that stops the evaluation before the message: no client port, an
\* unresolved process, name or file, a path that does not fit the message.
EvaluateFails(r, enforce, reason) ==
  /\ "failure" \in Disturbances
  /\ req[r].pc = "idle"
  /\ reason = "ServiceUnavailable" => ~connected
  /\ ApplyFailurePolicy(r, reason, enforce)
  /\ UNCHANGED <<phase, connected, fileVars, inbox, queue, worker, serviceVars, cache>>

\* FltSendMessage gives up after 1.5 s; the service does not learn of it until
\* it replies.
SendTimesOut(r) ==
  /\ "timeout" \in Disturbances
  /\ req[r].pc = "sent"
  /\ ApplyFailurePolicy(r, "Timeout", req[r].enforce)
  /\ inbox' = inbox \ {r}
  /\ UNCHANGED <<phase, connected, fileVars, queue, worker, serviceVars, cache>>

\* FltSendMessage fails because the port it waited on was closed.
SendAborted(r) ==
  /\ req[r].pc = "aborted"
  /\ ApplyFailurePolicy(r, "ServiceUnavailable", req[r].enforce)
  /\ UNCHANGED <<phase, connected, fileVars, inbox, queue, worker, serviceVars, cache>>

\* Mutant: the generation is not read again after the reply.
DecideWithoutRecheck(r) ==
  /\ req[r].pc = "replied"
  /\ req' = [req EXCEPT ![r].pc = "done", ![r].how = "Verdict", ![r].result = req[r].reply]
  /\ UNCHANGED <<driverVars, fileVars, inbox, queue, worker, serviceVars, cache>>

\* After the reply: an image load is judged only if the stream's generation is
\* still the one that was sent.
Decide(r) ==
  /\ req[r].pc = "replied"
  /\ IF req[r].enforce /\ ctxGen # req[r].gen
     THEN ApplyFailurePolicy(r, "ContentRace", TRUE)
     ELSE /\ req' = [req EXCEPT ![r].pc = "done", ![r].how = "Verdict", ![r].result = req[r].reply]
          /\ UNCHANGED counters
  /\ UNCHANGED <<phase, connected, fileVars, inbox, queue, worker, serviceVars, cache>>

\* Mutant: the denial that came too late is not counted.
DecideTooLateUncounted(r) ==
  /\ req[r].pc = "replied" /\ ~req[r].enforce /\ req[r].reply = "Block"
  /\ req' = [req EXCEPT ![r].pc = "done", ![r].how = "HandleCreated", ![r].result = "Allow"]
  /\ UNCHANGED <<driverVars, fileVars, inbox, queue, worker, serviceVars, cache>>

\* BlackshardPostCreate: a handle that already exists cannot be revoked, so a
\* denied open goes through and is counted.
DecideTooLate(r) ==
  /\ req[r].pc = "replied" /\ ~req[r].enforce /\ req[r].reply = "Block"
  /\ counters' = [counters EXCEPT !.bypasses = @ + 1]
  /\ req' = [req EXCEPT ![r].pc = "done", ![r].how = "HandleCreated", ![r].result = "Allow"]
  /\ UNCHANGED <<phase, connected, fileVars, inbox, queue, worker, serviceVars, cache>>

\* One service at a time; a new one starts unarmed.  The connection thread
\* reconnects only after it joined the workers of the previous connection.
PortConnect ==
  /\ ~connected
  /\ queue = <<>> /\ \A w \in Workers : worker[w].pc = "recv"
  /\ connected' = TRUE /\ phase' = "Starting"
  /\ UNCHANGED <<counters, req, fileVars, inbox, queue, worker, serviceVars, cache>>

PortDisconnect ==
  /\ "disconnect" \in Disturbances
  /\ connected
  /\ connected' = FALSE /\ phase' = "Recovering"
  /\ inbox' = {}
  /\ req' = [r \in Requests |-> IF req[r].pc = "sent" THEN [req[r] EXCEPT !.pc = "aborted"]
                                                      ELSE req[r]]
  /\ UNCHANGED <<counters, fileVars, queue, worker, serviceVars, cache>>

\* CONTROL_SET_READY_GENERATION from a service that found itself healthy.
SetReadyGeneration ==
  /\ connected /\ phase = "Starting"
  /\ phase' = "Ready"
  /\ UNCHANGED <<connected, counters, req, fileVars, inbox, queue, worker, serviceVars, cache>>

-----------------------------------------------------------------------------
(* The file.                                                               *)

Evaluating(r) == req[r].pc \in {"sent", "replied", "aborted"}

\* BlackshardPreWrite admits a user-mode write: the generation moves now.
PreWrite ==
  /\ writes < MaxWrites
  /\ writes' = writes + 1
  /\ ctxGen' = ctxGen + 1
  /\ inflight' = inflight + 1
  /\ req' = [r \in Requests |-> IF Evaluating(r) THEN [req[r] EXCEPT !.raced = TRUE] ELSE req[r]]
  /\ UNCHANGED <<driverVars, content, inbox, queue, worker, serviceVars, cache>>

\* ... and the bytes, with a new change time, reach the file later.
WriteLands ==
  /\ inflight > 0
  /\ inflight' = inflight - 1
  /\ content' = content + 1
  /\ UNCHANGED <<driverVars, ctxGen, writes, req, inbox, queue, worker, serviceVars, cache>>

\* A mapped or kernel-mode write, which the filter does not see.
UntrackedWrite ==
  /\ writes < MaxWrites
  /\ writes' = writes + 1
  /\ content' = content + 1
  /\ UNCHANGED <<driverVars, ctxGen, inflight, req, inbox, queue, worker, serviceVars, cache>>

\* The last handle is closed and the filter manager frees the stream context;
\* the next open gets a new one that counts from 1.
ContextRebuilt ==
  /\ inflight = 0 /\ \A r \in Requests : ~Evaluating(r)
  /\ ctxGen > 1
  /\ ctxGen' = 1
  /\ UNCHANGED <<driverVars, content, inflight, writes, req, inbox, queue, worker, serviceVars, cache>>

-----------------------------------------------------------------------------
(* The connection thread and the workers.                                  *)

Accepts(r) == req[r].pc = "sent"
\* FilterReplyMessage: a reply to a request that timed out or whose port is gone
\* is refused.
Reply(r, v) ==
  req' = IF Accepts(r) THEN [req EXCEPT ![r].pc = "replied", ![r].reply = v] ELSE req

\* A full queue is answered on the spot, an image load with a denial.  (The
\* driver of the same build sends no notification of another protocol version.)
Receive(r) ==
  /\ r \in inbox
  /\ inbox' = inbox \ {r}
  /\ IF Len(queue) < QueueCapacity
     THEN queue' = Append(queue, r) /\ UNCHANGED req
     ELSE Reply(r, IF req[r].enforce THEN "Block" ELSE "Allow") /\ UNCHANGED queue
  /\ UNCHANGED <<driverVars, fileVars, worker, serviceVars, cache>>

Move(w, pc) == worker' = [worker EXCEPT ![w].pc = pc]

Take(w) ==
  /\ worker[w].pc = "recv" /\ queue # <<>>
  /\ worker' = [worker EXCEPT ![w].pc = "screen", ![w].item = <<Head(queue)>>]
  /\ queue' = Tail(queue)
  /\ UNCHANGED <<driverVars, fileVars, req, inbox, serviceVars, cache>>

\* Mutant: a screened-out item is dropped without a reply.
ScreenedOutSilently(w) ==
  /\ worker[w].pc = "screen" /\ ~enabled
  /\ worker' = [worker EXCEPT ![w] = IdleWorker]
  /\ UNCHANGED <<driverVars, fileVars, req, inbox, queue, serviceVars, cache>>

\* Real-time protection is off, the path is excluded, or the service is stopping.
ScreenedOut(w) ==
  /\ worker[w].pc = "screen" /\ ~enabled
  /\ Reply(worker[w].item[1], "Allow")
  /\ worker' = [worker EXCEPT ![w] = IdleWorker]
  /\ UNCHANGED <<driverVars, fileVars, inbox, queue, serviceVars, cache>>

\* The worker clones the Arc of the engine that is active now.
CloneEngine(w) ==
  /\ worker[w].pc = "screen" /\ enabled
  /\ worker' = [worker EXCEPT ![w].pc = "open", ![w].engine = engine]
  /\ UNCHANGED <<driverVars, fileVars, req, inbox, queue, serviceVars, cache>>

\* The path no longer opens, or opens a different file: an error report.
OpenFails(w) ==
  /\ "open failure" \in Disturbances
  /\ worker[w].pc = "open"
  /\ worker' = [worker EXCEPT ![w].pc = "reply", ![w].report = Report("Error", 0, 0, 0)]
  /\ UNCHANGED <<driverVars, fileVars, req, inbox, queue, serviceVars, cache>>

\* Mutant: the key without the change time, as it was before that field.
KeyWithoutChangeTime(w, time) == [gen |-> req[worker[w].item[1]].gen, change |-> 1]

\* VerdictCacheKey, whose change time is 0 when it could not be read.
KeyWith(w, time) == [gen |-> req[worker[w].item[1]].gen, change |-> time]

\* The key is read from the opened file ...
ReadKey(w) ==
  /\ worker[w].pc = "open"
  /\ \E time \in ChangeTimes(content) :
       worker' = [worker EXCEPT ![w].pc = "lookup", ![w].key = KeyWith(w, time),
                                ![w].seen = content]
  /\ UNCHANGED <<driverVars, fileVars, req, inbox, queue, serviceVars, cache>>

\* ... then definition_generation is loaded and the cache is consulted; a miss
\* goes on to scan, remembering both.
Lookup(w) ==
  /\ worker[w].pc = "lookup"
  /\ LET hit == Lru!AnswerOf(cache, worker[w].key, generation) IN
     /\ cache' = Lru!AfterGet(cache, worker[w].key, generation)
     /\ worker' = [worker EXCEPT
          ![w].pc = IF hit = {} THEN "scan" ELSE "reply",
          ![w].gen = generation, ![w].hit = hit # {},
          ![w].report = IF hit = {} THEN NoReport ELSE (CHOOSE e \in hit : TRUE).report]
  /\ UNCHANGED <<driverVars, fileVars, req, inbox, queue, serviceVars>>

\* analyze_open_file notes the change time, reads, and compares it afterwards.
BeginScan(w) ==
  /\ worker[w].pc = "scan"
  /\ \E time \in ChangeTimes(content) :
       worker' = [worker EXCEPT ![w].pc = "reading", ![w].before = time, ![w].start = content]
  /\ UNCHANGED <<driverVars, fileVars, req, inbox, queue, serviceVars, cache>>

Convicts(e, i, c) == <<e, c>> \in EngineDetects \/ <<i, c>> \in IndexDetects
Read(e, c) == Report(IF Convicts(e, index, c) THEN "Malicious" ELSE "Clean", e, index, c)
ErrorReport == Report("Error", 0, 0, 0)

\* Two change times that could not be read are equal: then the bytes may be those
\* of any content the file has had since.  Otherwise a change is an error report,
\* and so is a read that fails.
ScanResults(w) ==
  LET s == worker[w]
      Same == s.before \in ChangeTimes(content)
      MayFail == \/ ChangeTimes(content) # {s.before} \/ content # s.start
                 \/ "open failure" \in Disturbances
  IN  {Read(s.engine, c) : c \in {d \in s.start..content : Same}}
        \cup {r \in {ErrorReport} : MayFail}

\* The scan ends and its result is offered to the cache under the key and the
\* generation read before it began.
FinishScan(w) ==
  /\ worker[w].pc = "reading"
  /\ \E report \in ScanResults(w) :
       /\ worker' = [worker EXCEPT ![w].pc = "reply", ![w].report = report]
       /\ cache' = Lru!AfterInsert(cache, [key |-> worker[w].key, report |-> report,
                                           gen |-> worker[w].gen, aged |-> FALSE])
  /\ UNCHANGED <<driverVars, fileVars, req, inbox, queue, serviceVars>>

\* Only a conviction denies; an error or a clean result allows.  What follows a
\* conviction is Quarantine's; to later requests it is a file that fails to open.
SendVerdict(w) ==
  /\ worker[w].pc = "reply"
  /\ Reply(worker[w].item[1], IF worker[w].report.verdict = "Malicious" THEN "Block" ELSE "Allow")
  /\ worker' = [worker EXCEPT ![w] = IdleWorker]
  /\ UNCHANGED <<driverVars, fileVars, inbox, queue, serviceVars, cache>>

-----------------------------------------------------------------------------
(* The service loop.                                                       *)

\* replace_detection_engine, after an installed bundle or an expired one.
ReplaceEngine ==
  /\ swapping = "no" /\ engine < MaxEngine
  /\ engine' = engine + 1 /\ swapping' = "engine"
  /\ UNCHANGED <<driverVars, req, fileVars, inbox, queue, worker, enabled, index, generation, cache>>

\* replace_native_index, in place under every engine; a learned shard takes the
\* same two steps.
ReplaceIndex ==
  /\ swapping = "no" /\ index < MaxIndex
  /\ index' = index + 1 /\ swapping' = "index"
  /\ UNCHANGED <<driverVars, req, fileVars, inbox, queue, worker, enabled, engine, generation, cache>>

\* Mutant: definitions change under an unchanged generation.
PublishNothing ==
  /\ swapping # "no"
  /\ swapping' = "no"
  /\ UNCHANGED <<driverVars, req, fileVars, inbox, queue, worker, enabled, engine, index,
                 generation, cache>>

\* definition_generation.fetch_add, once the new definitions are in place.
PublishGeneration ==
  /\ swapping # "no"
  /\ generation' = generation + 1 /\ swapping' = "no"
  /\ UNCHANGED <<driverVars, req, fileVars, inbox, queue, worker, enabled, engine, index, cache>>

\* The user turns real-time protection off or on, or changes the exclusions.
ChangeSettings ==
  /\ "settings" \in Disturbances
  /\ enabled' = ~enabled
  /\ UNCHANGED <<driverVars, req, fileVars, inbox, queue, worker, engine, index, generation,
                 swapping, cache>>

-----------------------------------------------------------------------------
Driver ==
  \/ \E r \in Requests, b \in BOOLEAN : Evaluate(r, b)
  \/ \E r \in Requests, b \in BOOLEAN, f \in {"ServiceUnavailable", "Unresolved", "PathTooLong"} :
       EvaluateFails(r, b, f)
  \/ \E r \in Requests : SendTimesOut(r) \/ SendAborted(r) \/ Decide(r) \/ DecideTooLate(r)
  \/ PortConnect \/ PortDisconnect \/ SetReadyGeneration

File == PreWrite \/ WriteLands \/ UntrackedWrite \/ ContextRebuilt

WorkerStep(w) ==
  \/ Take(w) \/ ScreenedOut(w) \/ CloneEngine(w) \/ OpenFails(w) \/ ReadKey(w) \/ Lookup(w)
  \/ BeginScan(w) \/ FinishScan(w) \/ SendVerdict(w)

Service == ReplaceEngine \/ ReplaceIndex \/ PublishGeneration \/ ChangeSettings

Next ==
  \/ Driver \/ File \/ Service
  \/ \E r \in Requests : Receive(r)
  \/ \E w \in Workers : WorkerStep(w)

Spec == Init /\ [][Next]_vars

\* Threads that can run do run: the connection thread, every worker, and the
\* thread inside the driver once its answer is there.  The driver's timeout is
\* not assumed to fire.
Fairness ==
  /\ \A r \in Requests : WF_vars(Receive(r)) /\ WF_vars(SendAborted(r)) /\ WF_vars(Decide(r))
  /\ \A w \in Workers : WF_vars(WorkerStep(w))

FairSpec == Spec /\ Fairness

-----------------------------------------------------------------------------
\* The shape of the composed state.
TypeOK ==
  /\ phase \in Phases /\ connected \in BOOLEAN
  /\ phase = "EarlyBoot" => ~connected
  /\ counters \in [bypasses : Nat, required : Nat]
  /\ \A r \in Requests :
       /\ req[r].pc \in {"idle", "sent", "replied", "aborted", "done"}
       /\ req[r].gen \in 1..(MaxWrites + 1)
       /\ req[r].how \in Failures \cup {"None", "Verdict", "HandleCreated"}
  /\ content + inflight <= writes /\ ctxGen \in 1..(MaxWrites + 1)
  /\ Len(queue) <= QueueCapacity
  /\ inbox \subseteq {r \in Requests : req[r].pc = "sent"}
  /\ \A w \in Workers : worker[w].pc \in {"recv", "screen", "open", "lookup", "scan", "reading", "reply"}

\* An image load whose file took a tracked write while the verdict was being
\* worked out is never decided by that verdict (the ContentGeneration re-check
\* of BlackshardEvaluateOpenedObject).
RaceNotJudgedByOldVerdict ==
  \A r \in Requests :
    req[r].pc = "done" /\ req[r].enforce /\ req[r].raced => req[r].how # "Verdict"

\* Every image load let through without a verdict, and every denied open that
\* could not be revoked, is in EnforcementBypasses; every denial without a
\* verdict is in RequiredEnforcementBlocks.  The health page shows these two.
BypassesCounted ==
  LET Let(h) == {r \in Requests : req[r].pc = "done" /\ req[r].result = h} IN
  /\ counters.bypasses =
       Cardinality({r \in Let("Allow") : \/ req[r].enforce /\ req[r].how # "Verdict"
                                         \/ req[r].how = "HandleCreated"})
  /\ counters.required = Cardinality({r \in Let("Block") : req[r].how # "Verdict"})

\* A verdict served from the cache under a key whose change time could be read was
\* reached on the content the opened file had when its key was read or on a later
\* one, never on an earlier one, whatever writes the filter saw or missed, however
\* often the stream context started over, and whether or not the scan behind it
\* could read the change time (the change_time of VerdictCacheKey).
CacheHitNotOutdated ==
  \A w \in Workers :
    worker[w].pc = "reply" /\ worker[w].hit /\ worker[w].key.change # Unreadable
    => worker[w].report.content >= worker[w].seen

\* The generation a verdict is cached under was published after the index that
\* produced it, so an entry the cache would still serve reflects the index in
\* force (replace_native_index, then fetch_add).
CachedUnderCurrentIndex ==
  \A i \in DOMAIN cache :
    cache[i].gen = generation /\ swapping # "index" => cache[i].report.index = index

\* The comment in CachedVerdict::is_cacheable: a clean result stays valid until
\* the databases change.  So a clean verdict the cache would still serve was
\* reached with the engine in force.
CachedUnderCurrentEngine ==
  \A i \in DOMAIN cache :
    cache[i].gen = generation /\ swapping # "engine" /\ cache[i].report.verdict = "Clean"
    => cache[i].report.engine = engine

\* Whoever waits in FltSendMessage is answered without help from the timeout:
\* each message is scanned, screened out, answered by the full queue or given
\* back when the port closes.
EveryRequestDecided ==
  \A r \in Requests : req[r].pc = "sent" ~> req[r].pc = "done"
=============================================================================
