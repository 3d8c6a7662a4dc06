----------------------------- MODULE ScanManager -----------------------------
(***************************************************************************)
(* On-demand scans (src/scan_manager.rs) as the control server starts,     *)
(* reports and cancels them (dispatch in src/ipc.rs) and a client follows  *)
(* them (ServiceScanJob in src/ipc.rs).                                    *)
(*                                                                         *)
(* A scan is one thread that walks the roots and offers files to a bounded *)
(* queue, a pool of workers that take turns at the receiving end, and one  *)
(* thread that joins them all and says how the scan ended.  They share one *)
(* progress record behind a lock; every step below is one holding of it.   *)
(* A scan starts only when the one before has finished and was joined, so  *)
(* one copy of the job's state is enough.                                  *)
(***************************************************************************)
EXTENDS Naturals, Sequences, FiniteSets

CONSTANTS Files,          \* files under the roots
          Skipped,        \* excluded, too large, or archives when those are off
          Unreadable,     \* files whose metadata cannot be read
          Verdict,        \* what engine.scan_path says of each file
          Workers,        \* the scan's worker threads
          QueueCapacity,  \* worker_count * 8
          MaxFindings,    \* MAX_VISIBLE_FINDINGS
          Users, Admins,  \* callers, and the elevated administrators of them
          MaxScans,       \* bound on scans started
          MaxMisses,      \* failed polls in a row a client puts up with: 3
          Nobody

Verdicts == {"Clean", "Suspicious", "Malicious", "Error"}

ASSUME ScanAssumption ==
  /\ IsFiniteSet(Files)
  /\ Skipped \subseteq Files /\ Unreadable \subseteq Files \ Skipped
  /\ Verdict \in [Files -> Verdicts]
  /\ QueueCapacity \in Nat \ {0} /\ MaxFindings \in Nat \ {0}
  /\ Workers # {} /\ Admins \subseteq Users /\ Nobody \notin Users \cup Files \cup Workers
  /\ MaxScans \in Nat /\ MaxMisses \in Nat \ {0}

VARIABLES
  id, owner,    \* the scan in the slot (0 for none) and who started it
  progress,     \* the shared ScanProgress
  cancelled,    \* the job's cancellation flag
  main,         \* the joining thread's place
  sawCancel,    \* was_cancelled
  walk, todo, pending,   \* the enumerator's place, what is ahead, what it offers
  queue, holder,         \* the channel, and who holds the receiving end
  wk, file,     \* each worker's place and file
  cancelling,   \* the server is between cancel's flag and its phase
  taken,        \* observer: files taken from the queue
  late,         \* observer: files each worker took after the cancellation
  view,         \* the phase the client shows
  poller, misses    \* its polling thread and its consecutive failures

jobVars == <<id, owner>>
walkVars == <<walk, todo, pending>>
poolVars == <<holder, wk, file, taken, late>>
viewVars == <<view, poller, misses>>
vars == <<jobVars, progress, cancelled, main, sawCancel, walkVars, queue, poolVars,
          cancelling, viewVars>>

Finished == {"Completed", "Cancelled", "Failed"}
is_finished(phase) == phase \in Finished

NewProgress == [phase |-> "Enumerating", discovered |-> 0, scanned |-> 0,
                tally |-> [v \in Verdicts |-> 0], quarantined |-> 0, findings |-> <<>>]

Init ==
  /\ id = 0 /\ owner = Nobody /\ progress = NewProgress /\ cancelled = FALSE
  /\ main = "idle" /\ sawCancel = FALSE
  /\ walk = "off" /\ todo = {} /\ pending = Nobody
  /\ queue = <<>> /\ holder = Nobody
  /\ wk = [w \in Workers |-> "off"] /\ file = [w \in Workers |-> Nobody]
  /\ cancelling = FALSE /\ taken = {} /\ late = [w \in Workers |-> 0]
  /\ view = "none" /\ poller = "off" /\ misses = 0

-----------------------------------------------------------------------------
(* The control server: one management instance, so one request at a time.  *)

Answering == ~cancelling
require_scan_owner(u) == u = owner \/ u \in Admins

\* StartScan finds no scan that is not finished, and has joined the last one.
Idle == id = 0 \/ (is_finished(progress.phase) /\ main = "done")

\* StartScan: the scan takes the slot and the client begins to poll.
StartScan(u) ==
  /\ Answering /\ Idle /\ id < MaxScans /\ poller # "polling"
  /\ id' = id + 1 /\ owner' = u
  /\ progress' = NewProgress /\ cancelled' = FALSE
  /\ main' = "roots" /\ sawCancel' = FALSE
  /\ walk' = "off" /\ todo' = {} /\ pending' = Nobody
  /\ queue' = <<>> /\ holder' = Nobody
  /\ wk' = [w \in Workers |-> "off"] /\ file' = [w \in Workers |-> Nobody]
  /\ taken' = {} /\ late' = [w \in Workers |-> 0]
  /\ view' = "Enumerating" /\ poller' = "polling" /\ misses' = 0
  /\ UNCHANGED cancelling

\* CancelScan, and ScanJob::cancel up to its flag.
CancelScan(u) ==
  /\ Answering /\ id # 0 /\ require_scan_owner(u)
  /\ cancelled' = TRUE /\ cancelling' = TRUE
  /\ UNCHANGED <<jobVars, progress, main, sawCancel, walkVars, queue, poolVars, viewVars>>

\* Mutant of CancelPhase: the phase is written whatever it is.
CancelPhase_always ==
  /\ cancelling /\ cancelling' = FALSE
  /\ progress' = [progress EXCEPT !.phase = "Cancelling"]
  /\ view' = IF poller = "polling" THEN "Cancelling" ELSE view
  /\ UNCHANGED <<jobVars, cancelled, main, sawCancel, walkVars, queue, poolVars, poller,
                 misses>>

\* The phase, unless the scan has finished; then the client's own view of it.
CancelPhase ==
  /\ cancelling /\ cancelling' = FALSE
  /\ progress' = [progress EXCEPT !.phase = IF is_finished(@) THEN @ ELSE "Cancelling"]
  /\ view' = IF is_finished(view) THEN view ELSE "Cancelling"
  /\ UNCHANGED <<jobVars, cancelled, main, sawCancel, walkVars, queue, poolVars, poller,
                 misses>>

-----------------------------------------------------------------------------
(* run_scan: the thread that starts and joins the others.                  *)

\* scan_roots found nothing it can open.
RootsFail ==
  /\ main = "roots"
  /\ progress' = [progress EXCEPT !.phase = "Failed"]
  /\ main' = "done"
  /\ UNCHANGED <<jobVars, cancelled, sawCancel, walkVars, queue, poolVars, cancelling, viewVars>>

StartThreads ==
  /\ main = "roots"
  /\ main' = "join" /\ walk' = "walk" /\ todo' = Files
  /\ wk' = [w \in Workers |-> "check"]
  /\ UNCHANGED <<jobVars, progress, cancelled, sawCancel, pending, queue, holder, file, taken,
                 late, cancelling, viewVars>>

\* The enumerator's end of the channel is gone: it has returned or panicked.
WalkOver == walk \in {"done", "panicked"}

\* Mutant of Joined: the workers are left to finish by themselves.
Joined_early ==
  /\ main = "join" /\ WalkOver
  /\ sawCancel' = cancelled /\ main' = "finish"
  /\ UNCHANGED <<jobVars, progress, cancelled, walkVars, queue, poolVars, cancelling, viewVars>>

\* Everybody is joined; was_cancelled is read before the lock is taken.
Joined ==
  /\ main = "join" /\ WalkOver /\ \A w \in Workers : wk[w] = "done"
  /\ sawCancel' = cancelled /\ main' = "finish"
  /\ UNCHANGED <<jobVars, progress, cancelled, walkVars, queue, poolVars, cancelling, viewVars>>

Finish ==
  /\ main = "finish"
  /\ progress' = [progress EXCEPT !.phase = IF walk = "panicked" THEN "Failed"
                                            ELSE IF sawCancel THEN "Cancelled" ELSE "Completed"]
  /\ main' = "done"
  /\ UNCHANGED <<jobVars, cancelled, sawCancel, walkVars, queue, poolVars, cancelling, viewVars>>

-----------------------------------------------------------------------------
(* enumerate_files and enqueue_file.                                       *)

\* The next entry: skipped, counted as an error, or offered to the queue.
Visit(f) ==
  /\ walk = "walk" /\ ~cancelled /\ f \in todo
  /\ todo' = todo \ {f}
  /\ \/ f \in Skipped /\ UNCHANGED <<walk, pending, progress>>
     \/ f \in Unreadable /\ progress' = [progress EXCEPT !.tally["Error"] = @ + 1]
          /\ UNCHANGED <<walk, pending>>
     \/ f \notin Skipped \cup Unreadable /\ pending' = f /\ walk' = "offer"
          /\ UNCHANGED progress
  /\ UNCHANGED <<jobVars, cancelled, main, sawCancel, queue, poolVars, cancelling, viewVars>>

\* try_send until there is room.
Offer ==
  /\ walk = "offer" /\ ~cancelled
  /\ Len(queue) < QueueCapacity
  /\ queue' = Append(queue, pending) /\ pending' = Nobody
  /\ walk' = "count"
  /\ UNCHANGED <<jobVars, progress, cancelled, main, sawCancel, todo, poolVars, cancelling,
                 viewVars>>

\* discovered_files grows after the file was handed over.
CountDiscovered ==
  /\ walk = "count"
  /\ progress' = [progress EXCEPT !.discovered = @ + 1]
  /\ walk' = "walk"
  /\ UNCHANGED <<jobVars, cancelled, main, sawCancel, todo, pending, queue, poolVars, cancelling,
                 viewVars>>

\* The walk is over or cut short; its end of the channel is dropped.
WalkEnds ==
  /\ \/ walk = "walk" /\ (todo = {} \/ cancelled)
     \/ walk = "offer" /\ cancelled
  /\ walk' = "done" /\ pending' = Nobody
  /\ UNCHANGED <<jobVars, progress, cancelled, main, sawCancel, todo, queue, poolVars, cancelling,
                 viewVars>>

\* The enumerator panics; what it had queued is still scanned.
WalkPanics ==
  /\ walk \in {"walk", "offer", "count"}
  /\ walk' = "panicked" /\ pending' = Nobody
  /\ UNCHANGED <<jobVars, progress, cancelled, main, sawCancel, todo, queue, poolVars, cancelling,
                 viewVars>>

-----------------------------------------------------------------------------
(* scan_worker.                                                            *)

\* Mutant of Check: the flag is not looked at.
Check_blind(w) ==
  /\ wk[w] = "check"
  /\ wk' = [wk EXCEPT ![w] = "lock"]
  /\ UNCHANGED <<jobVars, progress, cancelled, main, sawCancel, walkVars, queue, holder, file,
                 taken, late, cancelling, viewVars>>

Check(w) ==
  /\ wk[w] = "check"
  /\ wk' = [wk EXCEPT ![w] = IF cancelled THEN "done" ELSE "lock"]
  /\ UNCHANGED <<jobVars, progress, cancelled, main, sawCancel, walkVars, queue, holder, file,
                 taken, late, cancelling, viewVars>>

Lock(w) ==
  /\ wk[w] = "lock" /\ holder = Nobody
  /\ holder' = w /\ wk' = [wk EXCEPT ![w] = "recv"]
  /\ UNCHANGED <<jobVars, progress, cancelled, main, sawCancel, walkVars, queue, file, taken, late,
                 cancelling, viewVars>>

\* Mutant of Receive: the worker leaves with the lock when the channel closes.
Receive_held(w) ==
  /\ wk[w] = "recv"
  /\ \/ /\ queue # <<>>
        /\ queue' = Tail(queue) /\ file' = [file EXCEPT ![w] = Head(queue)]
        /\ wk' = [wk EXCEPT ![w] = "begin"] /\ holder' = Nobody
        /\ taken' = taken \cup {Head(queue)}
        /\ late' = [late EXCEPT ![w] = IF cancelled THEN @ + 1 ELSE @]
     \/ /\ queue = <<>> /\ WalkOver
        /\ wk' = [wk EXCEPT ![w] = "done"]
        /\ UNCHANGED <<queue, holder, file, taken, late>>
  /\ UNCHANGED <<jobVars, progress, cancelled, main, sawCancel, walkVars, cancelling, viewVars>>

\* recv under the lock: what is queued first, then the closed channel.
Receive(w) ==
  /\ wk[w] = "recv" /\ holder' = Nobody
  /\ \/ /\ queue # <<>>
        /\ queue' = Tail(queue) /\ file' = [file EXCEPT ![w] = Head(queue)]
        /\ wk' = [wk EXCEPT ![w] = "begin"]
        /\ taken' = taken \cup {Head(queue)}
        /\ late' = [late EXCEPT ![w] = IF cancelled THEN @ + 1 ELSE @]
     \/ /\ queue = <<>> /\ WalkOver
        /\ wk' = [wk EXCEPT ![w] = "done"]
        /\ UNCHANGED <<queue, file, taken, late>>
  /\ UNCHANGED <<jobVars, progress, cancelled, main, sawCancel, walkVars, cancelling, viewVars>>

\* The phase becomes Scanning, over a Cancelling too.
Begin(w) ==
  /\ wk[w] = "begin"
  /\ progress' = [progress EXCEPT !.phase = "Scanning"]
  /\ wk' = [wk EXCEPT ![w] = IF Verdict[file[w]] = "Malicious" THEN "isolate" ELSE "tally"]
  /\ UNCHANGED <<jobVars, cancelled, main, sawCancel, walkVars, queue, holder, file, taken, late,
                 cancelling, viewVars>>

\* quarantine_verified: isolated, or only an action error.
Isolate(w) ==
  /\ wk[w] = "isolate"
  /\ \/ progress' = [progress EXCEPT !.quarantined = @ + 1]
     \/ UNCHANGED progress
  /\ wk' = [wk EXCEPT ![w] = "tally"]
  /\ UNCHANGED <<jobVars, cancelled, main, sawCancel, walkVars, queue, holder, file, taken, late,
                 cancelling, viewVars>>

\* The newest MAX_VISIBLE_FINDINGS findings are kept.
AddFinding(findings, f) ==
  LET kept == IF Len(findings) = MaxFindings THEN Tail(findings) ELSE findings
  IN  IF Verdict[f] = "Clean" THEN findings ELSE Append(kept, f)

Tally(w) ==
  /\ wk[w] = "tally"
  /\ progress' = [progress EXCEPT !.scanned = @ + 1, !.tally[Verdict[file[w]]] = @ + 1,
                                  !.findings = AddFinding(@, file[w])]
  /\ wk' = [wk EXCEPT ![w] = "check"] /\ file' = [file EXCEPT ![w] = Nobody]
  /\ UNCHANGED <<jobVars, cancelled, main, sawCancel, walkVars, queue, holder, taken, late,
                 cancelling, viewVars>>

-----------------------------------------------------------------------------
(* The client's polling thread (ServiceScanJob).                           *)

\* ScanStatus was answered: the client shows what it says and stops when done.
PollAnswered ==
  /\ poller = "polling" /\ Answering
  /\ view' = progress.phase /\ misses' = 0
  /\ poller' = IF is_finished(progress.phase) THEN "ended" ELSE "polling"
  /\ UNCHANGED <<jobVars, progress, cancelled, main, sawCancel, walkVars, queue, poolVars,
                 cancelling>>

\* Too many failures in a row: the client takes the scan for failed.
PollLost ==
  /\ poller = "polling"
  /\ misses' = misses + 1
  /\ IF misses + 1 >= MaxMisses THEN view' = "Failed" /\ poller' = "ended"
     ELSE UNCHANGED <<view, poller>>
  /\ UNCHANGED <<jobVars, progress, cancelled, main, sawCancel, walkVars, queue, poolVars,
                 cancelling>>

-----------------------------------------------------------------------------
WorkerStep(w) ==
  Check(w) \/ Lock(w) \/ Receive(w) \/ Begin(w) \/ Isolate(w) \/ Tally(w)
WalkStep == (\E f \in Files : Visit(f)) \/ Offer \/ CountDiscovered \/ WalkEnds
MainStep == RootsFail \/ StartThreads \/ Joined \/ Finish

\* Every scan that may be started has ended and nobody is watching any more.
Quiet ==
  /\ id = MaxScans /\ Idle /\ poller = "ended"
  /\ UNCHANGED vars

Next ==
  \/ \E u \in Users : StartScan(u) \/ CancelScan(u)
  \/ CancelPhase \/ MainStep \/ WalkStep \/ WalkPanics
  \/ \E w \in Workers : WorkerStep(w)
  \/ PollAnswered \/ PollLost
  \/ Quiet

Spec == Init /\ [][Next]_vars

\* Every thread of a scan runs, the server answers, the client keeps polling.
FairSpec ==
  /\ Spec
  /\ WF_vars(MainStep) /\ WF_vars(WalkStep) /\ WF_vars(CancelPhase)
  /\ \A w \in Workers : WF_vars(WorkerStep(w))
  /\ SF_vars(PollAnswered)

-----------------------------------------------------------------------------
(* Properties.                                                             *)

TypeOK ==
  /\ id \in 0..MaxScans /\ owner \in Users \cup {Nobody}
  /\ progress.phase \in {"Enumerating", "Scanning", "Cancelling"} \cup Finished
  /\ Len(progress.findings) <= MaxFindings
  /\ Len(queue) <= QueueCapacity /\ todo \subseteq Files
  /\ holder \in Workers \cup {Nobody}
  /\ wk \in [Workers -> {"off", "check", "lock", "recv", "begin", "isolate", "tally", "done"}]

\* A scan that says Completed has a verdict for every file it should look at:
\* none was lost between the walk, the queue and the workers, and the counters
\* agree with the files.
CompletedIsComplete ==
  progress.phase = "Completed" =>
    /\ taken = Files \ (Skipped \cup Unreadable)
    /\ progress.scanned = Cardinality(taken) /\ progress.discovered = progress.scanned
    /\ \A v \in Verdicts :
         progress.tally[v] = Cardinality({f \in taken : Verdict[f] = v})
                               + (IF v = "Error" THEN Cardinality(Unreadable) ELSE 0)

\* After a cancellation each worker takes at most one more file, however much
\* is queued and whoever holds the receiving end.
CancelBounded == \A w \in Workers : late[w] <= 1

\* How a scan ended, and what it counted, is never touched again: not by a
\* late worker, a late cancellation or the walk.
FinishedStays == [][is_finished(progress.phase) /\ id' = id => progress' = progress]_vars

\* Every scan finishes and the client that follows it learns that it did.
ScanEnds ==
  (id # 0 /\ ~is_finished(progress.phase)) ~> (is_finished(progress.phase) /\ is_finished(view))
=============================================================================
