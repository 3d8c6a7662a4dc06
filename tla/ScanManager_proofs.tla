-------------------------- MODULE ScanManager_proofs --------------------------
(***************************************************************************)
(* On-demand scans, for every set of files, verdicts and workers and every *)
(* queue: a Completed scan has looked at every file once and counted it    *)
(* once, a finished one is never touched again, and a cancellation costs   *)
(* each worker at most one more file.                                      *)
(***************************************************************************)
EXTENDS ScanManager, FiniteSetTheorems, TLAPS

Phases == {"Enumerating", "Scanning", "Cancelling"} \cup Finished
Busy == {"begin", "isolate", "tally"}
WorkerPlaces == {"off", "check", "lock", "recv", "done"} \cup Busy
Walking == {"walk", "offer", "count"}

\* The files a scan has to look at.
Scannable == Files \ (Skipped \cup Unreadable)

Elems(s) == {s[i] : i \in DOMAIN s}
NoRepeat(s) == \A i, j \in DOMAIN s : s[i] = s[j] => i = j

\* The files whose verdict has been counted.
Scanned == {f \in taken : \A w \in Workers : file[w] # f}

Judged(v) == {f \in Scanned : Verdict[f] = v}

\* The files the walk has passed, and how many of them it could not read.
Visited == IF walk = "off" THEN {} ELSE Files \ todo
Unread == Cardinality(Unreadable \cap Visited)

ProgressRecords ==
  [phase : Phases, discovered : Nat, scanned : Nat, tally : [Verdicts -> Nat],
   quarantined : Nat, findings : Seq(Files)]

\* The types of what the threads share.
SharedInv ==
  /\ progress \in ProgressRecords
  /\ Len(progress.findings) <= MaxFindings
  /\ id \in 0..MaxScans /\ owner \in Users \cup {Nobody}
  /\ cancelled \in BOOLEAN /\ sawCancel \in BOOLEAN
  /\ main \in {"idle", "roots", "join", "finish", "done"}
  /\ walk \in {"off", "done", "panicked"} \cup Walking
  /\ todo \subseteq Files /\ pending \in Files \cup {Nobody}
  /\ queue \in Seq(Files) /\ Len(queue) <= QueueCapacity
  /\ holder \in Workers \cup {Nobody}
  /\ wk \in [Workers -> WorkerPlaces] /\ file \in [Workers -> Files \cup {Nobody}]
  /\ taken \subseteq Files /\ late \in [Workers -> Nat]

\* Who runs when: threads exist from StartThreads until they are joined, and
\* only the joining thread finishes a scan.
StageInv ==
  /\ main \in {"idle", "roots"} => walk = "off" /\ \A w \in Workers : wk[w] = "off"
  /\ main \in {"finish", "done"} =>
       walk \notin Walking /\ \A w \in Workers : wk[w] \in {"off", "done"}
  /\ main = "finish" => walk # "off"
  /\ is_finished(progress.phase) => main = "done"
  /\ walk = "off" => todo = {} /\ taken = {} /\ queue = << >>
       /\ \A w \in Workers : wk[w] = "off"

\* Every file is in one place: ahead of the walk, offered, queued or taken.
PlaceInv ==
  /\ taken \subseteq Scannable /\ Elems(queue) \subseteq Scannable
  /\ NoRepeat(queue) /\ Elems(queue) \cap taken = {}
  /\ todo \cap (taken \cup Elems(queue)) = {}
  /\ IF walk = "offer" THEN pending \in Scannable \ (todo \cup taken \cup Elems(queue))
                       ELSE pending = Nobody
  /\ \A w \in Workers : IF wk[w] \in Busy THEN file[w] \in taken ELSE file[w] = Nobody
  /\ \A w, v \in Workers : file[w] = file[v] /\ file[w] # Nobody => w = v

\* None is lost: while the walk goes on, and after it unless it was cut short.
Lossless ==
  /\ walk \in Walking => Scannable \subseteq todo \cup {pending} \cup Elems(queue) \cup taken
  /\ walk = "done" /\ ~cancelled => todo = {} /\ Scannable \subseteq Elems(queue) \cup taken
  /\ \A w \in Workers : wk[w] = "done" /\ ~cancelled => queue = << >> /\ WalkOver
  /\ main = "finish" /\ ~sawCancel /\ walk = "done" => todo = {} /\ taken = Scannable
  /\ progress.phase = "Completed" => walk = "done" /\ todo = {} /\ taken = Scannable

\* The counters agree with the files.
CountInv ==
  /\ progress.scanned = Cardinality(Scanned)
  /\ walk # "panicked" =>
       progress.discovered + (IF walk = "count" THEN 1 ELSE 0)
         = Cardinality(taken \cup Elems(queue))
  /\ \A v \in Verdicts :
       progress.tally[v] = Cardinality(Judged(v)) + (IF v = "Error" THEN Unread ELSE 0)

\* A file taken after the cancellation leads to the flag before another one.
LateInv ==
  \A w \in Workers :
    /\ late[w] <= 1 /\ (~cancelled => late[w] = 0)
    /\ late[w] = 1 => wk[w] \notin {"lock", "recv"}

ScanInv == SharedInv /\ StageInv /\ PlaceInv /\ Lossless /\ CountInv /\ LateInv

-----------------------------------------------------------------------------
(* Facts about the queue and about counting.                               *)

\* Appending a file to the queue adds it and nothing else.
LEMMA ElemsAppend ==
  ASSUME NEW s \in Seq(Files), NEW x \in Files
  PROVE  /\ Elems(Append(s, x)) = Elems(s) \cup {x}
         /\ NoRepeat(s) /\ x \notin Elems(s) => NoRepeat(Append(s, x))
  <1>1. /\ DOMAIN Append(s, x) = DOMAIN s \cup {Len(s) + 1}
        /\ Append(s, x)[Len(s) + 1] = x
        /\ \A i \in DOMAIN s : Append(s, x)[i] = s[i]
    OBVIOUS
  <1>2. Elems(Append(s, x)) = Elems(s) \cup {x}
    BY <1>1 DEF Elems
  <1>3. NoRepeat(s) /\ x \notin Elems(s) => NoRepeat(Append(s, x))
    BY <1>1 DEF Elems, NoRepeat
  <1> QED BY <1>2, <1>3

\* Receiving takes the head out of the queue, once when nothing is queued twice.
LEMMA ElemsTail ==
  ASSUME NEW s \in Seq(Files), s # << >>, NoRepeat(s)
  PROVE  /\ Head(s) \in Elems(s) /\ Head(s) \in Files
         /\ Elems(Tail(s)) = Elems(s) \ {Head(s)} /\ NoRepeat(Tail(s))
  <1>1. /\ Len(s) \in Nat \ {0} /\ DOMAIN s = 1..Len(s) /\ Head(s) = s[1]
        /\ DOMAIN Tail(s) = 1..(Len(s) - 1)
        /\ \A i \in DOMAIN Tail(s) : Tail(s)[i] = s[i + 1]
    OBVIOUS
  <1>2. Head(s) \in Elems(s) /\ Head(s) \in Files
    BY <1>1 DEF Elems
  <1>3. \A i \in DOMAIN Tail(s) : i + 1 \in DOMAIN s /\ i + 1 # 1
    BY <1>1
  <1>4. \A j \in DOMAIN s \ {1} : j - 1 \in DOMAIN Tail(s) /\ (j - 1) + 1 = j
    BY <1>1
  <1>5. Elems(Tail(s)) \subseteq Elems(s) \ {Head(s)}
    BY <1>1, <1>3 DEF Elems, NoRepeat
  <1>6. Elems(s) \ {Head(s)} \subseteq Elems(Tail(s))
    <2> SUFFICES ASSUME NEW j \in DOMAIN s, s[j] # Head(s) PROVE s[j] \in Elems(Tail(s))
      BY DEF Elems
    <2>1. j - 1 \in DOMAIN Tail(s) /\ Tail(s)[j - 1] = s[j]
      BY <1>1, <1>4
    <2> QED BY <2>1 DEF Elems
  <1>7. NoRepeat(Tail(s))
    BY <1>1, <1>3 DEF NoRepeat
  <1> QED BY <1>2, <1>5, <1>6, <1>7

\* One more file counts one more.
LEMMA OneMore ==
  ASSUME NEW S \in SUBSET Files, NEW x \in Files, x \notin S
  PROVE  Cardinality(S) \in Nat /\ Cardinality(S \cup {x}) = Cardinality(S) + 1
  BY FS_Subset, FS_AddElement, FS_CardinalityType, ScanAssumption

\* No file counts nothing.
LEMMA NoneYet == Cardinality({}) = 0
  BY FS_EmptySet

-----------------------------------------------------------------------------
(* Every step keeps the types.                                             *)

\* A scan's progress starts from nothing.
LEMMA NewTypes ==
  NewProgress \in ProgressRecords /\ Len(NewProgress.findings) <= MaxFindings
  <1>1. << >> \in Seq(Files) /\ Len(<< >>) <= MaxFindings
    BY ScanAssumption
  <1>2. [v \in Verdicts |-> 0] \in [Verdicts -> Nat]
    OBVIOUS
  <1> QED BY <1>1, <1>2 DEF NewProgress, ProgressRecords, Phases

\* Nothing has been started at first.
LEMMA SharedInit == Init => SharedInv
  <1> SUFFICES ASSUME Init PROVE SharedInv
    OBVIOUS
  <1>1. queue \in Seq(Files) /\ Len(queue) <= QueueCapacity
    BY ScanAssumption DEF Init
  <1>2. progress \in ProgressRecords /\ Len(progress.findings) <= MaxFindings
    BY NewTypes DEF Init
  <1>3. wk \in [Workers -> WorkerPlaces] /\ file \in [Workers -> Files \cup {Nobody}]
    BY DEF Init, WorkerPlaces
  <1>4. late \in [Workers -> Nat] /\ id \in 0..MaxScans
    BY ScanAssumption DEF Init
  <1> QED BY <1>1, <1>2, <1>3, <1>4 DEF Init, SharedInv

\* A phase of its own, and one more in a counter, keep the record's type.
LEMMA ProgressTypes ==
  ASSUME progress \in ProgressRecords
  PROVE  /\ \A ph \in Phases : [progress EXCEPT !.phase = ph] \in ProgressRecords
         /\ [progress EXCEPT !.discovered = @ + 1] \in ProgressRecords
         /\ [progress EXCEPT !.quarantined = @ + 1] \in ProgressRecords
         /\ \A v \in Verdicts : [progress EXCEPT !.tally[v] = @ + 1] \in ProgressRecords
         /\ \A v \in Verdicts, s \in Seq(Files) :
              [progress EXCEPT !.scanned = @ + 1, !.tally[v] = @ + 1, !.findings = s]
                \in ProgressRecords
  <1>0. progress.discovered + 1 \in Nat /\ progress.quarantined + 1 \in Nat
        /\ progress.scanned + 1 \in Nat
    BY DEF ProgressRecords
  <1>1. \A ph \in Phases : [progress EXCEPT !.phase = ph] \in ProgressRecords
    BY DEF ProgressRecords
  <1>2. \A q \in ProgressRecords, n \in Nat : [q EXCEPT !.discovered = n] \in ProgressRecords
    BY DEF ProgressRecords
  <1>3. \A q \in ProgressRecords, n \in Nat : [q EXCEPT !.quarantined = n] \in ProgressRecords
    BY DEF ProgressRecords
  <1>4. \A q \in ProgressRecords, n \in Nat : [q EXCEPT !.scanned = n] \in ProgressRecords
    BY DEF ProgressRecords
  <1>5. \A q \in ProgressRecords, t \in [Verdicts -> Nat] : [q EXCEPT !.tally = t] \in ProgressRecords
    BY DEF ProgressRecords
  <1>6. \A q \in ProgressRecords, s \in Seq(Files) : [q EXCEPT !.findings = s] \in ProgressRecords
    BY DEF ProgressRecords
  <1>7. \A v \in Verdicts : [progress.tally EXCEPT ![v] = progress.tally[v] + 1] \in [Verdicts -> Nat]
    BY DEF ProgressRecords
  <1>8. \A v \in Verdicts : [progress EXCEPT !.tally[v] = @ + 1] \in ProgressRecords
    BY <1>5, <1>7
  <1>9. \A v \in Verdicts, s \in Seq(Files) :
          [progress EXCEPT !.scanned = @ + 1, !.tally[v] = @ + 1, !.findings = s]
            \in ProgressRecords
    <2> TAKE v \in Verdicts, s \in Seq(Files)
    <2> DEFINE a == [progress EXCEPT !.scanned = progress.scanned + 1]
               b == [a EXCEPT !.tally = [progress.tally EXCEPT ![v] = progress.tally[v] + 1]]
    <2>1. a \in ProgressRecords
      BY <1>0, <1>4
    <2>2. b \in ProgressRecords
      <3> HIDE DEF a
      <3> QED BY <2>1, <1>5, <1>7
    <2>3. [b EXCEPT !.findings = s] \in ProgressRecords
      <3> HIDE DEF b
      <3> QED BY <2>2, <1>6
    <2> QED BY <2>3
  <1> QED BY <1>0, <1>1, <1>2, <1>3, <1>8, <1>9

\* The list of findings stays within MAX_VISIBLE_FINDINGS.
LEMMA FindingsBounded ==
  ASSUME NEW s \in Seq(Files), Len(s) <= MaxFindings, NEW f \in Files
  PROVE  AddFinding(s, f) \in Seq(Files) /\ Len(AddFinding(s, f)) <= MaxFindings
  <1>1. CASE Len(s) = MaxFindings
    <2>1. Len(s) # 0
      BY <1>1, ScanAssumption
    <2>2. Tail(s) \in Seq(Files) /\ Len(Tail(s)) = MaxFindings - 1
      BY <1>1, <2>1, ScanAssumption
    <2>3. Append(Tail(s), f) \in Seq(Files) /\ Len(Append(Tail(s), f)) = MaxFindings
      BY <2>2, ScanAssumption
    <2> QED BY <1>1, <2>3, ScanAssumption DEF AddFinding
  <1>2. CASE Len(s) # MaxFindings
    <2>1. Append(s, f) \in Seq(Files) /\ Len(Append(s, f)) = Len(s) + 1
      OBVIOUS
    <2> QED BY <1>2, <2>1, ScanAssumption DEF AddFinding
  <1> QED BY <1>1, <1>2

\* Every step keeps the types of what the threads share.
LEMMA SharedStep == ASSUME SharedInv, PlaceInv, [Next]_vars PROVE SharedInv'
  <1> USE DEF jobVars, walkVars, poolVars
  <1>1. CASE \E u \in Users : StartScan(u)
    <2>1. queue' \in Seq(Files) /\ Len(queue') <= QueueCapacity
      BY <1>1, ScanAssumption DEF StartScan
    <2>2. progress' \in ProgressRecords /\ Len(progress'.findings) <= MaxFindings
      BY <1>1, NewTypes DEF StartScan
    <2>3. wk' \in [Workers -> WorkerPlaces] /\ file' \in [Workers -> Files \cup {Nobody}]
      BY <1>1 DEF StartScan, WorkerPlaces
    <2>4. late' \in [Workers -> Nat] /\ id' \in 0..MaxScans
      BY <1>1, ScanAssumption DEF StartScan, SharedInv
    <2> QED BY <1>1, <2>1, <2>2, <2>3, <2>4 DEF StartScan, SharedInv
  <1>2. CASE \E u \in Users : CancelScan(u)
    BY <1>2 DEF CancelScan, SharedInv
  <1>3. CASE CancelPhase
    <2>1. (IF is_finished(progress.phase) THEN progress.phase ELSE "Cancelling") \in Phases
      BY DEF SharedInv, ProgressRecords, Phases
    <2> QED BY <1>3, <2>1, ProgressTypes DEF CancelPhase, SharedInv, ProgressRecords
  <1>4. CASE RootsFail
    BY <1>4, ProgressTypes DEF RootsFail, SharedInv, ProgressRecords, Phases, Finished
  <1>5. CASE StartThreads \/ Joined
    BY <1>5 DEF StartThreads, Joined, SharedInv, Walking, WorkerPlaces
  <1>6. CASE Finish
    BY <1>6, ProgressTypes DEF Finish, SharedInv, ProgressRecords, Phases, Finished
  <1>7. CASE \E f \in Files : Visit(f)
    BY <1>7, ProgressTypes DEF Visit, SharedInv, ProgressRecords, Walking, Verdicts
  <1>8. CASE Offer
    <2>1. pending \in Files
      BY <1>8 DEF Offer, PlaceInv, Scannable
    <2>2. queue' \in Seq(Files) /\ Len(queue') = Len(queue) + 1
      BY <1>8, <2>1 DEF Offer, SharedInv
    <2>3. Len(queue') <= QueueCapacity
      BY <1>8, <2>2, ScanAssumption DEF Offer, SharedInv
    <2> QED BY <1>8, <2>2, <2>3 DEF Offer, SharedInv, Walking
  <1>9. CASE CountDiscovered
    BY <1>9, ProgressTypes DEF CountDiscovered, SharedInv, ProgressRecords, Walking
  <1>10. CASE WalkEnds \/ WalkPanics
    BY <1>10 DEF WalkEnds, WalkPanics, SharedInv
  <1>11. ASSUME NEW w \in Workers, Check(w) \/ Lock(w) PROVE SharedInv'
    BY <1>11 DEF Check, Lock, SharedInv, WorkerPlaces
  <1>12. ASSUME NEW w \in Workers, Receive(w) PROVE SharedInv'
    <2>1. CASE queue = << >>
      BY <1>12, <2>1 DEF Receive, SharedInv, WorkerPlaces
    <2>2. CASE queue # << >>
      <3>1. Head(queue) \in Files /\ Tail(queue) \in Seq(Files) /\ Len(Tail(queue)) = Len(queue) - 1
        BY <2>2 DEF SharedInv
      <3>2. Len(Tail(queue)) <= QueueCapacity
        BY <3>1, ScanAssumption DEF SharedInv
      <3>3. wk[w] = "recv" /\ queue' = Tail(queue) /\ holder' = Nobody
            /\ file' = [file EXCEPT ![w] = Head(queue)] /\ wk' = [wk EXCEPT ![w] = "begin"]
            /\ taken' = taken \cup {Head(queue)}
            /\ late' = [late EXCEPT ![w] = IF cancelled THEN @ + 1 ELSE @]
            /\ UNCHANGED <<id, owner, progress, cancelled, main, sawCancel, walk, todo, pending>>
        BY <1>12, <2>2 DEF Receive
      <3>4. late' \in [Workers -> Nat]
        BY <3>3 DEF SharedInv
      <3> QED BY <3>1, <3>2, <3>3, <3>4 DEF SharedInv, WorkerPlaces, Busy
    <2> QED BY <2>1, <2>2
  <1>13. ASSUME NEW w \in Workers, Begin(w) PROVE SharedInv'
    <2>1. progress' \in ProgressRecords
      BY <1>13, ProgressTypes DEF Begin, SharedInv, Phases
    <2>2. Len(progress'.findings) <= MaxFindings
      BY <1>13 DEF Begin, SharedInv, ProgressRecords
    <2> QED BY <1>13, <2>1, <2>2 DEF Begin, SharedInv, WorkerPlaces, Busy
  <1>14. ASSUME NEW w \in Workers, Isolate(w) PROVE SharedInv'
    <2>1. progress' \in ProgressRecords
      BY <1>14, ProgressTypes DEF Isolate, SharedInv
    <2>2. Len(progress'.findings) <= MaxFindings
      BY <1>14 DEF Isolate, SharedInv, ProgressRecords
    <2> QED BY <1>14, <2>1, <2>2 DEF Isolate, SharedInv, WorkerPlaces, Busy
  <1>15. ASSUME NEW w \in Workers, Tally(w) PROVE SharedInv'
    <2>1. file[w] \in Files /\ Verdict[file[w]] \in Verdicts
      BY <1>15, ScanAssumption DEF Tally, PlaceInv, Busy, Scannable
    <2>2. /\ AddFinding(progress.findings, file[w]) \in Seq(Files)
          /\ Len(AddFinding(progress.findings, file[w])) <= MaxFindings
      BY <2>1, FindingsBounded DEF SharedInv, ProgressRecords
    <2>3. progress' = [progress EXCEPT !.scanned = @ + 1, !.tally[Verdict[file[w]]] = @ + 1,
                                       !.findings = AddFinding(progress.findings, file[w])]
      BY <1>15 DEF Tally, SharedInv
    <2>4. progress'.findings = AddFinding(progress.findings, file[w])
      BY <2>3 DEF SharedInv, ProgressRecords
    <2>5. progress' \in ProgressRecords
      BY <2>1, <2>2, <2>3, ProgressTypes DEF SharedInv
    <2> QED BY <1>15, <2>2, <2>4, <2>5 DEF Tally, SharedInv, WorkerPlaces
  <1>16. CASE PollAnswered \/ PollLost \/ Quiet \/ UNCHANGED vars
    BY <1>16 DEF PollAnswered, PollLost, Quiet, vars, SharedInv
  <1> QED BY <1>1, <1>2, <1>3, <1>4, <1>5, <1>6, <1>7, <1>8, <1>9, <1>10, <1>11, <1>12,
             <1>13, <1>14, <1>15, <1>16
          DEF Next, MainStep, WalkStep, WorkerStep

-----------------------------------------------------------------------------
(* Who runs when.                                                          *)

\* The phase is set by few steps, and only the joining thread ends a scan.
LEMMA PhaseFacts ==
  ASSUME SharedInv
  PROVE  /\ \A ph : [progress EXCEPT !.phase = ph].phase = ph
         /\ [progress EXCEPT !.discovered = @ + 1].phase = progress.phase
         /\ [progress EXCEPT !.quarantined = @ + 1].phase = progress.phase
         /\ [progress EXCEPT !.tally["Error"] = @ + 1].phase = progress.phase
         /\ \A v, s : [progress EXCEPT !.scanned = @ + 1, !.tally[v] = @ + 1,
                                       !.findings = s].phase = progress.phase
  BY DEF SharedInv, ProgressRecords

\* Threads exist from StartThreads until they are joined.
LEMMA StageStep == ASSUME SharedInv, StageInv, [Next]_vars PROVE StageInv'
  <1> USE DEF jobVars, walkVars, poolVars
  <1>1. CASE \E u \in Users : StartScan(u)
    BY <1>1 DEF StartScan, StageInv, NewProgress, is_finished, Finished
  <1>2. CASE \E u \in Users : CancelScan(u)
    BY <1>2 DEF CancelScan, StageInv
  <1>3. CASE CancelPhase
    BY <1>3, PhaseFacts DEF CancelPhase, StageInv, is_finished, Finished
  <1>4. CASE RootsFail
    BY <1>4 DEF RootsFail, StageInv, Walking
  <1>5. CASE StartThreads
    BY <1>5 DEF StartThreads, StageInv
  <1>6. CASE Joined
    BY <1>6 DEF Joined, WalkOver, StageInv, Walking
  <1>7. CASE Finish
    BY <1>7 DEF Finish, StageInv
  <1>8. CASE \E f \in Files : Visit(f)
    BY <1>8, PhaseFacts DEF Visit, StageInv, Walking, SharedInv
  <1>9. CASE Offer \/ WalkEnds \/ WalkPanics
    BY <1>9 DEF Offer, WalkEnds, WalkPanics, StageInv, Walking, SharedInv
  <1>10. CASE CountDiscovered
    BY <1>10, PhaseFacts DEF CountDiscovered, StageInv, Walking, SharedInv
  <1>11. ASSUME NEW w \in Workers, Check(w) \/ Lock(w) \/ Receive(w) PROVE StageInv'
    BY <1>11 DEF Check, Lock, Receive, StageInv, SharedInv
  <1>12. ASSUME NEW w \in Workers, Begin(w) \/ Isolate(w) PROVE StageInv'
    BY <1>12, PhaseFacts DEF Begin, Isolate, StageInv, SharedInv, is_finished, Finished
  <1>13. ASSUME NEW w \in Workers, Tally(w) PROVE StageInv'
    <2>1. progress'.phase = progress.phase
      BY <1>13, PhaseFacts DEF Tally
    <2> QED BY <1>13, <2>1 DEF Tally, StageInv, SharedInv
  <1>14. CASE PollAnswered \/ PollLost \/ Quiet \/ UNCHANGED vars
    BY <1>14 DEF PollAnswered, PollLost, Quiet, vars, StageInv
  <1> QED BY <1>1, <1>2, <1>3, <1>4, <1>5, <1>6, <1>7, <1>8, <1>9, <1>10, <1>11, <1>12,
             <1>13, <1>14
          DEF Next, MainStep, WalkStep, WorkerStep

\* The flag is looked at between two files.
LEMMA LateStep == ASSUME SharedInv, LateInv, [Next]_vars PROVE LateInv'
  <1> USE DEF jobVars, walkVars, poolVars
  <1>1. CASE \E u \in Users : StartScan(u) \/ CancelScan(u)
    BY <1>1 DEF StartScan, CancelScan, LateInv, SharedInv
  <1>2. CASE StartThreads
    BY <1>2 DEF StartThreads, LateInv, SharedInv
  <1>3. CASE CancelPhase \/ RootsFail \/ Joined \/ Finish
    BY <1>3 DEF CancelPhase, RootsFail, Joined, Finish, LateInv
  <1>4. CASE WalkStep \/ WalkPanics
    BY <1>4 DEF WalkStep, WalkPanics, Visit, Offer, CountDiscovered, WalkEnds, LateInv
  <1>5. ASSUME NEW w \in Workers, Receive(w) PROVE LateInv'
    BY <1>5 DEF Receive, LateInv, SharedInv
  <1>6. ASSUME NEW w \in Workers, Check(w) \/ Lock(w) PROVE LateInv'
    BY <1>6 DEF Check, Lock, LateInv, SharedInv
  <1>7. ASSUME NEW w \in Workers, Begin(w) \/ Isolate(w) \/ Tally(w) PROVE LateInv'
    BY <1>7 DEF Begin, Isolate, Tally, LateInv, SharedInv
  <1>8. CASE PollAnswered \/ PollLost \/ Quiet \/ UNCHANGED vars
    BY <1>8 DEF PollAnswered, PollLost, Quiet, vars, LateInv
  <1> QED BY <1>1, <1>2, <1>3, <1>4, <1>5, <1>6, <1>7, <1>8 DEF Next, MainStep, WorkerStep

-----------------------------------------------------------------------------
(* Every file is in one place.                                             *)

\* An empty queue holds nothing.
LEMMA ElemsEmpty == Elems(<< >>) = {} /\ NoRepeat(<< >>)
  BY DEF Elems, NoRepeat

\* No file is in two places, none is scanned twice.
LEMMA PlaceStep ==
  ASSUME SharedInv, StageInv, PlaceInv, [Next]_vars PROVE PlaceInv'
  <1> USE DEF jobVars, walkVars, poolVars
  <1>1. CASE \E u \in Users : StartScan(u)
    <2>1. queue' = << >> /\ taken' = {} /\ todo' = {} /\ walk' = "off" /\ pending' = Nobody
          /\ wk' = [w \in Workers |-> "off"] /\ file' = [w \in Workers |-> Nobody]
      BY <1>1 DEF StartScan
    <2> QED BY <2>1, ElemsEmpty DEF PlaceInv, Busy
  <1>2. CASE StartThreads
    <2>1. taken = {} /\ queue = << >> /\ walk = "off"
      BY <1>2 DEF StartThreads, StageInv
    <2> QED BY <1>2, <2>1, ElemsEmpty DEF StartThreads, PlaceInv, Busy, StageInv, SharedInv
  <1>3. CASE \/ CancelPhase \/ RootsFail \/ Joined \/ Finish \/ PollAnswered \/ PollLost
             \/ Quiet \/ UNCHANGED vars \/ \E u \in Users : CancelScan(u)
    BY <1>3 DEF CancelScan, CancelPhase, RootsFail, Joined, Finish, PollAnswered, PollLost,
                Quiet, vars, PlaceInv
  <1>4. CASE \E f \in Files : Visit(f)
    BY <1>4 DEF Visit, PlaceInv, Scannable
  <1>5. CASE Offer
    <2>1. pending \in Scannable \ (todo \cup taken \cup Elems(queue)) /\ pending \in Files
      BY <1>5 DEF Offer, PlaceInv, Scannable
    <2>2. Elems(queue') = Elems(queue) \cup {pending} /\ NoRepeat(queue')
      BY <1>5, <2>1, ElemsAppend DEF Offer, PlaceInv, SharedInv
    <2> QED BY <1>5, <2>1, <2>2 DEF Offer, PlaceInv
  <1>6. CASE CountDiscovered \/ WalkEnds \/ WalkPanics
    BY <1>6 DEF CountDiscovered, WalkEnds, WalkPanics, PlaceInv
  <1>7. ASSUME NEW w \in Workers, Check(w) \/ Lock(w) PROVE PlaceInv'
    BY <1>7 DEF Check, Lock, PlaceInv, SharedInv, Busy
  <1>8. ASSUME NEW w \in Workers, Receive(w) PROVE PlaceInv'
    <2>1. CASE queue = << >>
      BY <1>8, <2>1 DEF Receive, PlaceInv, SharedInv, Busy
    <2>2. CASE queue # << >>
      <3>1. /\ wk[w] = "recv" /\ queue' = Tail(queue)
            /\ file' = [file EXCEPT ![w] = Head(queue)] /\ wk' = [wk EXCEPT ![w] = "begin"]
            /\ taken' = taken \cup {Head(queue)}
            /\ UNCHANGED <<walk, todo, pending>>
        BY <1>8, <2>2 DEF Receive
      <3>2. /\ Head(queue) \in Elems(queue) /\ Head(queue) \in Files
            /\ Elems(queue') = Elems(queue) \ {Head(queue)} /\ NoRepeat(queue')
        BY <2>2, <3>1, ElemsTail DEF PlaceInv, SharedInv
      <3> DEFINE h == Head(queue)
      <3>3. h \notin taken /\ h # Nobody /\ \A v \in Workers : file[v] # h
        BY <3>2, ScanAssumption DEF PlaceInv
      <3>4. /\ file'[w] = h /\ wk'[w] = "begin"
            /\ \A v \in Workers \ {w} : file'[v] = file[v] /\ wk'[v] = wk[v]
        BY <3>1 DEF SharedInv
      <3>5. \A v \in Workers : IF wk'[v] \in Busy THEN file'[v] \in taken' ELSE file'[v] = Nobody
        BY <3>1, <3>4 DEF PlaceInv, Busy
      <3>6. \A u, v \in Workers : file'[u] = file'[v] /\ file'[u] # Nobody => u = v
        BY <3>3, <3>4 DEF PlaceInv
      <3> QED BY <3>1, <3>2, <3>3, <3>5, <3>6 DEF PlaceInv
    <2> QED BY <2>1, <2>2
  <1>9. ASSUME NEW w \in Workers, Begin(w) \/ Isolate(w) PROVE PlaceInv'
    BY <1>9 DEF Begin, Isolate, PlaceInv, SharedInv, Busy
  <1>10. ASSUME NEW w \in Workers, Tally(w) PROVE PlaceInv'
    <2>1. /\ wk' = [wk EXCEPT ![w] = "check"] /\ file' = [file EXCEPT ![w] = Nobody]
          /\ UNCHANGED <<walk, todo, pending, queue, taken>>
      BY <1>10 DEF Tally
    <2>2. \A v \in Workers : IF wk'[v] \in Busy THEN file'[v] \in taken' ELSE file'[v] = Nobody
      BY <2>1 DEF PlaceInv, Busy, SharedInv
    <2>3. \A u, v \in Workers : file'[u] = file'[v] /\ file'[u] # Nobody => u = v
      BY <2>1 DEF PlaceInv, SharedInv
    <2> QED BY <2>1, <2>2, <2>3 DEF PlaceInv
  <1> QED BY <1>1, <1>2, <1>3, <1>4, <1>5, <1>6, <1>7, <1>8, <1>9, <1>10
          DEF Next, MainStep, WalkStep, WorkerStep

\* No file is lost unless the walk was cut short.
LEMMA LosslessStep ==
  ASSUME SharedInv, StageInv, PlaceInv, Lossless, [Next]_vars PROVE Lossless'
  <1> USE DEF jobVars, walkVars, poolVars
  <1>1. CASE \E u \in Users : StartScan(u)
    <2>1. walk' = "off" /\ main' = "roots" /\ wk' = [w \in Workers |-> "off"]
          /\ progress'.phase = "Enumerating"
      BY <1>1 DEF StartScan, NewProgress
    <2> QED BY <2>1 DEF Lossless, Walking
  <1>2. CASE \E u \in Users : CancelScan(u)
    BY <1>2 DEF CancelScan, Lossless
  <1>3. CASE CancelPhase
    <2>1. progress'.phase = "Completed" => progress.phase = "Completed"
      BY <1>3, PhaseFacts DEF CancelPhase
    <2> QED BY <1>3, <2>1 DEF CancelPhase, Lossless, WalkOver
  <1>4. CASE RootsFail
    BY <1>4, PhaseFacts DEF RootsFail, Lossless, WalkOver
  <1>5. CASE StartThreads
    <2>1. /\ walk' = "walk" /\ todo' = Files /\ main' = "join"
          /\ wk' = [w \in Workers |-> "check"] /\ progress' = progress
      BY <1>5 DEF StartThreads
    <2>2. progress.phase # "Completed"
      BY <1>5 DEF StartThreads, StageInv, is_finished, Finished
    <2> QED BY <2>1, <2>2 DEF Lossless, Scannable
  <1>6. CASE Joined
    <2>1. PICK w \in Workers : wk[w] = "done"
      BY <1>6, ScanAssumption DEF Joined
    <2>2. ~cancelled => queue = << >>
      BY <2>1 DEF Lossless
    <2>3. ~cancelled /\ walk = "done" => todo = {} /\ taken = Scannable
      BY <2>2, ElemsEmpty DEF Lossless, PlaceInv
    <2> QED BY <1>6, <2>3 DEF Joined, Lossless, WalkOver
  <1>7. CASE Finish
    <2>1. progress'.phase = "Completed" => walk # "panicked" /\ ~sawCancel
      BY <1>7, PhaseFacts DEF Finish
    <2>2. walk \notin Walking /\ walk # "off"
      BY <1>7 DEF Finish, StageInv
    <2>3. progress'.phase = "Completed" => walk = "done"
      BY <2>1, <2>2 DEF SharedInv
    <2> QED BY <1>7, <2>1, <2>3 DEF Finish, Lossless, WalkOver
  <1>8. CASE \E f \in Files : Visit(f)
    <2>1. PICK f \in Files : Visit(f)
      BY <1>8
    <2>2. progress'.phase = progress.phase
      BY <2>1, PhaseFacts DEF Visit
    <2>3. walk = "walk" /\ walk' \in {"walk", "offer"} /\ progress.phase # "Completed" /\ main # "finish"
      BY <2>1 DEF Visit, StageInv, Walking, is_finished, Finished
    <2>4. pending = Nobody /\ Nobody \notin Files
      BY <2>3, ScanAssumption DEF PlaceInv
    <2>5. Scannable \subseteq todo' \cup {pending'} \cup Elems(queue) \cup taken
      <3>1. Scannable \subseteq todo \cup Elems(queue) \cup taken
        BY <2>3, <2>4 DEF Lossless, Walking, Scannable
      <3> QED BY <2>1, <3>1 DEF Visit, Scannable
    <2>6. \A w \in Workers : wk[w] = "done" => cancelled
      BY <2>3 DEF Lossless, WalkOver
    <2> QED BY <2>1, <2>2, <2>3, <2>5, <2>6 DEF Visit, Lossless
  <1>9. CASE Offer
    <2>1. walk = "offer" /\ progress.phase # "Completed" /\ main # "finish"
      BY <1>9 DEF Offer, StageInv, Walking, is_finished, Finished
    <2>2. pending \in Files
      BY <2>1 DEF PlaceInv, Scannable
    <2>3. Elems(queue') = Elems(queue) \cup {pending}
      BY <1>9, <2>2, ElemsAppend DEF Offer, SharedInv
    <2>4. Scannable \subseteq todo \cup Elems(queue') \cup taken
      BY <2>1, <2>3 DEF Lossless, Walking
    <2>5. \A w \in Workers : wk[w] = "done" => cancelled
      BY <2>1 DEF Lossless, WalkOver
    <2> QED BY <1>9, <2>1, <2>4, <2>5 DEF Offer, Lossless
  <1>10. CASE CountDiscovered
    <2>1. progress'.phase = progress.phase
      BY <1>10, PhaseFacts DEF CountDiscovered
    <2>2. walk = "count" /\ progress.phase # "Completed" /\ main # "finish"
      BY <1>10 DEF CountDiscovered, StageInv, Walking, is_finished, Finished
    <2> QED BY <1>10, <2>1, <2>2 DEF CountDiscovered, Lossless, Walking, WalkOver
  <1>11. CASE WalkEnds
    <2>1. walk \in Walking /\ progress.phase # "Completed" /\ main # "finish"
      BY <1>11 DEF WalkEnds, StageInv, Walking, is_finished, Finished
    <2>2. ~cancelled => todo = {} /\ pending = Nobody /\ Nobody \notin Files
      BY <1>11, ScanAssumption DEF WalkEnds, PlaceInv
    <2>3. ~cancelled => Scannable \subseteq Elems(queue) \cup taken
      BY <2>1, <2>2 DEF Lossless, Scannable
    <2> QED BY <1>11, <2>1, <2>2, <2>3 DEF WalkEnds, Lossless, Walking, WalkOver
  <1>12. CASE WalkPanics
    <2>1. walk \in Walking /\ progress.phase # "Completed" /\ main # "finish"
      BY <1>12 DEF WalkPanics, StageInv, Walking, is_finished, Finished
    <2> QED BY <1>12, <2>1 DEF WalkPanics, Lossless, Walking, WalkOver
  <1>13. ASSUME NEW w \in Workers, Check(w) \/ Lock(w) PROVE Lossless'
    BY <1>13 DEF Check, Lock, Lossless, SharedInv, WalkOver
  <1>14. ASSUME NEW w \in Workers, Receive(w) PROVE Lossless'
    <2>1. progress.phase # "Completed" /\ main # "finish"
      BY <1>14 DEF Receive, StageInv, is_finished, Finished
    <2>2. CASE queue = << >>
      BY <1>14, <2>1, <2>2 DEF Receive, Lossless, SharedInv, WalkOver
    <2>3. CASE queue # << >>
      <3>1. /\ wk[w] = "recv" /\ queue' = Tail(queue) /\ wk' = [wk EXCEPT ![w] = "begin"]
            /\ taken' = taken \cup {Head(queue)}
            /\ UNCHANGED <<walk, todo, pending, cancelled, main, progress>>
        BY <1>14, <2>3 DEF Receive
      <3>2. Elems(queue') \cup taken' = Elems(queue) \cup taken
        BY <2>3, <3>1, ElemsTail DEF PlaceInv, SharedInv
      <3>3. \A v \in Workers : wk'[v] = "done" => cancelled
        BY <2>3, <3>1 DEF Lossless, SharedInv
      <3> QED BY <2>1, <3>1, <3>2, <3>3 DEF Lossless
    <2> QED BY <2>2, <2>3
  <1>15. ASSUME NEW w \in Workers, Begin(w) \/ Isolate(w) \/ Tally(w) PROVE Lossless'
    <2>1. progress'.phase \in {progress.phase, "Scanning"}
      <3>1. CASE Begin(w) \/ Isolate(w)
        BY <3>1, PhaseFacts DEF Begin, Isolate
      <3>2. CASE Tally(w)
        BY <3>2, PhaseFacts DEF Tally
      <3> QED BY <1>15, <3>1, <3>2
    <2>2. \A v \in Workers : wk'[v] = "done" => wk[v] = "done"
      BY <1>15 DEF Begin, Isolate, Tally, SharedInv
    <2> QED BY <1>15, <2>1, <2>2 DEF Begin, Isolate, Tally, Lossless, WalkOver
  <1>16. CASE PollAnswered \/ PollLost \/ Quiet \/ UNCHANGED vars
    BY <1>16 DEF PollAnswered, PollLost, Quiet, vars, Lossless, WalkOver
  <1> QED BY <1>1, <1>2, <1>3, <1>4, <1>5, <1>6, <1>7, <1>8, <1>9, <1>10, <1>11, <1>12,
             <1>13, <1>14, <1>15, <1>16
          DEF Next, MainStep, WalkStep, WorkerStep

-----------------------------------------------------------------------------
(* The counters.                                                           *)

\* What the counters are compared with, as a function of the state.
LEMMA CountStill ==
  ASSUME CountInv, UNCHANGED <<walk, todo, taken, queue, file>>,
         progress'.scanned = progress.scanned, progress'.discovered = progress.discovered,
         progress'.tally = progress.tally
  PROVE  CountInv'
  BY DEF CountInv, Scanned, Judged, Visited, Unread

\* Steps that set the phase, or count what was isolated, count no file.
LEMMA CountFacts ==
  ASSUME SharedInv, NEW q,
         \/ \E ph : q = [progress EXCEPT !.phase = ph]
         \/ q = [progress EXCEPT !.quarantined = @ + 1]
  PROVE  /\ q.scanned = progress.scanned /\ q.discovered = progress.discovered
         /\ q.tally = progress.tally
  BY DEF SharedInv, ProgressRecords

\* The numbers of files are natural numbers.
LEMMA CountTypes ==
  ASSUME SharedInv
  PROVE  Unread \in Nat /\ \A v : Cardinality(Judged(v)) \in Nat
  <1>1. \A S \in SUBSET Files : Cardinality(S) \in Nat
    BY FS_Subset, FS_CardinalityType, ScanAssumption
  <1>2. \A v : Judged(v) \in SUBSET Files
    BY DEF Judged, Scanned, SharedInv
  <1>3. Unreadable \cap Visited \in SUBSET Files
    BY ScanAssumption
  <1> QED BY <1>1, <1>2, <1>3 DEF Unread

\* A file that is visited is counted when it cannot be read.
LEMMA VisitCounts ==
  ASSUME SharedInv, PlaceInv, CountInv, NEW f \in Files, Visit(f) PROVE CountInv'
  <1> USE DEF poolVars
  <1>1. /\ walk = "walk" /\ walk' \in {"walk", "offer"} /\ f \in todo /\ todo' = todo \ {f}
        /\ UNCHANGED <<taken, queue, file>>
    BY DEF Visit
  <1>2. Scanned' = Scanned /\ Elems(queue)' = Elems(queue) /\ \A v : Judged(v)' = Judged(v)
    BY <1>1 DEF Scanned, Judged
  <1>3. Visited = Files \ todo /\ Visited' = Visited \cup {f} /\ f \notin Visited
    BY <1>1 DEF Visited
  <1>4. CASE f \in Unreadable
    <2>1. progress' = [progress EXCEPT !.tally["Error"] = @ + 1]
      BY <1>4, ScanAssumption DEF Visit
    <2>2. /\ progress'.scanned = progress.scanned /\ progress'.discovered = progress.discovered
          /\ \A v \in Verdicts : progress'.tally[v] =
               IF v = "Error" THEN progress.tally[v] + 1 ELSE progress.tally[v]
      BY <2>1 DEF SharedInv, ProgressRecords
    <2>3. Unreadable \cap Visited' = (Unreadable \cap Visited) \cup {f}
      BY <1>3, <1>4
    <2>4. Unread \in Nat /\ Unread' = Unread + 1
      BY <1>3, <2>3, OneMore, ScanAssumption DEF Unread
    <2>5. \A v \in Verdicts : Cardinality(Judged(v)) \in Nat
      BY CountTypes
    <2>6. \A v \in Verdicts :
            progress'.tally[v] = Cardinality(Judged(v)') + (IF v = "Error" THEN Unread' ELSE 0)
      BY <1>2, <2>2, <2>4, <2>5 DEF CountInv
    <2> QED BY <1>1, <1>2, <2>2, <2>6 DEF CountInv
  <1>5. CASE f \notin Unreadable
    <2>1. progress' = progress
      BY <1>5 DEF Visit
    <2>2. Unread' = Unread
      <3>1. Unreadable \cap Visited' = Unreadable \cap Visited
        BY <1>3, <1>5
      <3> QED BY <3>1 DEF Unread
    <2> QED BY <1>1, <1>2, <2>1, <2>2 DEF CountInv
  <1> QED BY <1>4, <1>5

\* A file whose verdict is in is counted once.
LEMMA TallyCounts ==
  ASSUME SharedInv, PlaceInv, CountInv, NEW w \in Workers, Tally(w) PROVE CountInv'
  <1> USE DEF walkVars
  <1> DEFINE x == file[w]
  <1>1. /\ wk[w] = "tally" /\ file' = [file EXCEPT ![w] = Nobody]
        /\ UNCHANGED <<walk, todo, taken, queue>>
    BY DEF Tally
  <1>2. x \in taken /\ x \in Files /\ x # Nobody /\ Verdict[x] \in Verdicts
    BY <1>1, ScanAssumption DEF PlaceInv, Busy, SharedInv
  <1>3. \A v \in Workers \ {w} : file[v] # x
    BY <1>2 DEF PlaceInv
  <1>4. Scanned' = Scanned \cup {x} /\ x \notin Scanned /\ Scanned \subseteq Files
    <2>1. file'[w] = Nobody /\ \A v \in Workers \ {w} : file'[v] = file[v]
      BY <1>1 DEF SharedInv
    <2>2. x \notin Scanned /\ Scanned \subseteq Files
      BY DEF Scanned, SharedInv
    <2>3. Nobody \notin taken
      BY ScanAssumption DEF SharedInv
    <2>4. \A g \in taken : (\A v \in Workers : file'[v] # g)
                             <=> g = x \/ \A v \in Workers : file[v] # g
      BY <1>3, <2>1, <2>3
    <2> QED BY <1>1, <1>2, <2>2, <2>4 DEF Scanned
  <1>5. Cardinality(Scanned) \in Nat /\ Cardinality(Scanned') = Cardinality(Scanned) + 1
    BY <1>2, <1>4, OneMore
  <1>6. /\ progress'.scanned = progress.scanned + 1 /\ progress'.discovered = progress.discovered
        /\ \A v \in Verdicts : progress'.tally[v] =
             IF v = Verdict[x] THEN progress.tally[v] + 1 ELSE progress.tally[v]
    BY <1>2 DEF Tally, SharedInv, ProgressRecords
  <1>7. Unread' = Unread /\ Unread \in Nat
    BY <1>1, CountTypes DEF Visited, Unread
  <1>8. ASSUME NEW v \in Verdicts
        PROVE  /\ Cardinality(Judged(v)) \in Nat
               /\ Cardinality(Judged(v)') = Cardinality(Judged(v)) + (IF v = Verdict[x] THEN 1 ELSE 0)
    <2>1. Judged(v) \in SUBSET Files /\ x \notin Judged(v)
      BY <1>4 DEF Judged
    <2>2. /\ Cardinality(Judged(v)) \in Nat
          /\ Cardinality(Judged(v) \cup {x}) = Cardinality(Judged(v)) + 1
      BY <1>2, <2>1, OneMore
    <2>3. Judged(v)' = IF v = Verdict[x] THEN Judged(v) \cup {x} ELSE Judged(v)
      BY <1>4 DEF Judged
    <2> QED BY <2>2, <2>3
  <1>9. \A v \in Verdicts :
          progress'.tally[v] = Cardinality(Judged(v)') + (IF v = "Error" THEN Unread' ELSE 0)
    BY <1>6, <1>7, <1>8 DEF CountInv
  <1> QED BY <1>1, <1>5, <1>6, <1>9 DEF CountInv

\* The counters follow the files.
LEMMA CountStep ==
  ASSUME SharedInv, StageInv, PlaceInv, CountInv, [Next]_vars PROVE CountInv'
  <1> USE DEF jobVars, walkVars, poolVars
  <1>1. CASE \E u \in Users : StartScan(u)
    <2>1. walk' = "off" /\ taken' = {} /\ queue' = << >> /\ progress' = NewProgress
      BY <1>1 DEF StartScan
    <2>2. Scanned' = {} /\ taken' \cup Elems(queue') = {} /\ Visited' = {}
      BY <2>1, ElemsEmpty DEF Scanned, Visited
    <2>3. Unread' = 0 /\ \A v : Judged(v)' = {}
      BY <2>2, NoneYet DEF Unread, Judged
    <2>4. /\ progress'.scanned = 0 /\ progress'.discovered = 0 /\ walk' = "off"
          /\ \A v \in Verdicts : progress'.tally[v] = 0
      BY <2>1 DEF NewProgress
    <2> QED BY <2>2, <2>3, <2>4, NoneYet DEF CountInv
  <1>2. CASE StartThreads
    <2>1. walk = "off" /\ walk' = "walk" /\ todo' = Files /\ UNCHANGED <<taken, queue, file, progress>>
      BY <1>2 DEF StartThreads, StageInv
    <2>2. Visited = {} /\ Visited' = {}
      BY <2>1 DEF Visited
    <2> QED BY <2>1, <2>2 DEF CountInv, Scanned, Judged, Unread
  <1>3. CASE CancelPhase \/ RootsFail \/ Finish
    <2>1. \E ph : progress' = [progress EXCEPT !.phase = ph]
      BY <1>3 DEF CancelPhase, RootsFail, Finish
    <2> QED BY <1>3, <2>1, CountFacts, CountStill DEF CancelPhase, RootsFail, Finish
  <1>4. CASE \/ Joined \/ PollAnswered \/ PollLost \/ Quiet \/ UNCHANGED vars
             \/ \E u \in Users : CancelScan(u)
    BY <1>4, CountStill DEF Joined, PollAnswered, PollLost, Quiet, vars, CancelScan
  <1>5. CASE \E f \in Files : Visit(f)
    BY <1>5, VisitCounts
  <1>6. CASE Offer
    <2>1. pending \in Files /\ pending \notin taken \cup Elems(queue)
      BY <1>6 DEF Offer, PlaceInv, Scannable
    <2>2. taken' \cup Elems(queue') = (taken \cup Elems(queue)) \cup {pending}
      BY <1>6, <2>1, ElemsAppend DEF Offer, SharedInv
    <2>3. taken \cup Elems(queue) \in SUBSET Files
      BY DEF PlaceInv, Scannable, SharedInv
    <2>4. Cardinality(taken' \cup Elems(queue')) = Cardinality(taken \cup Elems(queue)) + 1
      BY <2>1, <2>2, <2>3, OneMore
    <2>5. Scanned' = Scanned /\ Visited' = Visited
      BY <1>6 DEF Offer, Scanned, Visited
    <2>6. progress.discovered \in Nat
      BY DEF SharedInv, ProgressRecords
    <2>7. Unread' = Unread /\ \A v : Judged(v)' = Judged(v)
      BY <2>5 DEF Unread, Judged
    <2>8. /\ walk' = "count" /\ progress' = progress
          /\ progress.discovered = Cardinality(taken \cup Elems(queue))
      BY <1>6, <2>6 DEF Offer, CountInv
    <2> QED BY <2>4, <2>5, <2>7, <2>8 DEF CountInv
  <1>7. CASE CountDiscovered
    <2>1. /\ progress'.discovered = progress.discovered + 1 /\ progress'.scanned = progress.scanned
          /\ progress'.tally = progress.tally /\ progress.discovered \in Nat
      BY <1>7 DEF CountDiscovered, SharedInv, ProgressRecords
    <2>2. Scanned' = Scanned /\ Visited' = Visited
      BY <1>7 DEF CountDiscovered, Scanned, Visited
    <2>3. Unread' = Unread /\ \A v : Judged(v)' = Judged(v)
      BY <2>2 DEF Unread, Judged
    <2>4. walk = "count" /\ walk' = "walk" /\ UNCHANGED <<taken, queue>>
      BY <1>7 DEF CountDiscovered
    <2> QED BY <2>1, <2>2, <2>3, <2>4 DEF CountInv
  <1>8. CASE WalkEnds \/ WalkPanics
    <2>1. Scanned' = Scanned /\ Visited' = Visited
      BY <1>8 DEF WalkEnds, WalkPanics, Scanned, Visited
    <2> QED BY <1>8, <2>1 DEF WalkEnds, WalkPanics, CountInv, Unread, Judged
  <1>9. ASSUME NEW w \in Workers, Check(w) \/ Lock(w) PROVE CountInv'
    BY <1>9, CountStill DEF Check, Lock
  <1>10. ASSUME NEW w \in Workers, Receive(w) PROVE CountInv'
    <2>1. CASE queue = << >>
      BY <1>10, <2>1, CountStill DEF Receive
    <2>2. CASE queue # << >>
      <3>1. /\ wk[w] = "recv" /\ queue' = Tail(queue)
            /\ file' = [file EXCEPT ![w] = Head(queue)]
            /\ taken' = taken \cup {Head(queue)}
            /\ UNCHANGED <<walk, todo, progress>>
        BY <1>10, <2>2 DEF Receive
      <3>2. /\ Head(queue) \in Elems(queue) /\ Head(queue) \in Files
            /\ Elems(queue') = Elems(queue) \ {Head(queue)}
        BY <2>2, <3>1, ElemsTail DEF PlaceInv, SharedInv
      <3>3. taken' \cup Elems(queue') = taken \cup Elems(queue)
        BY <3>1, <3>2
      <3>4. Head(queue) \notin taken /\ file[w] = Nobody
        BY <3>1, <3>2 DEF PlaceInv, Busy
      <3>5. /\ file'[w] = Head(queue) /\ \A v \in Workers \ {w} : file'[v] = file[v]
        BY <3>1 DEF SharedInv
      <3>6. Scanned' = Scanned
        BY <3>1, <3>4, <3>5, ScanAssumption DEF Scanned, SharedInv
      <3>7. Visited' = Visited
        BY <3>1 DEF Visited
      <3> QED BY <3>1, <3>3, <3>6, <3>7 DEF CountInv, Unread, Judged
    <2> QED BY <2>1, <2>2
  <1>11. ASSUME NEW w \in Workers, Begin(w) \/ Isolate(w) PROVE CountInv'
    <2>1. /\ progress'.scanned = progress.scanned /\ progress'.discovered = progress.discovered
          /\ progress'.tally = progress.tally
      BY <1>11, CountFacts DEF Begin, Isolate
    <2> QED BY <1>11, <2>1, CountStill DEF Begin, Isolate
  <1>12. ASSUME NEW w \in Workers, Tally(w) PROVE CountInv'
    BY <1>12, TallyCounts
  <1> QED BY <1>1, <1>2, <1>3, <1>4, <1>5, <1>6, <1>7, <1>8, <1>9, <1>10, <1>11, <1>12
          DEF Next, MainStep, WalkStep, WorkerStep

-----------------------------------------------------------------------------
\* No scan has been started at first.
LEMMA ScanInit == Init => ScanInv
  <1> SUFFICES ASSUME Init PROVE ScanInv
    OBVIOUS
  <1>1. StageInv
    BY DEF Init, StageInv, NewProgress, is_finished, Finished
  <1>2. PlaceInv
    BY ElemsEmpty DEF Init, PlaceInv, Busy
  <1>3. Lossless
    BY DEF Init, Lossless, NewProgress, Walking
  <1>4. Scanned = {} /\ Visited = {} /\ taken \cup Elems(queue) = {}
    BY ElemsEmpty DEF Init, Scanned, Visited
  <1>5. CountInv
    <2>1. Unread = 0 /\ \A v : Judged(v) = {}
      BY <1>4, NoneYet DEF Unread, Judged
    <2>2. /\ progress.scanned = 0 /\ progress.discovered = 0 /\ walk = "off"
          /\ \A v \in Verdicts : progress.tally[v] = 0
      BY DEF Init, NewProgress
    <2> QED BY <1>4, <2>1, <2>2, NoneYet DEF CountInv
  <1>6. LateInv
    BY DEF Init, LateInv
  <1> QED BY <1>1, <1>2, <1>3, <1>5, <1>6, SharedInit DEF ScanInv

\* Every reachable state satisfies the invariant.
LEMMA ScanInvariant == Spec => []ScanInv
  <1>1. ScanInv /\ [Next]_vars => ScanInv'
    BY SharedStep, StageStep, PlaceStep, LosslessStep, CountStep, LateStep DEF ScanInv
  <1> QED BY ScanInit, <1>1, PTL DEF Spec

\* The queue and the list of findings stay within their bounds, and every
\* thread is at one of its places.
THEOREM ScanTypes == Spec => []TypeOK
  <1>1. ScanInv => TypeOK
    BY DEF ScanInv, SharedInv, ProgressRecords, Phases, WorkerPlaces, Busy, TypeOK
  <1> QED BY ScanInvariant, <1>1, PTL

\* A scan that says Completed has taken every file it should look at out of
\* the queue exactly once, and its counters are the numbers of those files.
THEOREM CompletedMeansComplete == Spec => []CompletedIsComplete
  <1>1. ASSUME ScanInv, progress.phase = "Completed"
        PROVE  /\ taken = Files \ (Skipped \cup Unreadable)
               /\ progress.scanned = Cardinality(taken) /\ progress.discovered = progress.scanned
               /\ \A v \in Verdicts :
                    progress.tally[v] = Cardinality({f \in taken : Verdict[f] = v})
                                          + (IF v = "Error" THEN Cardinality(Unreadable) ELSE 0)
    <2>1. walk = "done" /\ todo = {} /\ taken = Scannable /\ main = "done"
      BY <1>1 DEF ScanInv, Lossless, StageInv, is_finished, Finished
    <2>2. \A w \in Workers : file[w] = Nobody
      BY <1>1, <2>1 DEF ScanInv, StageInv, PlaceInv, Busy
    <2>3. Scanned = taken
      BY <1>1, <2>2, ScanAssumption DEF Scanned, ScanInv, SharedInv
    <2>4. Elems(queue) = {}
      BY <1>1, <2>1 DEF ScanInv, PlaceInv
    <2>5. Unread = Cardinality(Unreadable)
      <3>1. Unreadable \cap Visited = Unreadable
        BY <2>1, ScanAssumption DEF Visited
      <3> QED BY <3>1 DEF Unread
    <2>6. progress.discovered = Cardinality(taken)
      <3>1. taken \cup Elems(queue) = taken
        BY <2>4
      <3>2. progress.discovered \in Nat
        BY <1>1 DEF ScanInv, SharedInv, ProgressRecords
      <3>3. progress.discovered + 0 = Cardinality(taken \cup Elems(queue))
        BY <1>1, <2>1 DEF ScanInv, CountInv
      <3> QED BY <3>1, <3>2, <3>3
    <2> QED BY <1>1, <2>1, <2>3, <2>5, <2>6 DEF ScanInv, CountInv, Judged, Scannable
  <1>2. ScanInv => CompletedIsComplete
    BY <1>1 DEF CompletedIsComplete
  <1> QED BY ScanInvariant, <1>2, PTL

\* After a cancellation a worker that is past its look at the flag takes one
\* file, and no other.
THEOREM CancelIsBounded == Spec => []CancelBounded
  <1>1. ScanInv => CancelBounded
    BY DEF ScanInv, LateInv, CancelBounded
  <1> QED BY ScanInvariant, <1>1, PTL

\* Once a scan has finished, all of its threads have been joined and a late
\* cancellation leaves the phase alone.
THEOREM FinishedIsFinal == Spec => FinishedStays
  <1>1. ASSUME ScanInv, [Next]_vars
        PROVE  [is_finished(progress.phase) /\ id' = id => progress' = progress]_vars
    <2> USE DEF jobVars, walkVars, poolVars
    <2> SUFFICES ASSUME is_finished(progress.phase), id' = id PROVE progress' = progress
      OBVIOUS
    <2>1. /\ main = "done" /\ walk \notin Walking
          /\ \A w \in Workers : wk[w] \in {"off", "done"}
      BY <1>1 DEF ScanInv, StageInv
    <2>2. progress = [progress EXCEPT !.phase = progress.phase]
      BY <1>1 DEF ScanInv, SharedInv, ProgressRecords
    <2>3. CASE CancelPhase
      BY <2>2, <2>3 DEF CancelPhase
    <2>4. ~ \E u \in Users : StartScan(u)
      BY <1>1 DEF StartScan, ScanInv, SharedInv
    <2>5. ~MainStep /\ ~WalkStep /\ ~ \E w \in Workers : WorkerStep(w)
      BY <2>1 DEF MainStep, RootsFail, StartThreads, Joined, Finish, WalkStep, Visit, Offer,
                  CountDiscovered, WalkEnds, Walking, WorkerStep, Check, Lock, Receive, Begin,
                  Isolate, Tally
    <2>6. CASE \/ WalkPanics \/ PollAnswered \/ PollLost \/ Quiet \/ UNCHANGED vars
               \/ \E u \in Users : CancelScan(u)
      BY <2>6 DEF WalkPanics, PollAnswered, PollLost, Quiet, vars, CancelScan
    <2> QED BY <1>1, <2>3, <2>4, <2>5, <2>6 DEF Next
  <1> QED BY ScanInvariant, <1>1, PTL DEF Spec, FinishedStays
=============================================================================
