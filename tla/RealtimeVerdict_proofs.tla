----------------------- MODULE RealtimeVerdict_proofs -----------------------
(***************************************************************************)
(* The content-race rule of the minifilter, its two counters, and what the *)
(* verdict cache may serve, for any number of requests, workers, writes    *)
(* and definition changes.                                                 *)
(***************************************************************************)
EXTENDS RealtimeVerdict, FiniteSetTheorems, SequenceTheorems, TLAPS

InEvaluation(q) == q.pc \in {"sent", "replied", "aborted"}

\* A request's generation is one the stream context has had, and a tracked
\* write during its evaluation has moved the context past it.  The context
\* starts over only when nothing is being evaluated.
RaceSeen(q, g) ==
  /\ q.gen \in Nat
  /\ InEvaluation(q) => q.gen <= g
  /\ (InEvaluation(q) /\ q.raced = TRUE) => q.gen < g
  /\ q.pc = "idle" => q.raced = FALSE
  /\ (q.pc = "done" /\ q.enforce = TRUE /\ q.raced = TRUE) => q.how # "Verdict"

Answers == {"None", "Allow", "Block"}
Record == [pc : {"idle", "sent", "replied", "aborted", "done"}, enforce : BOOLEAN, gen : Nat,
           reply : Answers, result : Answers,
           how : Failures \cup {"None", "Verdict", "HandleCreated"}, raced : BOOLEAN]

RaceInv ==
  /\ ctxGen \in Nat
  /\ req \in [Requests -> Record]
  /\ \A r \in Requests : RaceSeen(req[r], ctxGen)

\* No request is under evaluation before the filter is loaded.
LEMMA RaceInit == Init => RaceInv
<1> SUFFICES ASSUME Init PROVE RaceInv
  OBVIOUS
<1> DEFINE q0 == [pc |-> "idle", enforce |-> FALSE, gen |-> 1, reply |-> "None",
                  result |-> "None", how |-> "None", raced |-> FALSE]
<1>1. ctxGen = 1 /\ req = [r \in Requests |-> q0]
  BY DEF Init
<1>2. q0 \in Record
  BY DEF Record, Answers
<1>3. RaceSeen(q0, 1)
  BY DEF RaceSeen, InEvaluation
<1> HIDE DEF q0
<1> QED BY <1>1, <1>2, <1>3 DEF RaceInv

\* A step on one request that leaves the stream context alone.
LEMMA OneRequest ==
  ASSUME RaceInv, NEW r \in Requests, NEW q \in Record, RaceSeen(q, ctxGen),
         req' = [req EXCEPT ![r] = q], UNCHANGED ctxGen
  PROVE  RaceInv'
BY DEF RaceInv

\* A failure decides a request without the verdict.
LEMMA PolicyKeeps ==
  ASSUME RaceInv, NEW r \in Requests, NEW reason \in Failures, NEW e \in BOOLEAN,
         ApplyFailurePolicy(r, reason, e), UNCHANGED ctxGen
  PROVE  RaceInv'
<1> DEFINE q == [req[r] EXCEPT !.pc = "done", !.enforce = e, !.how = reason,
                   !.result = IF FailureBlocks(reason, e) THEN "Block" ELSE "Allow"]
<1>1. req' = [req EXCEPT ![r] = q]
  BY DEF ApplyFailurePolicy, RaceInv
<1>2. q \in Record /\ q.pc = "done" /\ q.how = reason /\ q.gen \in Nat
  BY DEF RaceInv, Record, Answers
<1>3. RaceSeen(q, ctxGen)
  BY <1>2 DEF RaceSeen, InEvaluation, Failures
<1> HIDE DEF q
<1> QED BY <1>1, <1>2, <1>3, OneRequest

\* A reply moves a waiting request on, or is refused.
LEMMA ReplyKeeps ==
  ASSUME RaceInv, NEW r \in Requests, NEW v \in Answers, Reply(r, v), UNCHANGED ctxGen
  PROVE  RaceInv'
<1>1. CASE ~Accepts(r)
  BY <1>1 DEF Reply, RaceInv
<1>2. CASE Accepts(r)
  <2> DEFINE q == [req[r] EXCEPT !.pc = "replied", !.reply = v]
  <2>1. req' = [req EXCEPT ![r] = q]
    BY <1>2 DEF Reply, RaceInv
  <2>2. /\ q \in Record /\ q.pc = "replied" /\ q.gen = req[r].gen /\ q.raced = req[r].raced
        /\ req[r].pc = "sent" /\ RaceSeen(req[r], ctxGen)
    BY <1>2 DEF RaceInv, Record, Answers, Accepts
  <2>3. RaceSeen(q, ctxGen)
    BY <2>2 DEF RaceSeen, InEvaluation
  <2> HIDE DEF q
  <2> QED BY <2>1, <2>2, <2>3, OneRequest
<1> QED BY <1>1, <1>2

\* A request takes the generation of the stream context as it starts.
LEMMA EvaluateKeeps ==
  ASSUME RaceInv, NEW r \in Requests, NEW e \in BOOLEAN, Evaluate(r, e)
  PROVE  RaceInv'
<1> DEFINE q == [req[r] EXCEPT !.pc = "sent", !.enforce = e, !.gen = ctxGen]
<1>1. req' = [req EXCEPT ![r] = q] /\ UNCHANGED ctxGen /\ req[r].pc = "idle"
  BY DEF Evaluate, fileVars, RaceInv
<1>2. /\ q \in Record /\ q.pc = "sent" /\ q.gen = ctxGen /\ q.raced = req[r].raced
      /\ RaceSeen(req[r], ctxGen) /\ ctxGen \in Nat
  BY DEF RaceInv, Record
<1>3. RaceSeen(q, ctxGen)
  BY <1>1, <1>2 DEF RaceSeen, InEvaluation
<1> HIDE DEF q
<1> QED BY <1>1, <1>2, <1>3, OneRequest

\* The re-check: a request that raced has a smaller generation than the context.
LEMMA DecideKeeps ==
  ASSUME RaceInv, NEW r \in Requests, Decide(r)
  PROVE  RaceInv'
<1>1. UNCHANGED ctxGen /\ req[r].pc = "replied" /\ RaceSeen(req[r], ctxGen) /\ req[r] \in Record
  BY DEF Decide, fileVars, RaceInv
<1>2. CASE req[r].enforce /\ ctxGen # req[r].gen
  <2>1. ApplyFailurePolicy(r, "ContentRace", TRUE) /\ "ContentRace" \in Failures
    BY <1>2 DEF Decide, Failures
  <2> QED BY <1>1, <2>1, PolicyKeeps
<1>3. CASE ~(req[r].enforce /\ ctxGen # req[r].gen)
  <2> DEFINE q == [req[r] EXCEPT !.pc = "done", !.how = "Verdict", !.result = req[r].reply]
  <2>1. req' = [req EXCEPT ![r] = q]
    BY <1>3 DEF Decide, RaceInv
  <2>2. /\ q \in Record /\ q.pc = "done" /\ q.gen = req[r].gen /\ q.raced = req[r].raced
        /\ q.enforce = req[r].enforce
    BY <1>1 DEF Record
  <2>3. req[r].enforce = TRUE => req[r].gen = ctxGen
    BY <1>3
  <2>4. RaceSeen(q, ctxGen)
    BY <1>1, <2>2, <2>3 DEF RaceSeen, InEvaluation
  <2> HIDE DEF q
  <2> QED BY <1>1, <2>1, <2>2, <2>4, OneRequest
<1> QED BY <1>2, <1>3

\* An open that could not be revoked is not an image load.
LEMMA DecideTooLateKeeps ==
  ASSUME RaceInv, NEW r \in Requests, DecideTooLate(r)
  PROVE  RaceInv'
<1> DEFINE q == [req[r] EXCEPT !.pc = "done", !.how = "HandleCreated", !.result = "Allow"]
<1>1. req' = [req EXCEPT ![r] = q] /\ UNCHANGED ctxGen
  BY DEF DecideTooLate, fileVars, RaceInv
<1>2. q \in Record /\ q.pc = "done" /\ q.how = "HandleCreated" /\ q.gen \in Nat
  BY DEF RaceInv, Record, Answers
<1>3. RaceSeen(q, ctxGen)
  BY <1>2 DEF RaceSeen, InEvaluation
<1> HIDE DEF q
<1> QED BY <1>1, <1>2, <1>3, OneRequest

\* A closed port turns every waiting request into an aborted one.
LEMMA DisconnectKeeps ==
  ASSUME RaceInv, PortDisconnect
  PROVE  RaceInv'
<1> DEFINE q(r) == IF req[r].pc = "sent" THEN [req[r] EXCEPT !.pc = "aborted"] ELSE req[r]
<1>1. req' = [r \in Requests |-> q(r)] /\ UNCHANGED ctxGen
  BY DEF PortDisconnect, fileVars
<1>2. ASSUME NEW r \in Requests PROVE q(r) \in Record /\ RaceSeen(q(r), ctxGen)
  <2>1. req[r] \in Record /\ RaceSeen(req[r], ctxGen)
    BY DEF RaceInv
  <2>2. CASE req[r].pc = "sent"
    <3> DEFINE a == [req[r] EXCEPT !.pc = "aborted"]
    <3>1. a \in Record /\ a.pc = "aborted" /\ a.gen = req[r].gen /\ a.raced = req[r].raced
      BY <2>1 DEF Record
    <3>2. RaceSeen(a, ctxGen)
      BY <2>1, <2>2, <3>1 DEF RaceSeen, InEvaluation
    <3> QED BY <2>2, <3>1, <3>2
  <2> QED BY <2>1, <2>2
<1> HIDE DEF q
<1> QED BY <1>1, <1>2 DEF RaceInv

\* An admitted write moves the context past every request under evaluation.
LEMMA PreWriteKeeps ==
  ASSUME RaceInv, PreWrite
  PROVE  RaceInv'
<1> DEFINE q(r) == IF Evaluating(r) THEN [req[r] EXCEPT !.raced = TRUE] ELSE req[r]
<1>1. req' = [r \in Requests |-> q(r)] /\ ctxGen' = ctxGen + 1 /\ ctxGen \in Nat
  BY DEF PreWrite, RaceInv
<1>2. ASSUME NEW r \in Requests PROVE q(r) \in Record /\ RaceSeen(q(r), ctxGen + 1)
  <2>1. req[r] \in Record /\ RaceSeen(req[r], ctxGen)
    BY DEF RaceInv
  <2>2. CASE Evaluating(r)
    <3> DEFINE a == [req[r] EXCEPT !.raced = TRUE]
    <3>1. a \in Record /\ a.pc = req[r].pc /\ a.gen = req[r].gen
      BY <2>1 DEF Record
    <3>2. RaceSeen(a, ctxGen + 1)
      BY <1>1, <2>1, <2>2, <3>1 DEF RaceSeen, InEvaluation, Evaluating
    <3> QED BY <2>2, <3>1, <3>2
  <2>3. CASE ~Evaluating(r)
    BY <1>1, <2>1, <2>3 DEF RaceSeen, InEvaluation, Evaluating
  <2> QED BY <2>2, <2>3
<1> HIDE DEF q
<1> QED BY <1>1, <1>2 DEF RaceInv

\* The context starts over only when no request holds one of its generations.
LEMMA ContextRebuiltKeeps ==
  ASSUME RaceInv, ContextRebuilt
  PROVE  RaceInv'
<1>1. ctxGen' = 1 /\ UNCHANGED req /\ \A r \in Requests : ~InEvaluation(req[r])
  BY DEF ContextRebuilt, Evaluating, InEvaluation
<1> QED BY <1>1 DEF RaceInv, RaceSeen

\* Every step keeps the generations in order.
LEMMA RaceStep == RaceInv /\ [Next]_vars => RaceInv'
<1> SUFFICES ASSUME RaceInv, [Next]_vars PROVE RaceInv'
  OBVIOUS
<1>1. ASSUME UNCHANGED <<req, ctxGen>> PROVE RaceInv'
  BY <1>1 DEF RaceInv
<1>2. CASE Driver
  <2>1. ASSUME NEW r \in Requests, NEW b \in BOOLEAN,
               NEW f \in {"ServiceUnavailable", "Unresolved", "PathTooLong"}, EvaluateFails(r, b, f)
        PROVE  RaceInv'
    BY <2>1, PolicyKeeps DEF EvaluateFails, fileVars, Failures
  <2>2. ASSUME NEW r \in Requests, SendTimesOut(r) \/ SendAborted(r) PROVE RaceInv'
    <3>1. req[r].enforce \in BOOLEAN /\ {"Timeout", "ServiceUnavailable"} \subseteq Failures
      BY DEF RaceInv, Record, Failures
    <3> QED BY <2>2, <3>1, PolicyKeeps DEF SendTimesOut, SendAborted, fileVars
  <2>3. CASE PortConnect \/ SetReadyGeneration
    BY <1>1, <2>3 DEF PortConnect, SetReadyGeneration, fileVars
  <2> QED BY <1>2, <2>1, <2>2, <2>3, EvaluateKeeps, DecideKeeps, DecideTooLateKeeps,
             DisconnectKeeps DEF Driver
<1>3. CASE File
  <2>1. CASE WriteLands \/ UntrackedWrite
    BY <1>1, <2>1 DEF WriteLands, UntrackedWrite
  <2> QED BY <1>3, <2>1, PreWriteKeeps, ContextRebuiltKeeps DEF File
<1>4. CASE Service
  BY <1>1, <1>4 DEF Service, ReplaceEngine, ReplaceIndex, PublishGeneration, ChangeSettings, fileVars
<1>5. ASSUME NEW r \in Requests, Receive(r) PROVE RaceInv'
  <2>1. {"Block", "Allow"} \subseteq Answers /\ UNCHANGED ctxGen
    BY <1>5 DEF Answers, Receive, fileVars
  <2> QED BY <1>1, <1>5, <2>1, ReplyKeeps DEF Receive
<1>6. ASSUME NEW w \in Workers, WorkerStep(w) PROVE RaceInv'
  <2>1. CASE Take(w) \/ CloneEngine(w) \/ OpenFails(w) \/ ReadKey(w) \/ Lookup(w) \/ BeginScan(w) \/ FinishScan(w)
    BY <1>1, <2>1 DEF Take, CloneEngine, OpenFails, ReadKey, Lookup, BeginScan, FinishScan, fileVars
  <2>2. CASE ScreenedOut(w) \/ SendVerdict(w)
    <3>1. PICK v \in Answers : Reply(worker[w].item[1], v)
      BY <2>2 DEF ScreenedOut, SendVerdict, Answers
    <3>2. UNCHANGED ctxGen
      BY <2>2 DEF ScreenedOut, SendVerdict, fileVars
    <3>3. CASE worker[w].item[1] \in Requests
      BY <3>1, <3>2, <3>3, ReplyKeeps
    <3>4. CASE worker[w].item[1] \notin Requests
      BY <1>1, <3>1, <3>2, <3>4 DEF Reply, RaceInv
    <3> QED BY <3>3, <3>4
  <2> QED BY <1>6, <2>1, <2>2 DEF WorkerStep
<1>7. CASE UNCHANGED vars
  BY <1>1, <1>7 DEF vars
<1> QED BY <1>2, <1>3, <1>4, <1>5, <1>6, <1>7 DEF Next

\* BlackshardEvaluateOpenedObject never judges an image load by a verdict that a
\* tracked write overtook.
THEOREM RaceSafety == Spec => []RaceNotJudgedByOldVerdict
<1>1. RaceInv => RaceNotJudgedByOldVerdict
  BY DEF RaceInv, RaceSeen, RaceNotJudgedByOldVerdict
<1> QED BY <1>1, RaceInit, RaceStep, PTL DEF Spec

-----------------------------------------------------------------------------
(* What the cache's list operations can hold and answer.                   *)

\* Taking the entry at one place out of the list adds no other.
LEMMA RemoveKeeps ==
  ASSUME NEW S, NEW l \in Seq(S), NEW i \in DOMAIN l
  PROVE  Lru!RemoveAt(l, i) \in Seq(S)
<1>1. Len(l) \in Nat /\ i \in 1..Len(l) /\ \A j \in 1..Len(l) : l[j] \in S
  OBVIOUS
<1>2. SubSeq(l, 1, i - 1) \in Seq(S)
  BY <1>1, SubSeqProperties
<1>3. SubSeq(l, i + 1, Len(l)) \in Seq(S)
  BY <1>1, SubSeqProperties
<1> QED BY <1>2, <1>3, ConcatProperties DEF Lru!RemoveAt

\* The place of a key that is held is one of the list's.
LEMMA PlaceFacts ==
  ASSUME NEW l, NEW k, Lru!Holds(l, k)
  PROVE  Lru!Place(l, k) \in DOMAIN l /\ l[Lru!Place(l, k)].key = k
BY DEF Lru!Holds, Lru!Place

\* A lookup keeps a list of sound entries sound.
LEMMA GetKeeps ==
  ASSUME NEW S, NEW l \in Seq(S), NEW k, NEW g
  PROVE  Lru!AfterGet(l, k, g) \in Seq(S)
<1>1. CASE ~Lru!Holds(l, k)
  BY <1>1 DEF Lru!AfterGet
<1>2. CASE Lru!Holds(l, k)
  <2>1. Lru!Place(l, k) \in DOMAIN l /\ Lru!EntryOf(l, k) \in S
    BY <1>2, PlaceFacts DEF Lru!EntryOf
  <2>2. Lru!Without(l, k) \in Seq(S)
    BY <2>1, RemoveKeeps DEF Lru!Without
  <2>3. Append(Lru!Without(l, k), Lru!EntryOf(l, k)) \in Seq(S)
    BY <2>1, <2>2
  <2> QED BY <1>2, <2>2, <2>3 DEF Lru!AfterGet
<1> QED BY <1>1, <1>2

\* What a lookup answers with is an entry of the list, under the key and the
\* generation that were asked for.
LEMMA AnswerFacts ==
  ASSUME NEW S, NEW l \in Seq(S), NEW k, NEW g, Lru!AnswerOf(l, k, g) # {}
  PROVE  \E e \in S : Lru!AnswerOf(l, k, g) = {e} /\ e.key = k /\ e.gen = g
<1>1. Lru!Holds(l, k) /\ Lru!Fresh(Lru!EntryOf(l, k), g)
      /\ Lru!AnswerOf(l, k, g) = {Lru!EntryOf(l, k)}
  BY DEF Lru!AnswerOf
<1>2. Lru!EntryOf(l, k) \in S /\ Lru!EntryOf(l, k).key = k
  BY <1>1, PlaceFacts DEF Lru!EntryOf
<1> QED BY <1>1, <1>2 DEF Lru!Fresh

\* So does an insertion, if what may be stored is sound.
LEMMA InsertKeeps ==
  ASSUME NEW S, NEW l \in Seq(S), NEW e,
         e.report \in {r \in ReportSet : r.verdict \in {"Clean", "Malicious"}} => e \in S
  PROVE  Lru!AfterInsert(l, e) \in Seq(S)
<1>1. CASE e.report \notin {r \in ReportSet : r.verdict \in {"Clean", "Malicious"}}
  BY <1>1 DEF Lru!AfterInsert
<1>2. CASE e.report \in {r \in ReportSet : r.verdict \in {"Clean", "Malicious"}}
  <2>1. Lru!Holds(l, e.key) => Lru!Without(l, e.key) \in Seq(S)
    BY PlaceFacts, RemoveKeeps DEF Lru!Without
  <2>2. Len(l) >= CacheCapacity => Tail(l) \in Seq(S)
    <3>1. CacheCapacity \in Nat /\ CacheCapacity # 0
      BY RealtimeAssumption
    <3>2. Len(l) \in Nat
      OBVIOUS
    <3>3. Len(l) # 0 => Tail(l) \in Seq(S)
      OBVIOUS
    <3> QED BY <3>1, <3>2, <3>3
  <2> DEFINE kept == IF Lru!Holds(l, e.key) THEN Lru!Without(l, e.key)
                     ELSE IF Len(l) >= CacheCapacity THEN Tail(l) ELSE l
  <2>3. kept \in Seq(S)
    BY <2>1, <2>2
  <2>4. Lru!AfterInsert(l, e) = Append(kept, e)
    BY <1>2 DEF Lru!AfterInsert
  <2> HIDE DEF kept
  <2> QED BY <1>2, <2>3, <2>4
<1> QED BY <1>1, <1>2
-----------------------------------------------------------------------------
(* The cache: what an entry may say, and what a worker carries between      *)
(* reading its key and offering its result.                                 *)

KeyShape == [gen : Nat, change : Nat]
ReportShape == [verdict : {"None", "Clean", "Malicious", "Error"}, engine : Nat, index : Nat, content : Nat]
WorkerShape == [pc : {"recv", "screen", "open", "lookup", "scan", "reading", "reply"},
                item : Seq(Requests), engine : Nat, gen : Nat, key : KeyShape, before : Nat,
                start : Nat, seen : Nat, hit : BOOLEAN, report : ReportShape]

\* The change time of a worker's key, if there is one, is no newer than the file's,
\* nor than that of any content it can read, and its generation was published.
WorkerSound(q, c, g) ==
  /\ q.pc # "recv" => Len(q.item) = 1
  /\ q.gen <= g
  /\ q.pc = "lookup" /\ q.key.change # Unreadable => q.key.change = ChangeTime(q.seen)
  /\ q.pc = "reading" => q.key.change <= ChangeTime(q.start) /\ q.start <= c
  /\ q.pc \in {"lookup", "scan"} => q.key.change <= ChangeTime(c)
  /\ q.pc # "reply" => q.hit = FALSE
  /\ (q.pc = "reply" /\ q.hit = TRUE /\ q.key.change # Unreadable)
     => q.report.content >= q.seen

\* An entry's verdict is about the content its key names or a later one, and one
\* stored under the generation in force reflects the index in force, unless that
\* is being replaced.
SoundEntries(g, i, s) ==
  {e \in [key : KeyShape, report : ReportShape, gen : Nat, aged : BOOLEAN] :
     /\ ChangeTime(e.report.content) >= e.key.change
     /\ e.gen <= g
     /\ (e.gen = g /\ s # "index") => e.report.index = i}

CacheInv ==
  /\ content \in Nat /\ engine \in Nat /\ index \in Nat /\ generation \in Nat
  /\ inbox \subseteq Requests /\ queue \in Seq(Requests)
  /\ worker \in [Workers -> WorkerShape]
  /\ \A w \in Workers : WorkerSound(worker[w], content, generation)
  /\ cache \in Seq(SoundEntries(generation, index, swapping))

\* Nothing is cached or under way when the service starts.
LEMMA CacheInit == Init => CacheInv
<1> SUFFICES ASSUME Init PROVE CacheInv
  OBVIOUS
<1>1. content = 0 /\ engine = 1 /\ index = 1 /\ generation = 1 /\ inbox = {} /\ queue = << >>
      /\ cache = << >> /\ worker = [w \in Workers |-> IdleWorker]
  BY DEF Init
<1>2. << >> \in Seq(Requests) /\ << >> \in Seq(SoundEntries(generation, index, swapping))
  OBVIOUS
<1>3. IdleWorker \in WorkerShape
  BY <1>2 DEF IdleWorker, WorkerShape, NoKey, NoReport, Report, KeyShape, ReportShape, Unreadable
<1>4. WorkerSound(IdleWorker, 0, 1)
  BY DEF WorkerSound, IdleWorker
<1>5. content \in Nat /\ engine \in Nat /\ index \in Nat /\ generation \in Nat
  BY <1>1
<1>6. worker \in [Workers -> WorkerShape]
      /\ \A w \in Workers : WorkerSound(worker[w], content, generation)
  BY <1>1, <1>3, <1>4
<1> QED BY <1>1, <1>2, <1>5, <1>6 DEF CacheInv

\* A list keeps its length and its order when more is allowed in it.
LEMMA WiderSeq ==
  ASSUME NEW A, NEW B, A \subseteq B, NEW l \in Seq(A)
  PROVE  l \in Seq(B)
OBVIOUS

\* Writes and new generations only move forward, which no worker minds.
LEMMA WorkerMonotone ==
  ASSUME NEW q \in WorkerShape, NEW c \in Nat, NEW d \in Nat, NEW g \in Nat, NEW h \in Nat,
         WorkerSound(q, c, g), c <= d, g <= h
  PROVE  WorkerSound(q, d, h)
BY DEF WorkerSound, WorkerShape, KeyShape, ChangeTime

\* A step of one worker.
LEMMA OneWorker ==
  ASSUME CacheInv, NEW w \in Workers, NEW q \in WorkerShape, WorkerSound(q, content, generation),
         worker' = [worker EXCEPT ![w] = q], UNCHANGED <<content, serviceVars, inbox>>,
         queue' \in Seq(Requests), cache' \in Seq(SoundEntries(generation, index, swapping))
  PROVE  CacheInv'
<1>1. worker' \in [Workers -> WorkerShape]
  BY DEF CacheInv
<1>2. \A x \in Workers : WorkerSound(worker'[x], content, generation)
  BY DEF CacheInv
<1> QED BY <1>1, <1>2 DEF CacheInv, serviceVars

\* What the invariant says of one worker.
LEMMA WorkerFacts ==
  ASSUME CacheInv, NEW w \in Workers
  PROVE  /\ worker[w] \in WorkerShape /\ WorkerSound(worker[w], content, generation)
         /\ content \in Nat /\ generation \in Nat /\ index \in Nat /\ engine \in Nat
BY DEF CacheInv

\* A worker takes the head of a queue that is not empty.
LEMMA TakeKeepsCache ==
  ASSUME CacheInv, NEW w \in Workers, Take(w)
  PROVE  CacheInv'
<1> DEFINE q == [worker[w] EXCEPT !.pc = "screen", !.item = <<Head(queue)>>]
<1>1. queue \in Seq(Requests) /\ Len(queue) # 0
  BY DEF CacheInv, Take
<1>2. Head(queue) \in Requests /\ Tail(queue) \in Seq(Requests)
  BY <1>1
<1>3. <<Head(queue)>> \in Seq(Requests) /\ Len(<<Head(queue)>>) = 1
  BY <1>2
<1>4. worker' = [worker EXCEPT ![w] = q] /\ queue' = Tail(queue) /\ worker[w].pc = "recv"
  BY DEF Take, CacheInv
<1>5. /\ q \in WorkerShape /\ q.pc = "screen" /\ q.item = <<Head(queue)>> /\ q.gen = worker[w].gen
      /\ q.hit = worker[w].hit
  BY <1>3, WorkerFacts DEF WorkerShape
<1>6. WorkerSound(q, content, generation)
  BY <1>3, <1>4, <1>5, WorkerFacts DEF WorkerSound
<1> HIDE DEF q
<1> QED BY <1>2, <1>4, <1>5, <1>6, OneWorker DEF Take, fileVars, CacheInv

\* A worker that has answered starts over.
LEMMA RestKeepsCache ==
  ASSUME CacheInv, NEW w \in Workers, worker' = [worker EXCEPT ![w] = IdleWorker],
         UNCHANGED <<content, serviceVars, inbox, queue, cache>>
  PROVE  CacheInv'
<1>1. << >> \in Seq(Requests)
  OBVIOUS
<1>2. IdleWorker \in WorkerShape
  BY <1>1 DEF IdleWorker, WorkerShape, NoKey, NoReport, Report, KeyShape, ReportShape,
              Unreadable
<1>3. generation \in Nat
  BY DEF CacheInv
<1>4. IdleWorker.pc = "recv" /\ IdleWorker.gen = 0 /\ IdleWorker.hit = FALSE
  BY DEF IdleWorker
<1>5. WorkerSound(IdleWorker, content, generation)
  BY <1>3, <1>4 DEF WorkerSound
<1> QED BY <1>2, <1>5, OneWorker DEF CacheInv

\* Taking the engine changes nothing that the cache depends on.
LEMMA CloneKeepsCache ==
  ASSUME CacheInv, NEW w \in Workers, CloneEngine(w)
  PROVE  CacheInv'
<1> DEFINE q == [worker[w] EXCEPT !.pc = "open", !.engine = engine]
<1>1. worker' = [worker EXCEPT ![w] = q] /\ worker[w].pc = "screen"
  BY DEF CloneEngine, CacheInv
<1>2. /\ q \in WorkerShape /\ q.pc = "open" /\ q.item = worker[w].item /\ q.gen = worker[w].gen
      /\ q.hit = worker[w].hit
  BY WorkerFacts DEF WorkerShape
<1>3. WorkerSound(q, content, generation)
  BY <1>1, <1>2, WorkerFacts DEF WorkerSound
<1> HIDE DEF q
<1> QED BY <1>1, <1>2, <1>3, OneWorker DEF CloneEngine, fileVars, CacheInv

\* A file that does not open leaves the cache alone.
LEMMA OpenFailsKeepsCache ==
  ASSUME CacheInv, NEW w \in Workers, OpenFails(w)
  PROVE  CacheInv'
<1> DEFINE r == Report("Error", 0, 0, 0)
           q == [worker[w] EXCEPT !.pc = "reply", !.report = r]
<1>1. worker' = [worker EXCEPT ![w] = q] /\ worker[w].pc = "open"
  BY DEF OpenFails, CacheInv
<1>2. r \in ReportShape
  BY DEF Report, ReportShape
<1> HIDE DEF r
<1>3. /\ q \in WorkerShape /\ q.pc = "reply" /\ q.item = worker[w].item /\ q.gen = worker[w].gen
      /\ q.hit = worker[w].hit
  BY <1>2, WorkerFacts DEF WorkerShape
<1>4. WorkerSound(q, content, generation)
  BY <1>1, <1>3, WorkerFacts DEF WorkerSound
<1> HIDE DEF q
<1> QED BY <1>1, <1>3, <1>4, OneWorker DEF OpenFails, fileVars, CacheInv

\* A change time that can be read is the content's.
LEMMA TimeFacts ==
  ASSUME NEW c \in Nat, NEW t \in ChangeTimes(c)
  PROVE  t \in Nat /\ t <= ChangeTime(c) /\ (t # Unreadable => t = ChangeTime(c))
BY DEF ChangeTimes, ChangeTime, Unreadable

\* The key names the content the file has as it is read, or none.
LEMMA ReadKeyKeepsCache ==
  ASSUME CacheInv, RaceInv, NEW w \in Workers, ReadKey(w)
  PROVE  CacheInv'
<1>1. PICK time \in ChangeTimes(content) :
        worker' = [worker EXCEPT ![w].pc = "lookup", ![w].key = KeyWith(w, time), ![w].seen = content]
  BY DEF ReadKey
<1> DEFINE k == KeyWith(w, time)
           q == [worker[w] EXCEPT !.pc = "lookup", !.key = k, !.seen = content]
<1>2. worker' = [worker EXCEPT ![w] = q] /\ worker[w].pc = "open"
  BY <1>1 DEF ReadKey, CacheInv
<1>3. worker[w].item \in Seq(Requests) /\ Len(worker[w].item) = 1
  BY <1>2, WorkerFacts DEF WorkerSound, WorkerShape
<1>4. worker[w].item[1] \in Requests
  BY <1>3
<1>5. req[worker[w].item[1]].gen \in Nat
  BY <1>4 DEF RaceInv, RaceSeen
<1>6. content \in Nat
  BY WorkerFacts
<1>7. time \in Nat /\ time <= ChangeTime(content) /\ (time # Unreadable => time = ChangeTime(content))
  BY <1>6, TimeFacts
<1>8. k \in KeyShape /\ k.change = time
  BY <1>5, <1>7 DEF KeyWith, KeyShape
<1> HIDE DEF k
<1>9. /\ q \in WorkerShape /\ q.pc = "lookup" /\ q.item = worker[w].item /\ q.gen = worker[w].gen
      /\ q.hit = worker[w].hit /\ q.key = k /\ q.seen = content
  BY <1>6, <1>8, WorkerFacts DEF WorkerShape
<1> HIDE DEF q
<1>10. worker[w].gen <= generation /\ worker[w].hit = FALSE
  BY <1>2, WorkerFacts DEF WorkerSound
<1>11. WorkerSound(q, content, generation)
  BY <1>3, <1>7, <1>8, <1>9, <1>10 DEF WorkerSound
<1> QED BY <1>2, <1>9, <1>11, OneWorker DEF ReadKey, fileVars, CacheInv

\* A hit is about the content of the key or a later one; a miss scans under the
\* generation that was just read.
LEMMA LookupKeepsCache ==
  ASSUME CacheInv, NEW w \in Workers, Lookup(w)
  PROVE  CacheInv'
<1> DEFINE S == SoundEntries(generation, index, swapping)
           k == worker[w].key
           hit == Lru!AnswerOf(cache, k, generation)
           r == IF hit = {} THEN NoReport ELSE (CHOOSE e \in hit : TRUE).report
           p == IF hit = {} THEN "scan" ELSE "reply"
           q == [worker[w] EXCEPT !.pc = p, !.gen = generation, !.hit = hit # {}, !.report = r]
<1>1. worker' = [worker EXCEPT ![w] = q] /\ worker[w].pc = "lookup"
      /\ cache' = Lru!AfterGet(cache, k, generation)
  BY DEF Lookup, CacheInv
<1>2. cache \in Seq(S)
  BY DEF CacheInv
<1>3. cache' \in Seq(S)
  BY <1>1, <1>2, GetKeeps
<1>4. WorkerSound(worker[w], content, generation) /\ generation \in Nat
  BY WorkerFacts
<1>5. /\ Len(worker[w].item) = 1 /\ worker[w].key.change <= ChangeTime(content)
      /\ worker[w].key.change # Unreadable => worker[w].key.change = ChangeTime(worker[w].seen)
  BY <1>1, <1>4 DEF WorkerSound
<1>6. CASE hit = {}
  <2>1. r \in ReportShape
    BY <1>6 DEF NoReport, Report, ReportShape
  <2>2. p = "scan" /\ (hit # {}) = FALSE
    BY <1>6
  <2> HIDE DEF r, p, hit
  <2>3. /\ q \in WorkerShape /\ q.pc = "scan" /\ q.item = worker[w].item /\ q.gen = generation
        /\ q.hit = FALSE /\ q.key = worker[w].key
    BY <2>1, <2>2, WorkerFacts DEF WorkerShape
  <2> HIDE DEF q
  <2>4. WorkerSound(q, content, generation)
    BY <1>1, <1>4, <1>5, <2>3 DEF WorkerSound
  <2> QED BY <1>1, <1>3, <2>3, <2>4, OneWorker DEF Lookup, fileVars, CacheInv
<1>7. CASE hit # {}
  <2>1. PICK e \in S : hit = {e} /\ e.key = k /\ e.gen = generation
    BY <1>2, <1>7, AnswerFacts
  <2>2. r = e.report
    BY <1>7, <2>1
  <2>3. e.report \in ReportShape /\ ChangeTime(e.report.content) >= k.change
    BY <2>1 DEF SoundEntries
  <2>4. p = "reply" /\ (hit # {}) = TRUE
    BY <1>7
  <2> HIDE DEF r, p, hit
  <2>5. /\ q \in WorkerShape /\ q.pc = "reply" /\ q.item = worker[w].item /\ q.gen = generation
        /\ q.report = e.report /\ q.seen = worker[w].seen /\ q.key = k
    BY <2>2, <2>3, <2>4, WorkerFacts DEF WorkerShape
  <2> HIDE DEF q
  <2>6. k.change # Unreadable => e.report.content >= worker[w].seen
    <3>1. e.report.content \in Nat /\ worker[w].seen \in Nat
      BY <2>3, WorkerFacts DEF WorkerShape, ReportShape
    <3>2. k.change # Unreadable => k.change = worker[w].seen + 1
      BY <1>5 DEF ChangeTime
    <3>3. e.report.content + 1 >= k.change
      BY <2>3 DEF ChangeTime
    <3> QED BY <3>1, <3>2, <3>3
  <2>7. WorkerSound(q, content, generation)
    BY <1>1, <1>4, <1>5, <2>5, <2>6 DEF WorkerSound
  <2> QED BY <1>1, <1>3, <2>5, <2>7, OneWorker DEF Lookup, fileVars, CacheInv
<1> QED BY <1>6, <1>7

\* A scan begins on content no older than its key.
LEMMA BeginScanKeepsCache ==
  ASSUME CacheInv, NEW w \in Workers, BeginScan(w)
  PROVE  CacheInv'
<1>1. PICK time \in ChangeTimes(content) :
        worker' = [worker EXCEPT ![w].pc = "reading", ![w].before = time, ![w].start = content]
  BY DEF BeginScan
<1> DEFINE q == [worker[w] EXCEPT !.pc = "reading", !.before = time, !.start = content]
<1>2. worker' = [worker EXCEPT ![w] = q] /\ worker[w].pc = "scan"
  BY <1>1 DEF BeginScan, CacheInv
<1>3. content \in Nat /\ time \in Nat
  BY WorkerFacts, TimeFacts
<1>4. /\ q \in WorkerShape /\ q.pc = "reading" /\ q.item = worker[w].item /\ q.gen = worker[w].gen
      /\ q.hit = worker[w].hit /\ q.key = worker[w].key /\ q.start = content
  BY <1>3, WorkerFacts DEF WorkerShape
<1> HIDE DEF q
<1>5. WorkerSound(worker[w], content, generation)
  BY WorkerFacts
<1>6. WorkerSound(q, content, generation)
  BY <1>2, <1>3, <1>4, <1>5 DEF WorkerSound
<1> QED BY <1>2, <1>4, <1>6, OneWorker DEF BeginScan, fileVars, CacheInv

\* What a scan brings was reached on a content the file has had since it began,
\* and with the index in force.
LEMMA ScanFacts ==
  ASSUME NEW w \in Workers, NEW r \in ScanResults(w), content \in Nat, index \in Nat,
         worker[w] \in WorkerShape
  PROVE  /\ r \in ReportShape
         /\ r.verdict # "Error" => r.index = index /\ r.content >= worker[w].start
<1>1. CASE r = ErrorReport
  BY <1>1 DEF ErrorReport, Report, ReportShape
<1>2. CASE \E c \in worker[w].start..content : r = Read(worker[w].engine, c)
  <2>1. PICK c \in worker[w].start..content : r = Read(worker[w].engine, c)
    BY <1>2
  <2>2. worker[w].start \in Nat /\ worker[w].engine \in Nat
    BY DEF WorkerShape
  <2>3. c \in Nat /\ c >= worker[w].start
    BY <2>1, <2>2
  <2> QED BY <2>1, <2>2, <2>3 DEF Read, Report, ReportShape
<1> QED BY <1>1, <1>2 DEF ScanResults

\* What a scan offers to the cache is sound.
LEMMA FinishScanKeepsCache ==
  ASSUME CacheInv, NEW w \in Workers, FinishScan(w)
  PROVE  CacheInv'
<1>1. PICK r \in ScanResults(w) :
        /\ worker' = [worker EXCEPT ![w].pc = "reply", ![w].report = r]
        /\ cache' = Lru!AfterInsert(cache, [key |-> worker[w].key, report |-> r,
                                            gen |-> worker[w].gen, aged |-> FALSE])
  BY DEF FinishScan
<1> DEFINE S == SoundEntries(generation, index, swapping)
           e == [key |-> worker[w].key, report |-> r, gen |-> worker[w].gen, aged |-> FALSE]
           q == [worker[w] EXCEPT !.pc = "reply", !.report = r]
<1>2. worker' = [worker EXCEPT ![w] = q] /\ worker[w].pc = "reading"
      /\ cache' = Lru!AfterInsert(cache, e)
  BY <1>1 DEF FinishScan, CacheInv
<1>3. WorkerSound(worker[w], content, generation) /\ worker[w] \in WorkerShape
  BY WorkerFacts
<1>4. content \in Nat /\ index \in Nat
  BY WorkerFacts
<1>5. /\ r \in ReportShape
      /\ r.verdict # "Error" => r.index = index /\ r.content >= worker[w].start
  BY <1>3, <1>4, ScanFacts
<1>6. /\ e \in [key : KeyShape, report : ReportShape, gen : Nat, aged : BOOLEAN]
      /\ e.key = worker[w].key /\ e.report = r /\ e.gen = worker[w].gen
  BY <1>3, <1>5 DEF WorkerShape
<1>7. /\ q \in WorkerShape /\ q.pc = "reply" /\ q.item = worker[w].item /\ q.gen = worker[w].gen
      /\ q.hit = worker[w].hit
  BY <1>3, <1>5 DEF WorkerShape
<1> HIDE DEF q, e
<1>8. worker[w].key.change <= ChangeTime(worker[w].start)
  BY <1>2, <1>3 DEF WorkerSound
<1>9. r.verdict # "Error" => ChangeTime(r.content) >= worker[w].key.change
  BY <1>3, <1>5, <1>8 DEF ChangeTime, WorkerShape, KeyShape, ReportShape
<1>10. r.verdict # "Error" => e \in S
  BY <1>3, <1>5, <1>6, <1>9 DEF WorkerSound, SoundEntries
<1>11. cache' \in Seq(S)
  <2>1. cache \in Seq(S)
    BY DEF CacheInv
  <2>2. e.report \in {x \in ReportSet : x.verdict \in {"Clean", "Malicious"}} => e \in S
    BY <1>6, <1>10
  <2> HIDE DEF S
  <2> QED BY <1>2, <2>1, <2>2, InsertKeeps
<1>12. WorkerSound(q, content, generation)
  BY <1>2, <1>3, <1>7 DEF WorkerSound
<1> QED BY <1>2, <1>7, <1>11, <1>12, OneWorker DEF FinishScan, fileVars, CacheInv

\* A step that leaves workers, messages and cache alone and lets the file or the
\* definitions move on, as long as the entries stay sound.
LEMMA WorldMoves ==
  ASSUME CacheInv, UNCHANGED <<inbox, queue, worker, cache>>,
         content' \in Nat, content <= content', generation' \in Nat, generation <= generation',
         index' \in Nat, engine' \in Nat,
         SoundEntries(generation, index, swapping)
           \subseteq SoundEntries(generation', index', swapping')
  PROVE  CacheInv'
<1>1. cache' \in Seq(SoundEntries(generation', index', swapping'))
  BY WiderSeq DEF CacheInv
<1>2. \A w \in Workers : WorkerSound(worker[w], content', generation')
  BY WorkerMonotone DEF CacheInv
<1> QED BY <1>1, <1>2 DEF CacheInv

\* Entries under the old generation outlive a swap without being served.
LEMMA ServiceKeepsCache ==
  ASSUME CacheInv, Service
  PROVE  CacheInv'
<1> DEFINE S == SoundEntries(generation, index, swapping)
<1>1. content \in Nat /\ generation \in Nat /\ index \in Nat /\ engine \in Nat
  BY DEF CacheInv
<1>2. UNCHANGED <<inbox, queue, worker, cache, content>>
  BY DEF Service, ReplaceEngine, ReplaceIndex, PublishGeneration, ChangeSettings, fileVars
<1>3. CASE ReplaceEngine
  <2>1. generation' = generation /\ index' = index /\ swapping = "no" /\ swapping' = "engine"
        /\ engine' = engine + 1
    BY <1>3 DEF ReplaceEngine
  <2>2. S \subseteq SoundEntries(generation', index', swapping')
    BY <2>1 DEF SoundEntries
  <2> QED BY <1>1, <1>2, <2>1, <2>2, WorldMoves
<1>4. CASE ReplaceIndex
  <2>1. generation' = generation /\ index' = index + 1 /\ swapping' = "index" /\ engine' = engine
    BY <1>4 DEF ReplaceIndex
  <2>2. S \subseteq SoundEntries(generation', index', swapping')
    BY <2>1 DEF SoundEntries
  <2> QED BY <1>1, <1>2, <2>1, <2>2, WorldMoves
<1>5. CASE PublishGeneration
  <2>1. generation' = generation + 1 /\ index' = index /\ engine' = engine
    BY <1>5 DEF PublishGeneration
  <2>2. S \subseteq SoundEntries(generation', index', swapping')
    BY <1>1, <2>1 DEF SoundEntries
  <2> QED BY <1>1, <1>2, <2>1, <2>2, WorldMoves
<1>6. CASE ChangeSettings
  <2>1. UNCHANGED <<generation, index, engine, swapping>>
    BY <1>6 DEF ChangeSettings
  <2> QED BY <1>1, <1>2, <2>1, WorldMoves
<1> QED BY <1>3, <1>4, <1>5, <1>6 DEF Service

\* Every step keeps the entries and the workers sound.
LEMMA CacheStep == RaceInv /\ CacheInv /\ [Next]_vars => CacheInv'
<1> SUFFICES ASSUME RaceInv, CacheInv, [Next]_vars PROVE CacheInv'
  OBVIOUS
<1>1. ASSUME UNCHANGED <<worker, queue, cache, serviceVars, content>>, inbox' \subseteq Requests
      PROVE  CacheInv'
  BY <1>1 DEF CacheInv, serviceVars
<1>2. CASE Driver
  <2>1. inbox' \subseteq Requests
    BY <1>2 DEF CacheInv, Driver, Evaluate, EvaluateFails, SendTimesOut, SendAborted, Decide,
                DecideTooLate, PortConnect, PortDisconnect, SetReadyGeneration
  <2>2. UNCHANGED <<worker, queue, cache, serviceVars, content>>
    BY <1>2 DEF Driver, Evaluate, EvaluateFails, SendTimesOut, SendAborted, Decide,
                DecideTooLate, PortConnect, PortDisconnect, SetReadyGeneration, fileVars
  <2> QED BY <1>1, <2>1, <2>2
<1>3. CASE File
  <2>1. UNCHANGED <<inbox, queue, worker, cache, generation, index, engine, swapping>>
        /\ content' \in {content, content + 1}
    BY <1>3 DEF File, PreWrite, WriteLands, UntrackedWrite, ContextRebuilt, serviceVars
  <2>2. content \in Nat /\ generation \in Nat /\ index \in Nat /\ engine \in Nat
    BY DEF CacheInv
  <2>3. content' \in Nat /\ content <= content'
    BY <2>1, <2>2
  <2> QED BY <2>1, <2>2, <2>3, WorldMoves
<1>4. ASSUME NEW r \in Requests, Receive(r) PROVE CacheInv'
  <2>1. inbox' \subseteq Requests /\ UNCHANGED <<worker, cache, serviceVars, content>>
    BY <1>4 DEF CacheInv, Receive, fileVars
  <2>2. queue \in Seq(Requests) /\ (queue' = Append(queue, r) \/ queue' = queue)
    BY <1>4 DEF CacheInv, Receive
  <2>3. queue' \in Seq(Requests)
    BY <2>2
  <2> QED BY <2>1, <2>3 DEF CacheInv, serviceVars
<1>5. ASSUME NEW w \in Workers, WorkerStep(w) PROVE CacheInv'
  <2>1. CASE ScreenedOut(w) \/ SendVerdict(w)
    BY <2>1, RestKeepsCache DEF ScreenedOut, SendVerdict, fileVars
  <2> QED BY <1>5, <2>1, TakeKeepsCache, CloneKeepsCache, OpenFailsKeepsCache, ReadKeyKeepsCache,
             LookupKeepsCache, BeginScanKeepsCache, FinishScanKeepsCache DEF WorkerStep
<1>6. CASE UNCHANGED vars
  <2>1. inbox' \subseteq Requests /\ UNCHANGED <<worker, queue, cache, serviceVars, content>>
    BY <1>6 DEF vars, serviceVars, CacheInv
  <2> QED BY <1>1, <2>1
<1> QED BY <1>2, <1>3, <1>4, <1>5, <1>6, ServiceKeepsCache DEF Next

\* Both invariants hold throughout.
LEMMA CacheAlways == Spec => [](RaceInv /\ CacheInv)
<1>1. RaceInv /\ CacheInv /\ [Next]_vars => (RaceInv /\ CacheInv)'
  BY RaceStep, CacheStep
<1> QED BY <1>1, RaceInit, CacheInit, PTL DEF Spec

\* A verdict the cache serves under a key with a change time was reached on the
\* content the key was read from or on a later one, whatever writes the filter
\* missed and whichever other change times could not be read (VerdictCacheKey's
\* change_time, analyze_open_file's comparison).
THEOREM HitsAreNotOutdated == Spec => []CacheHitNotOutdated
<1>1. CacheInv => CacheHitNotOutdated
  BY DEF CacheInv, WorkerSound, WorkerShape, CacheHitNotOutdated
<1> QED BY <1>1, CacheAlways, PTL

\* An entry the cache would serve reflects the index in force, because
\* definition_generation moves only after replace_native_index.
THEOREM EntriesReflectIndex == Spec => []CachedUnderCurrentIndex
<1>1. CacheInv => CachedUnderCurrentIndex
  BY DEF CacheInv, SoundEntries, CachedUnderCurrentIndex
<1> QED BY <1>1, CacheAlways, PTL

-----------------------------------------------------------------------------
(* The driver's two counters.                                              *)

Passed(q) ==
  q.pc = "done" /\ q.result = "Allow"
  /\ ((q.enforce = TRUE /\ q.how # "Verdict") \/ q.how = "HandleCreated")
Refused(q) == q.pc = "done" /\ q.result = "Block" /\ q.how # "Verdict"

Bypassed == {r \in Requests : Passed(req[r])}
Required == {r \in Requests : Refused(req[r])}

CountInv ==
  /\ counters \in [bypasses : Nat, required : Nat]
  /\ counters.bypasses = Cardinality(Bypassed)
  /\ counters.required = Cardinality(Required)

\* Among finitely many requests, one more or none makes the count one more or none.
LEMMA OneMore ==
  ASSUME NEW S, NEW T, NEW r \in Requests, S \subseteq Requests, r \notin S, NEW b \in BOOLEAN,
         T = IF b THEN S \cup {r} ELSE S
  PROVE  Cardinality(S) \in Nat /\ Cardinality(T) = Cardinality(S) + (IF b THEN 1 ELSE 0)
<1>1. IsFiniteSet(S)
  BY FS_Subset, RealtimeAssumption
<1>2. Cardinality(S) \in Nat
  BY <1>1, FS_CardinalityType
<1>3. Cardinality(S \cup {r}) = Cardinality(S) + 1
  BY <1>1, FS_AddElement
<1> QED BY <1>2, <1>3

\* Requests that are not decided by a step count as they did.
LEMMA NoneDecided ==
  ASSUME CountInv, UNCHANGED counters,
         \A r \in Requests : req'[r] = req[r] \/ (req[r].pc # "done" /\ req'[r].pc # "done")
  PROVE  CountInv'
<1>1. Bypassed' = Bypassed
  BY DEF Bypassed, Passed
<1>2. Required' = Required
  BY DEF Required, Refused
<1> QED BY <1>1, <1>2 DEF CountInv

\* A request is decided once, and counted as it is.
LEMMA OneDecided ==
  ASSUME RaceInv, CountInv, NEW r \in Requests, req[r].pc # "done", NEW q \in Record,
         req' = [req EXCEPT ![r] = q], NEW b \in Nat, NEW d \in Nat,
         b = counters.bypasses + (IF Passed(q) THEN 1 ELSE 0),
         d = counters.required + (IF Refused(q) THEN 1 ELSE 0),
         counters' = [bypasses |-> b, required |-> d]
  PROVE  CountInv'
<1>1. \A x \in Requests : req'[x] = IF x = r THEN q ELSE req[x]
  BY DEF RaceInv
<1>2. /\ Bypassed \subseteq Requests /\ r \notin Bypassed
      /\ Bypassed' = IF Passed(q) THEN Bypassed \cup {r} ELSE Bypassed
  <2>1. Bypassed \subseteq Requests /\ r \notin Bypassed
    BY DEF Bypassed, Passed
  <2>2. ~Passed(req[r])
    BY DEF Passed
  <2> QED BY <1>1, <2>1, <2>2 DEF Bypassed
<1>3. /\ Required \subseteq Requests /\ r \notin Required
      /\ Required' = IF Refused(q) THEN Required \cup {r} ELSE Required
  <2>1. Required \subseteq Requests /\ r \notin Required
    BY DEF Required, Refused
  <2>2. ~Refused(req[r])
    BY DEF Refused
  <2> QED BY <1>1, <2>1, <2>2 DEF Required
<1>4. Passed(q) \in BOOLEAN /\ Refused(q) \in BOOLEAN
  BY DEF Passed, Refused
<1>5. Cardinality(Bypassed') = Cardinality(Bypassed) + (IF Passed(q) THEN 1 ELSE 0)
  BY <1>2, <1>4, OneMore
<1>6. Cardinality(Required') = Cardinality(Required) + (IF Refused(q) THEN 1 ELSE 0)
  BY <1>3, <1>4, OneMore
<1> QED BY <1>5, <1>6 DEF CountInv

\* BlackshardApplyFailurePolicy counts what it lets through and what it denies.
LEMMA PolicyCounts ==
  ASSUME RaceInv, CountInv, NEW r \in Requests, req[r].pc # "done", NEW reason \in Failures,
         NEW e \in BOOLEAN, ApplyFailurePolicy(r, reason, e)
  PROVE  CountInv'
<1> DEFINE fb == FailureBlocks(reason, e)
           a == IF fb THEN "Block" ELSE "Allow"
           q == [req[r] EXCEPT !.pc = "done", !.enforce = e, !.how = reason, !.result = a]
           b == IF e /\ ~fb THEN counters.bypasses + 1 ELSE counters.bypasses
           d == IF fb THEN counters.required + 1 ELSE counters.required
<1>1. req' = [req EXCEPT ![r] = q] /\ counters \in [bypasses : Nat, required : Nat]
  BY DEF ApplyFailurePolicy, RaceInv, CountInv
<1>2. counters' = [bypasses |-> b, required |-> d]
  BY <1>1 DEF ApplyFailurePolicy
<1>3. fb \in BOOLEAN /\ (fb => e = TRUE)
  BY DEF FailureBlocks
<1>4. reason # "Verdict" /\ reason # "HandleCreated"
  BY DEF Failures
<1>5. a \in Answers /\ req[r] \in Record
  BY DEF Answers, RaceInv
<1>6. q \in Record /\ q.pc = "done" /\ q.enforce = e /\ q.how = reason /\ q.result = a
  BY <1>5 DEF Record
<1> HIDE DEF fb, q
<1>7. Passed(q) <=> (e = TRUE /\ ~fb)
  BY <1>3, <1>4, <1>6 DEF Passed
<1>8. Refused(q) <=> fb
  BY <1>3, <1>4, <1>6 DEF Refused
<1>9. b \in Nat /\ b = counters.bypasses + (IF Passed(q) THEN 1 ELSE 0)
  BY <1>1, <1>7
<1>10. d \in Nat /\ d = counters.required + (IF Refused(q) THEN 1 ELSE 0)
  BY <1>1, <1>8
<1> HIDE DEF a, b, d
<1> QED BY <1>1, <1>2, <1>6, <1>9, <1>10, OneDecided

\* A verdict is neither; a race is the policy's.
LEMMA DecideCounts ==
  ASSUME RaceInv, CountInv, NEW r \in Requests, Decide(r)
  PROVE  CountInv'
<1>1. req[r].pc = "replied" /\ req[r] \in Record
  BY DEF Decide, RaceInv
<1>2. CASE req[r].enforce /\ ctxGen # req[r].gen
  <2>1. ApplyFailurePolicy(r, "ContentRace", TRUE) /\ "ContentRace" \in Failures
    BY <1>2 DEF Decide, Failures
  <2> QED BY <1>1, <2>1, PolicyCounts
<1>3. CASE ~(req[r].enforce /\ ctxGen # req[r].gen)
  <2> DEFINE q == [req[r] EXCEPT !.pc = "done", !.how = "Verdict", !.result = req[r].reply]
  <2>1. req' = [req EXCEPT ![r] = q] /\ counters' = counters
    BY <1>3 DEF Decide, RaceInv
  <2>2. q \in Record /\ q.how = "Verdict"
    BY <1>1 DEF Record
  <2>3. ~Passed(q) /\ ~Refused(q)
    BY <2>2 DEF Passed, Refused
  <2>4. /\ counters.bypasses \in Nat /\ counters.required \in Nat
        /\ counters' = [bypasses |-> counters.bypasses, required |-> counters.required]
    BY <2>1 DEF CountInv
  <2> HIDE DEF q
  <2>5. counters.bypasses = counters.bypasses + (IF Passed(q) THEN 1 ELSE 0)
        /\ counters.required = counters.required + (IF Refused(q) THEN 1 ELSE 0)
    BY <2>3, <2>4
  <2> QED BY <1>1, <2>1, <2>2, <2>4, <2>5, OneDecided
<1> QED BY <1>2, <1>3

\* A denial that comes after the handle exists is counted as a bypass.
LEMMA TooLateCounts ==
  ASSUME RaceInv, CountInv, NEW r \in Requests, DecideTooLate(r)
  PROVE  CountInv'
<1> DEFINE q == [req[r] EXCEPT !.pc = "done", !.how = "HandleCreated", !.result = "Allow"]
<1>1. /\ req' = [req EXCEPT ![r] = q] /\ req[r].pc = "replied" /\ req[r] \in Record
      /\ counters' = [counters EXCEPT !.bypasses = @ + 1]
  BY DEF DecideTooLate, RaceInv
<1>2. q \in Record /\ q.pc = "done" /\ q.how = "HandleCreated" /\ q.result = "Allow"
  BY <1>1 DEF Record, Answers
<1> HIDE DEF q
<1>3. Passed(q) /\ ~Refused(q)
  BY <1>2 DEF Passed, Refused
<1>4. /\ counters.bypasses \in Nat /\ counters.required \in Nat
      /\ counters' = [bypasses |-> counters.bypasses + 1, required |-> counters.required]
  BY <1>1 DEF CountInv
<1>5. /\ counters.bypasses + 1 = counters.bypasses + (IF Passed(q) THEN 1 ELSE 0)
      /\ counters.required = counters.required + (IF Refused(q) THEN 1 ELSE 0)
      /\ counters.bypasses + 1 \in Nat
  BY <1>3, <1>4
<1> QED BY <1>1, <1>2, <1>4, <1>5, OneDecided

\* A reply decides nothing yet.
LEMMA ReplyDecidesNone ==
  ASSUME RaceInv, NEW x, NEW v, Reply(x, v), NEW r \in Requests
  PROVE  req'[r] = req[r] \/ (req[r].pc # "done" /\ req'[r].pc # "done")
<1>1. CASE ~Accepts(x) \/ x # r
  BY <1>1 DEF Reply, RaceInv
<1>2. CASE Accepts(x) /\ x = r
  <2>1. req[r].pc = "sent" /\ req[r] \in Record
    BY <1>2 DEF Accepts, RaceInv
  <2>2. req'[r] = [req[r] EXCEPT !.pc = "replied", !.reply = v]
    BY <1>2 DEF Reply, RaceInv
  <2>3. req'[r].pc = "replied"
    BY <2>1, <2>2 DEF Record
  <2> QED BY <2>1, <2>3
<1> QED BY <1>1, <1>2

\* Nothing is decided when the filter is loaded.
LEMMA CountInit == Init => CountInv
<1> SUFFICES ASSUME Init PROVE CountInv
  OBVIOUS
<1>1. Bypassed = {} /\ Required = {}
  BY DEF Init, Bypassed, Required, Passed, Refused
<1>2. counters = [bypasses |-> 0, required |-> 0]
  BY DEF Init
<1> QED BY <1>1, <1>2, FS_EmptySet DEF CountInv

\* Every step counts what it decides.
LEMMA CountStep == RaceInv /\ CountInv /\ [Next]_vars => CountInv'
<1> SUFFICES ASSUME RaceInv, CountInv, [Next]_vars PROVE CountInv'
  OBVIOUS
<1>1. ASSUME UNCHANGED <<counters, req>> PROVE CountInv'
  BY <1>1, NoneDecided
<1>2. CASE Driver
  <2>1. ASSUME NEW r \in Requests, NEW b \in BOOLEAN, Evaluate(r, b) PROVE CountInv'
    <3>1. req[r].pc = "idle" /\ UNCHANGED counters /\ req[r] \in Record
          /\ req' = [req EXCEPT ![r].pc = "sent", ![r].enforce = b, ![r].gen = ctxGen]
      BY <2>1 DEF Evaluate, driverVars, RaceInv
    <3>2. req'[r].pc = "sent"
      BY <3>1 DEF Record, RaceInv
    <3>3. \A x \in Requests : x # r => req'[x] = req[x]
      BY <3>1 DEF RaceInv
    <3> QED BY <3>1, <3>2, <3>3, NoneDecided
  <2>2. ASSUME NEW r \in Requests, NEW b \in BOOLEAN,
               NEW f \in {"ServiceUnavailable", "Unresolved", "PathTooLong"}, EvaluateFails(r, b, f)
        PROVE  CountInv'
    BY <2>2, PolicyCounts DEF EvaluateFails, Failures
  <2>3. ASSUME NEW r \in Requests, SendTimesOut(r) \/ SendAborted(r) PROVE CountInv'
    <3>1. req[r].enforce \in BOOLEAN /\ {"Timeout", "ServiceUnavailable"} \subseteq Failures
      BY DEF RaceInv, Record, Failures
    <3> QED BY <2>3, <3>1, PolicyCounts DEF SendTimesOut, SendAborted
  <2>4. CASE PortConnect \/ SetReadyGeneration
    BY <1>1, <2>4 DEF PortConnect, SetReadyGeneration
  <2>5. CASE PortDisconnect
    <3>1. ASSUME NEW r \in Requests
          PROVE  req'[r] = req[r] \/ (req[r].pc # "done" /\ req'[r].pc # "done")
      <4>1. req[r] \in Record
        BY DEF RaceInv
      <4>2. req'[r] = IF req[r].pc = "sent" THEN [req[r] EXCEPT !.pc = "aborted"] ELSE req[r]
        BY <2>5 DEF PortDisconnect
      <4> QED BY <4>1, <4>2 DEF Record
    <3> QED BY <2>5, <3>1, NoneDecided DEF PortDisconnect
  <2> QED BY <1>2, <2>1, <2>2, <2>3, <2>4, <2>5, DecideCounts, TooLateCounts DEF Driver
<1>3. CASE File
  <2>1. CASE PreWrite
    <3>1. ASSUME NEW r \in Requests
          PROVE  req'[r] = req[r] \/ (req[r].pc # "done" /\ req'[r].pc # "done")
      <4>1. req[r] \in Record
        BY DEF RaceInv
      <4>2. req'[r] = IF Evaluating(r) THEN [req[r] EXCEPT !.raced = TRUE] ELSE req[r]
        BY <2>1 DEF PreWrite
      <4> QED BY <4>1, <4>2 DEF Record, Evaluating
    <3> QED BY <2>1, <3>1, NoneDecided DEF PreWrite, driverVars
  <2>2. CASE WriteLands \/ UntrackedWrite \/ ContextRebuilt
    BY <1>1, <2>2 DEF WriteLands, UntrackedWrite, ContextRebuilt, driverVars
  <2> QED BY <1>3, <2>1, <2>2 DEF File
<1>4. CASE Service
  BY <1>1, <1>4 DEF Service, ReplaceEngine, ReplaceIndex, PublishGeneration, ChangeSettings, driverVars
<1>5. ASSUME NEW r \in Requests, Receive(r) PROVE CountInv'
  <2>1. UNCHANGED counters
    BY <1>5 DEF Receive, driverVars
  <2>2. UNCHANGED req \/ \E v \in Answers : Reply(r, v)
    BY <1>5 DEF Receive, Answers
  <2> QED BY <1>1, <2>1, <2>2, ReplyDecidesNone, NoneDecided
<1>6. ASSUME NEW w \in Workers, WorkerStep(w) PROVE CountInv'
  <2>1. UNCHANGED counters
    BY <1>6 DEF WorkerStep, Take, ScreenedOut, CloneEngine, OpenFails, ReadKey, Lookup, BeginScan,
                FinishScan, SendVerdict, driverVars
  <2>2. UNCHANGED req \/ \E x \in {worker[w].item[1]}, v \in Answers : Reply(x, v)
    BY <1>6 DEF WorkerStep, Take, ScreenedOut, CloneEngine, OpenFails, ReadKey, Lookup, BeginScan,
                FinishScan, SendVerdict, Answers
  <2> QED BY <1>1, <2>1, <2>2, ReplyDecidesNone, NoneDecided
<1>7. CASE UNCHANGED vars
  BY <1>1, <1>7 DEF vars
<1> QED BY <1>2, <1>3, <1>4, <1>5, <1>6, <1>7 DEF Next

\* The health page's two counters tell every image load let through without a
\* verdict, every denied open that could not be revoked, and every denial without
\* a verdict (BlackshardApplyFailurePolicy, BlackshardPostCreate).
THEOREM CountersTellAll == Spec => []BypassesCounted
<1>1. RaceInv /\ CountInv => BypassesCounted
  <2> SUFFICES ASSUME RaceInv, CountInv PROVE BypassesCounted
    OBVIOUS
  <2> DEFINE Let(h) == {r \in Requests : req[r].pc = "done" /\ req[r].result = h}
             B == {r \in Let("Allow") : \/ req[r].enforce /\ req[r].how # "Verdict"
                                        \/ req[r].how = "HandleCreated"}
             D == {r \in Let("Block") : req[r].how # "Verdict"}
  <2>1. \A r \in Requests : req[r].enforce \in BOOLEAN
    BY DEF RaceInv, Record
  <2>2. B = Bypassed
    BY <2>1 DEF Bypassed, Passed
  <2>3. D = Required
    BY DEF Required, Refused
  <2>4. counters.bypasses = Cardinality(B) /\ counters.required = Cardinality(D)
    BY <2>2, <2>3 DEF CountInv
  <2> QED BY <2>4, Zenon DEF BypassesCounted
<1>2. RaceInv /\ CountInv /\ [Next]_vars => (RaceInv /\ CountInv)'
  BY RaceStep, CountStep
<1> QED BY <1>1, <1>2, RaceInit, CountInit, PTL DEF Spec
=============================================================================
