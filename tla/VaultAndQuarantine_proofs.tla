---------------------- MODULE VaultAndQuarantine_proofs ---------------------
(***************************************************************************)
(* The two stores that put a file back.  The vault's undo, its quotas and  *)
(* the account of its bytes, for any number of programs, documents and     *)
(* workers.  Quarantine, for any number of isolations, clients, edits,     *)
(* crashes and requests: a deleted file stays restorable, a record that    *)
(* says Isolated is right, and no other program's file is touched.         *)
(***************************************************************************)
EXTENDS RollbackVault, Quarantine, FiniteSetTheorems, SequenceTheorems, WellFoundedInduction,
        TLAPS

-----------------------------------------------------------------------------
(* Quarantine.                                                             *)

Unrecorded == {"idle", "copy", "publish", "record"}
Committed == {"delete", "cleanup", "rewrite"}

\* The parts of the type invariant the argument needs.
Typed ==
  /\ path \in Nat /\ files \in Nat /\ path <= files
  /\ payload \in [Isolations -> {"none", "tmp", "data"}]
  /\ erased \in [Isolations -> {"no", "asked", "done"}]
  /\ record \in [Isolations -> SUBSET Records]
  /\ q \in [Isolations -> IsolationType]
  /\ client \in [Readers -> ReaderType]
  /\ removedBy \subseteq Isolations /\ autostart \in BOOLEAN /\ edits \in Nat

\* An isolation names no file later than the last one created, and its record is
\* on disk or in a reader's hands only once it has written one.
FileNamed ==
  /\ \A i \in Isolations : q[i].file <= files
  /\ \A i \in Isolations : q[i].pc # "idle" => q[i].file # 0
  /\ \A i \in Isolations : record[i] # {} => q[i].pc \notin Unrecorded
  /\ \A c \in Readers : \A i \in client[c].ids : q[i].pc \notin Unrecorded

\* From the first record on, payload and record are there until they are erased,
\* and only an isolation that got that far has deleted anything.
PayloadKept ==
  /\ \A i \in Isolations : q[i].pc = "record" => payload[i] = "data"
  /\ \A i \in Isolations :
       (q[i].pc \in Committed \/ i \in removedBy) /\ erased[i] = "no" =>
         payload[i] = "data" /\ record[i] # {}
  /\ \A i \in removedBy : q[i].pc \in {"cleanup", "rewrite", "done", "failed"}
  /\ \A c \in Readers : client[c].pc = "write" => client[c].rec # {}

\* Every record that is, or is about to be, written as Isolated is right, or comes
\* of a look that failed; a deletion is by handle, so it never does.
GoneWhenSaid ==
  /\ \A i \in Isolations : \A r \in record[i] :
       r.state = "Isolated" => path # q[i].file \/ i \in misled
  /\ \A i \in Isolations : q[i].deleted = TRUE => q[i].pc # "idle" /\ path # q[i].file
  /\ \A i \in Isolations : q[i].pc = "rewrite" /\ q[i].rec.state = "Isolated" => path # q[i].file
  /\ \A c \in Readers : client[c].pc = "write" =>
       \A i \in client[c].ids : path # q[i].file \/ i \in misled

QuarantineInv == Typed /\ FileNamed /\ PayloadKept /\ GoneWhenSaid

\* The initial state satisfies the invariant.
LEMMA InitInv == QuarantineInit => QuarantineInv
<1> SUFFICES ASSUME QuarantineInit PROVE QuarantineInv
  OBVIOUS
<1>1. Typed
  BY DEF QuarantineInit, Typed, IsolationType, ReaderType, Waiting, Free, Fresh, Records, States
<1>2. FileNamed /\ PayloadKept /\ GoneWhenSaid
  BY DEF QuarantineInit, FileNamed, Unrecorded, PayloadKept, GoneWhenSaid, Committed, Waiting,
     Free
<1> QED BY <1>1, <1>2 DEF QuarantineInv

\* Every step of quarantine_inner keeps it.
LEMMA IsolateKeeps ==
  ASSUME QuarantineInv, NEW i \in Isolations, Isolate(i)
  PROVE  QuarantineInv'
<1> USE DEF fileVars, observers, bounds
<1>1. CASE OpenSource(i)
  <2>1. Typed'
    <3>1. q'[i] \in IsolationType /\ \A j \in Isolations : j # i => q'[j] = q[j]
      BY <1>1 DEF OpenSource, QuarantineInv, Typed, IsolationType
    <3>2. q' \in [Isolations -> IsolationType]
      BY <1>1, <3>1 DEF OpenSource, QuarantineInv, Typed
    <3> QED BY <1>1, <3>2 DEF OpenSource, QuarantineInv, Typed
  <2>2. FileNamed'
    BY <1>1 DEF QuarantineInv, Typed, IsolationType, ReaderType, FileNamed, Unrecorded, OpenSource
  <2>3. PayloadKept'
    BY <1>1 DEF QuarantineInv, Typed, IsolationType, ReaderType, PayloadKept, Committed,
       OpenSource
  <2>4. GoneWhenSaid'
    BY <1>1 DEF QuarantineInv, Typed, IsolationType, ReaderType, FileNamed, Unrecorded,
       GoneWhenSaid, OpenSource
  <2> QED BY <2>1, <2>2, <2>3, <2>4 DEF QuarantineInv
<1>2. CASE CopySource(i)
  <2>1. Typed'
    BY <1>2 DEF QuarantineInv, Typed, IsolationType, ReaderType, CopySource
  <2>2. FileNamed'
    BY <1>2 DEF QuarantineInv, Typed, IsolationType, ReaderType, FileNamed, Unrecorded, CopySource
  <2>3. PayloadKept'
    BY <1>2 DEF QuarantineInv, Typed, IsolationType, ReaderType, PayloadKept, Committed,
       CopySource
  <2>4. GoneWhenSaid'
    BY <1>2 DEF QuarantineInv, Typed, IsolationType, ReaderType, FileNamed, Unrecorded,
       GoneWhenSaid, CopySource
  <2> QED BY <2>1, <2>2, <2>3, <2>4 DEF QuarantineInv
<1>3. CASE PublishPayload(i)
  <2>1. Typed'
    BY <1>3 DEF QuarantineInv, Typed, IsolationType, ReaderType, PublishPayload
  <2>2. FileNamed'
    BY <1>3 DEF QuarantineInv, Typed, IsolationType, ReaderType, FileNamed, Unrecorded,
       PublishPayload
  <2>3. PayloadKept'
    BY <1>3 DEF QuarantineInv, Typed, IsolationType, ReaderType, PayloadKept, Committed,
       PublishPayload
  <2>4. GoneWhenSaid'
    BY <1>3 DEF QuarantineInv, Typed, IsolationType, ReaderType, FileNamed, Unrecorded,
       GoneWhenSaid, PublishPayload
  <2> QED BY <2>1, <2>2, <2>3, <2>4 DEF QuarantineInv
<1>4. CASE WriteFirstRecord(i)
  <2>1. Typed'
    BY <1>4 DEF QuarantineInv, Typed, IsolationType, ReaderType, Records, States, Fresh,
       WriteFirstRecord
  <2>2. FileNamed'
    BY <1>4 DEF QuarantineInv, Typed, IsolationType, ReaderType, Records, FileNamed, Unrecorded,
       WriteFirstRecord
  <2>3. PayloadKept'
    BY <1>4 DEF QuarantineInv, Typed, IsolationType, ReaderType, Records, PayloadKept, Committed,
       Fresh, WriteFirstRecord
  <2>4. GoneWhenSaid'
    BY <1>4 DEF QuarantineInv, Typed, IsolationType, ReaderType, Records, FileNamed, Unrecorded,
       GoneWhenSaid, Fresh, WriteFirstRecord
  <2> QED BY <2>1, <2>2, <2>3, <2>4 DEF QuarantineInv
<1>5. CASE Abort(i)
  <2>1. Typed'
    BY <1>5 DEF QuarantineInv, Typed, IsolationType, ReaderType, Abort
  <2>2. FileNamed'
    BY <1>5 DEF QuarantineInv, Typed, IsolationType, ReaderType, FileNamed, Unrecorded, Abort
  <2>3. PayloadKept'
    BY <1>5 DEF QuarantineInv, Typed, IsolationType, ReaderType, PayloadKept, Committed, Abort
  <2>4. GoneWhenSaid'
    BY <1>5 DEF QuarantineInv, Typed, IsolationType, ReaderType, FileNamed, Unrecorded,
       GoneWhenSaid, Abort
  <2> QED BY <2>1, <2>2, <2>3, <2>4 DEF QuarantineInv
<1>6. CASE DeleteSource(i)
  <2>1. Typed'
    <3>1. q'[i] \in IsolationType /\ \A j \in Isolations : j # i => q'[j] = q[j]
      BY <1>6 DEF DeleteSource, QuarantineInv, Typed, IsolationType
    <3>2. q' \in [Isolations -> IsolationType]
      BY <1>6, <3>1 DEF DeleteSource, QuarantineInv, Typed
    <3> QED BY <1>6, <3>2 DEF DeleteSource, QuarantineInv, Typed
  <2>2. FileNamed'
    BY <1>6 DEF QuarantineInv, Typed, IsolationType, ReaderType, FileNamed, Unrecorded,
       DeleteSource
  <2>3. PayloadKept'
    BY <1>6 DEF QuarantineInv, Typed, IsolationType, ReaderType, PayloadKept, Committed,
       DeleteSource
  <2>4. GoneWhenSaid'
    BY <1>6 DEF QuarantineInv, Typed, IsolationType, ReaderType, FileNamed, Unrecorded,
       GoneWhenSaid, DeleteSource
  <2> QED BY <2>1, <2>2, <2>3, <2>4 DEF QuarantineInv
<1>7. CASE DeleteFails(i)
  <2>1. Typed'
    BY <1>7 DEF QuarantineInv, Typed, IsolationType, ReaderType, DeleteFails
  <2>2. FileNamed'
    BY <1>7 DEF QuarantineInv, Typed, IsolationType, ReaderType, FileNamed, Unrecorded,
       DeleteFails
  <2>3. PayloadKept'
    BY <1>7 DEF QuarantineInv, Typed, IsolationType, ReaderType, PayloadKept, Committed,
       DeleteFails
  <2>4. GoneWhenSaid'
    BY <1>7 DEF QuarantineInv, Typed, IsolationType, ReaderType, FileNamed, Unrecorded,
       GoneWhenSaid, DeleteFails
  <2> QED BY <2>1, <2>2, <2>3, <2>4 DEF QuarantineInv
<1>8. CASE Cleanup(i)
  <2>1. Typed'
    <3>1. PICK s \in States : q' = [q EXCEPT ![i].pc = "rewrite",
                                        ![i].rec = [state |-> s, autostarts |-> autostart]]
      BY <1>8 DEF Cleanup, States
    <3>2. [state |-> s, autostarts |-> autostart] \in Records
      BY DEF QuarantineInv, Typed, Records
    <3>3. q'[i] \in IsolationType /\ \A j \in Isolations : j # i => q'[j] = q[j]
      BY <3>1, <3>2 DEF QuarantineInv, Typed, IsolationType
    <3>4. q' \in [Isolations -> IsolationType]
      BY <3>1, <3>3 DEF QuarantineInv, Typed
    <3> QED BY <1>8, <3>4 DEF Cleanup, QuarantineInv, Typed
  <2>2. FileNamed'
    BY <1>8 DEF QuarantineInv, Typed, IsolationType, ReaderType, Records, FileNamed, Unrecorded,
       Cleanup, LooksGone
  <2>3. PayloadKept'
    BY <1>8 DEF QuarantineInv, Typed, IsolationType, ReaderType, Records, PayloadKept, Committed,
       Cleanup, LooksGone
  <2>4. GoneWhenSaid'
    BY <1>8 DEF QuarantineInv, Typed, IsolationType, ReaderType, Records, FileNamed, Unrecorded,
       GoneWhenSaid, Cleanup, LooksGone
  <2> QED BY <2>1, <2>2, <2>3, <2>4 DEF QuarantineInv
<1>9. CASE RewriteRecord(i)
  <2>1. Typed'
    BY <1>9 DEF QuarantineInv, Typed, IsolationType, ReaderType, Records, States, Fresh,
       RewriteRecord
  <2>2. FileNamed'
    BY <1>9 DEF QuarantineInv, Typed, IsolationType, ReaderType, Records, FileNamed, Unrecorded,
       RewriteRecord
  <2>3. PayloadKept'
    <3>1. \A j \in Isolations : q'[j].pc = IF j = i THEN "done" ELSE q[j].pc
      BY <1>9 DEF RewriteRecord, QuarantineInv, Typed, IsolationType
    <3>2. \A j \in Isolations : record'[j] = {} => record[j] = {}
      BY <1>9 DEF RewriteRecord, QuarantineInv, Typed
    <3>3. UNCHANGED <<payload, removedBy, erased, client>>
      BY <1>9 DEF RewriteRecord
    <3>4. "rewrite" \in Committed /\ "done" \notin Committed
      BY DEF Committed
    <3>5. q[i].pc = "rewrite"
      BY <1>9 DEF RewriteRecord
    <3>6. removedBy \subseteq Isolations
      BY DEF QuarantineInv, Typed
    <3> QED BY <3>1, <3>2, <3>3, <3>4, <3>5, <3>6 DEF QuarantineInv, PayloadKept
  <2>4. GoneWhenSaid'
    BY <1>9 DEF QuarantineInv, Typed, IsolationType, ReaderType, Records, FileNamed, Unrecorded,
       GoneWhenSaid, Fresh, RewriteRecord
  <2> QED BY <2>1, <2>2, <2>3, <2>4 DEF QuarantineInv
<1>10. CASE RewriteSkipped(i)
  <2>1. Typed'
    BY <1>10 DEF QuarantineInv, Typed, IsolationType, ReaderType, RewriteSkipped
  <2>2. FileNamed'
    BY <1>10 DEF QuarantineInv, Typed, IsolationType, ReaderType, FileNamed, Unrecorded,
       RewriteSkipped
  <2>3. PayloadKept'
    BY <1>10 DEF QuarantineInv, Typed, IsolationType, ReaderType, PayloadKept, Committed,
       RewriteSkipped
  <2>4. GoneWhenSaid'
    BY <1>10 DEF QuarantineInv, Typed, IsolationType, ReaderType, FileNamed, Unrecorded,
       GoneWhenSaid, RewriteSkipped
  <2> QED BY <2>1, <2>2, <2>3, <2>4 DEF QuarantineInv
<1> QED BY <1>1, <1>2, <1>3, <1>4, <1>5, <1>6, <1>7, <1>8, <1>9, <1>10 DEF Isolate

\* Every step of list, load, restore and delete keeps it.
LEMMA ServeKeeps ==
  ASSUME QuarantineInv, NEW c \in Readers, Serve(c)
  PROVE  QuarantineInv'
<1> USE DEF fileVars, observers, bounds
<1>1. CASE Settled(c)
  <2>1. Typed'
    <3>1. AfterLoad(c) \in ReaderType
      BY DEF AfterLoad, Free, QuarantineInv, Typed, ReaderType
    <3>2. client' \in [Readers -> ReaderType]
      BY <1>1, <3>1 DEF Settled, QuarantineInv, Typed
    <3>3. record' \in [Isolations -> SUBSET Records]
      BY <1>1 DEF Settled, QuarantineInv, Typed, ReaderType
    <3> QED BY <1>1, <3>2, <3>3 DEF Settled, QuarantineInv, Typed
  <2>2. FileNamed'
    BY <1>1 DEF QuarantineInv, Typed, IsolationType, ReaderType, Records, FileNamed, Unrecorded,
       Settled, AfterLoad, Free, Gone, LooksGone
  <2>3. PayloadKept'
    BY <1>1 DEF QuarantineInv, Typed, IsolationType, ReaderType, Records, PayloadKept, Committed,
       Settled, AfterLoad, Free, Gone, LooksGone
  <2>4. GoneWhenSaid'
    BY <1>1 DEF QuarantineInv, Typed, IsolationType, ReaderType, Records, FileNamed, Unrecorded,
       GoneWhenSaid, Settled, AfterLoad, Free, Gone, LooksGone
  <2> QED BY <2>1, <2>2, <2>3, <2>4 DEF QuarantineInv
<1>2. CASE FoundGone(c)
  <2>1. Typed'
    BY <1>2 DEF QuarantineInv, Typed, IsolationType, ReaderType, Records, States, Fresh,
       FoundGone, AfterLoad, Free, Gone, LooksGone
  <2>2. FileNamed'
    BY <1>2 DEF QuarantineInv, Typed, IsolationType, ReaderType, Records, FileNamed, Unrecorded,
       FoundGone, AfterLoad, Free, Gone, LooksGone
  <2>3. PayloadKept'
    BY <1>2 DEF QuarantineInv, Typed, IsolationType, ReaderType, Records, PayloadKept, Committed,
       Fresh, FoundGone, AfterLoad, Free, Gone, LooksGone
  <2>4. GoneWhenSaid'
    BY <1>2 DEF QuarantineInv, Typed, IsolationType, ReaderType, Records, FileNamed, Unrecorded,
       GoneWhenSaid, Fresh, FoundGone, AfterLoad, Free, Gone, LooksGone
  <2> QED BY <2>1, <2>2, <2>3, <2>4 DEF QuarantineInv
<1>3. CASE Reconcile(c)
  <2>1. Typed'
    <3>1. AfterLoad(c) \in ReaderType
      BY DEF AfterLoad, Free, QuarantineInv, Typed, ReaderType
    <3>2. client' \in [Readers -> ReaderType]
      BY <1>3, <3>1 DEF Reconcile, QuarantineInv, Typed
    <3>3. record' \in [Isolations -> SUBSET Records]
      BY <1>3 DEF Reconcile, QuarantineInv, Typed, ReaderType
    <3> QED BY <1>3, <3>2, <3>3 DEF Reconcile, QuarantineInv, Typed
  <2>2. FileNamed'
    BY <1>3 DEF QuarantineInv, Typed, IsolationType, ReaderType, Records, FileNamed, Unrecorded,
       Reconcile, AfterLoad, Free, Gone
  <2>3. PayloadKept'
    BY <1>3 DEF QuarantineInv, Typed, IsolationType, ReaderType, Records, PayloadKept, Committed,
       Reconcile, AfterLoad, Free, Gone
  <2>4. GoneWhenSaid'
    BY <1>3 DEF QuarantineInv, Typed, IsolationType, ReaderType, Records, FileNamed, Unrecorded,
       GoneWhenSaid, Reconcile, AfterLoad, Free, Gone
  <2> QED BY <2>1, <2>2, <2>3, <2>4 DEF QuarantineInv
<1>4. CASE ReconcileFails(c)
  <2>1. Typed'
    <3>1. AfterLoad(c) \in ReaderType
      BY DEF AfterLoad, Free, QuarantineInv, Typed, ReaderType
    <3>2. client' \in [Readers -> ReaderType]
      BY <1>4, <3>1 DEF ReconcileFails, QuarantineInv, Typed
    <3>3. record' \in [Isolations -> SUBSET Records]
      BY <1>4 DEF ReconcileFails, QuarantineInv, Typed, ReaderType
    <3> QED BY <1>4, <3>2, <3>3 DEF ReconcileFails, QuarantineInv, Typed
  <2>2. FileNamed'
    BY <1>4 DEF QuarantineInv, Typed, IsolationType, ReaderType, Records, FileNamed, Unrecorded,
       ReconcileFails, AfterLoad, Free, Gone
  <2>3. PayloadKept'
    BY <1>4 DEF QuarantineInv, Typed, IsolationType, ReaderType, Records, PayloadKept, Committed,
       ReconcileFails, AfterLoad, Free, Gone
  <2>4. GoneWhenSaid'
    BY <1>4 DEF QuarantineInv, Typed, IsolationType, ReaderType, Records, FileNamed, Unrecorded,
       GoneWhenSaid, ReconcileFails, AfterLoad, Free, Gone
  <2> QED BY <2>1, <2>2, <2>3, <2>4 DEF QuarantineInv
<1>5. CASE RestoreRefused(c)
  <2>1. Typed'
    BY <1>5 DEF QuarantineInv, Typed, IsolationType, ReaderType, RestoreRefused, AfterLoad, Free,
       Gone
  <2>2. FileNamed'
    BY <1>5 DEF QuarantineInv, Typed, IsolationType, ReaderType, FileNamed, Unrecorded,
       RestoreRefused, AfterLoad, Free, Gone
  <2>3. PayloadKept'
    BY <1>5 DEF QuarantineInv, Typed, IsolationType, ReaderType, PayloadKept, Committed,
       RestoreRefused, AfterLoad, Free, Gone
  <2>4. GoneWhenSaid'
    BY <1>5 DEF QuarantineInv, Typed, IsolationType, ReaderType, FileNamed, Unrecorded,
       GoneWhenSaid, RestoreRefused, AfterLoad, Free, Gone
  <2> QED BY <2>1, <2>2, <2>3, <2>4 DEF QuarantineInv
<1>6. ASSUME NEW i \in Isolations, NEW does \in {"list", "restore"}, ReadRecord(c, i, does)
      PROVE  QuarantineInv'
  <2>1. Typed'
    BY <1>6 DEF QuarantineInv, Typed, IsolationType, ReaderType, Records, States, Fresh,
       ReadRecord, Free
  <2>2. FileNamed'
    BY <1>6 DEF QuarantineInv, Typed, IsolationType, ReaderType, Records, FileNamed, Unrecorded,
       ReadRecord, Free
  <2>3. PayloadKept'
    BY <1>6 DEF QuarantineInv, Typed, IsolationType, ReaderType, Records, PayloadKept, Committed,
       Fresh, ReadRecord, Free
  <2>4. GoneWhenSaid'
    BY <1>6 DEF QuarantineInv, Typed, IsolationType, ReaderType, Records, FileNamed, Unrecorded,
       GoneWhenSaid, Fresh, ReadRecord, Free
  <2> QED BY <2>1, <2>2, <2>3, <2>4 DEF QuarantineInv
<1>7. ASSUME NEW i \in Isolations, RestoreCopy(c, i)
      PROVE  QuarantineInv'
  <2>1. Typed'
    BY <1>7 DEF QuarantineInv, Typed, IsolationType, ReaderType, RestoreCopy, Free
  <2>2. FileNamed'
    BY <1>7 DEF QuarantineInv, Typed, IsolationType, ReaderType, FileNamed, Unrecorded,
       RestoreCopy, Free
  <2>3. PayloadKept'
    BY <1>7 DEF QuarantineInv, Typed, IsolationType, ReaderType, PayloadKept, Committed,
       RestoreCopy, Free
  <2>4. GoneWhenSaid'
    BY <1>7 DEF QuarantineInv, Typed, IsolationType, ReaderType, FileNamed, Unrecorded,
       GoneWhenSaid, RestoreCopy, Free
  <2> QED BY <2>1, <2>2, <2>3, <2>4 DEF QuarantineInv
<1>8. ASSUME NEW i \in Isolations, RestoreFails(c, i)
      PROVE  QuarantineInv'
  <2>1. Typed'
    BY <1>8 DEF QuarantineInv, Typed, IsolationType, ReaderType, RestoreFails, Free
  <2>2. FileNamed'
    BY <1>8 DEF QuarantineInv, Typed, IsolationType, ReaderType, FileNamed, Unrecorded,
       RestoreFails, Free
  <2>3. PayloadKept'
    BY <1>8 DEF QuarantineInv, Typed, IsolationType, ReaderType, PayloadKept, Committed,
       RestoreFails, Free
  <2>4. GoneWhenSaid'
    BY <1>8 DEF QuarantineInv, Typed, IsolationType, ReaderType, FileNamed, Unrecorded,
       GoneWhenSaid, RestoreFails, Free
  <2> QED BY <2>1, <2>2, <2>3, <2>4 DEF QuarantineInv
<1>9. ASSUME NEW i \in Isolations, RestorePlace(c, i)
      PROVE  QuarantineInv'
  <2>1. Typed'
    BY <1>9 DEF QuarantineInv, Typed, IsolationType, ReaderType, Records, States, Fresh,
       RestorePlace, Free
  <2>2. FileNamed'
    BY <1>9 DEF QuarantineInv, Typed, IsolationType, ReaderType, Records, FileNamed, Unrecorded,
       RestorePlace, Free
  <2>3. PayloadKept'
    BY <1>9 DEF QuarantineInv, Typed, IsolationType, ReaderType, Records, PayloadKept, Committed,
       Fresh, RestorePlace, Free
  <2>4. GoneWhenSaid'
    BY <1>9 DEF QuarantineInv, Typed, IsolationType, ReaderType, Records, FileNamed, Unrecorded,
       GoneWhenSaid, Fresh, RestorePlace, Free
  <2> QED BY <2>1, <2>2, <2>3, <2>4 DEF QuarantineInv
<1>10. ASSUME NEW i \in Isolations, RestorePlaceFails(c, i)
      PROVE  QuarantineInv'
  <2>1. Typed'
    BY <1>10 DEF QuarantineInv, Typed, IsolationType, ReaderType, Records, States, Fresh,
       RestorePlaceFails, Free
  <2>2. FileNamed'
    BY <1>10 DEF QuarantineInv, Typed, IsolationType, ReaderType, Records, FileNamed, Unrecorded,
       RestorePlaceFails, Free
  <2>3. PayloadKept'
    BY <1>10 DEF QuarantineInv, Typed, IsolationType, ReaderType, Records, PayloadKept, Committed,
       Fresh, RestorePlaceFails, Free
  <2>4. GoneWhenSaid'
    BY <1>10 DEF QuarantineInv, Typed, IsolationType, ReaderType, Records, FileNamed, Unrecorded,
       GoneWhenSaid, Fresh, RestorePlaceFails, Free
  <2> QED BY <2>1, <2>2, <2>3, <2>4 DEF QuarantineInv
<1>11. ASSUME NEW i \in Isolations, DeletePayload(c, i)
      PROVE  QuarantineInv'
  <2>1. Typed'
    BY <1>11 DEF QuarantineInv, Typed, IsolationType, ReaderType, Records, States, Fresh,
       DeletePayload, Free
  <2>2. FileNamed'
    BY <1>11 DEF QuarantineInv, Typed, IsolationType, ReaderType, Records, FileNamed, Unrecorded,
       DeletePayload, Free
  <2>3. PayloadKept'
    <3>1. \A j \in Isolations : j # i => payload'[j] = payload[j] /\ erased'[j] = erased[j]
      BY <1>11 DEF DeletePayload, QuarantineInv, Typed
    <3>2. erased'[i] = "asked" /\ q[i].pc # "record"
      BY <1>11 DEF DeletePayload, QuarantineInv, Typed, FileNamed, Unrecorded, PayloadKept
    <3>3. \A d \in Readers : client'[d].pc = "write" => client'[d].rec # {}
      BY <1>11 DEF DeletePayload, QuarantineInv, Typed, PayloadKept
    <3> QED BY <1>11, <3>1, <3>2, <3>3 DEF DeletePayload, QuarantineInv, Typed, PayloadKept
  <2>4. GoneWhenSaid'
    BY <1>11 DEF QuarantineInv, Typed, IsolationType, ReaderType, Records, FileNamed, Unrecorded,
       GoneWhenSaid, Fresh, DeletePayload, Free
  <2> QED BY <2>1, <2>2, <2>3, <2>4 DEF QuarantineInv
<1>12. ASSUME NEW i \in Isolations, DeleteRecord(c, i)
      PROVE  QuarantineInv'
  <2>1. /\ client' \in [Readers -> ReaderType] /\ client'[c] = Free("idle")
        /\ \A d \in Readers : d # c => client'[d] = client[d]
    BY <1>12 DEF QuarantineInv, Typed, ReaderType, DeleteRecord, Free
  <2>2. /\ \A j \in Isolations : j # i => record'[j] = record[j] /\ erased'[j] = erased[j]
        /\ (record'[i] = {} /\ erased'[i] \in {"asked", "done"}) \/ UNCHANGED <<record, erased>>
    BY <1>12 DEF QuarantineInv, Typed, DeleteRecord
  <2>3. record' \in [Isolations -> SUBSET Records] /\ erased' \in [Isolations -> {"no", "asked", "done"}]
    BY <1>12 DEF QuarantineInv, Typed, DeleteRecord
  <2>4. Typed'
    BY <1>12, <2>1, <2>3 DEF QuarantineInv, Typed, DeleteRecord
  <2>5. FileNamed'
    BY <1>12, <2>1, <2>2 DEF QuarantineInv, FileNamed, DeleteRecord, Free
  <2>6. PayloadKept'
    BY <1>12, <2>1, <2>2 DEF QuarantineInv, Typed, PayloadKept, DeleteRecord, Free
  <2>7. GoneWhenSaid'
    BY <1>12, <2>1, <2>2 DEF QuarantineInv, GoneWhenSaid, DeleteRecord, Free
  <2> QED BY <2>4, <2>5, <2>6, <2>7 DEF QuarantineInv
<1> QED BY <1>1, <1>2, <1>3, <1>4, <1>5, <1>6, <1>7, <1>8, <1>9, <1>10, <1>11, <1>12 DEF Serve

\* What other programs do, and the death of the service, keep it.
LEMMA EnvironmentKeeps ==
  ASSUME QuarantineInv, Edit \/ Crash \/ UNCHANGED quarantineVars
  PROVE  QuarantineInv'
<1> USE DEF fileVars, observers, bounds
<1>1. CASE Edit
  <2>1. Typed'
    BY <1>1 DEF QuarantineInv, Typed, IsolationType, ReaderType, Records, States, Fresh, Edit
  <2>2. FileNamed'
    BY <1>1 DEF QuarantineInv, Typed, IsolationType, ReaderType, Records, FileNamed, Unrecorded,
       Edit
  <2>3. PayloadKept'
    BY <1>1 DEF QuarantineInv, Typed, IsolationType, ReaderType, Records, PayloadKept, Committed,
       Fresh, Edit
  <2>4. GoneWhenSaid'
    BY <1>1 DEF QuarantineInv, Typed, IsolationType, ReaderType, Records, FileNamed, Unrecorded,
       GoneWhenSaid, Fresh, Edit
  <2> QED BY <2>1, <2>2, <2>3, <2>4 DEF QuarantineInv
<1>2. CASE Crash
  <2>1. Typed'
    <3>1. \A j \in Isolations : [q[j] EXCEPT !.pc = "failed"] \in IsolationType
      BY DEF QuarantineInv, Typed, IsolationType
    <3>2. q' \in [Isolations -> IsolationType]
      BY <1>2, <3>1 DEF Crash, QuarantineInv, Typed
    <3>3. Free("idle") \in ReaderType
      BY DEF Free, ReaderType, Records, States
    <3>4. client' \in [Readers -> ReaderType]
      BY <1>2, <3>3 DEF Crash
    <3> QED BY <1>2, <3>2, <3>4 DEF Crash, QuarantineInv, Typed
  <2>2. FileNamed'
    BY <1>2 DEF QuarantineInv, Typed, IsolationType, ReaderType, Records, FileNamed, Unrecorded,
       Crash, Free
  <2>3. PayloadKept'
    <3>1. \A j \in Isolations : q'[j].pc = IF q[j].pc = "idle" THEN "idle" ELSE "failed"
      BY <1>2 DEF Crash, QuarantineInv, Typed, IsolationType
    <3>2. \A c \in Readers : client'[c].pc = "idle"
      BY <1>2 DEF Crash, Free
    <3>3. UNCHANGED <<payload, record, removedBy, erased>>
      BY <1>2 DEF Crash
    <3> QED BY <3>1, <3>2, <3>3 DEF QuarantineInv, Typed, PayloadKept, Committed
  <2>4. GoneWhenSaid'
    BY <1>2 DEF QuarantineInv, Typed, IsolationType, ReaderType, Records, FileNamed, Unrecorded,
       GoneWhenSaid, Fresh, Crash, Free
  <2> QED BY <2>1, <2>2, <2>3, <2>4 DEF QuarantineInv
<1>3. CASE UNCHANGED quarantineVars
  BY <1>3 DEF quarantineVars, QuarantineInv, Typed, FileNamed, Unrecorded, PayloadKept,
     GoneWhenSaid
<1> QED BY <1>1, <1>2, <1>3

\* The invariant of the store holds throughout.
THEOREM StoreInvariance == QuarantineSpec => []QuarantineInv
<1>1. QuarantineInv /\ [QuarantineNext]_quarantineVars => QuarantineInv'
  BY IsolateKeeps, ServeKeeps, EnvironmentKeeps DEF QuarantineNext
<1> QED BY InitInv, <1>1, PTL DEF QuarantineSpec

\* A file that quarantine deleted stays restorable until the user has it erased,
\* whatever crashes, lists, restores and second isolations interleave with it.
THEOREM DeletedIsRestorable == QuarantineSpec => []NothingLost
<1>1. QuarantineInv => NothingLost
  BY DEF QuarantineInv, Typed, PayloadKept, NothingLost
<1> QED BY StoreInvariance, <1>1, PTL

\* A record that says Isolated names a file that has left its path, unless a look
\* at that path failed while the file was there.
THEOREM IsolatedIsRight == QuarantineSpec => []IsolatedIsGone
<1>1. QuarantineInv => IsolatedIsGone
  BY DEF QuarantineInv, GoneWhenSaid, IsolatedIsGone
<1> QED BY StoreInvariance, <1>1, PTL

\* No step of the code removes or replaces a file other than the one an isolation
\* opened, hashed and is deleting.
THEOREM OnlyTheScannedFile == QuarantineSpec => OthersUntouched
<1> DEFINE Untouched == path # 0 /\ path' # path /\ edits' = edits =>
             \E i \in Isolations : q[i].file = path /\ i \in removedBy' \ removedBy
<1>1. ASSUME QuarantineInv, [QuarantineNext]_quarantineVars PROVE Untouched
  <2>1. ASSUME NEW i \in Isolations, Isolate(i) PROVE Untouched
    <3>1. CASE DeleteSource(i)
      BY <1>1, <3>1 DEF DeleteSource, QuarantineInv, PayloadKept
    <3>2. CASE ~DeleteSource(i)
      BY <2>1, <3>2 DEF Isolate, OpenSource, CopySource, PublishPayload, WriteFirstRecord, Abort,
         DeleteFails, Cleanup, RewriteRecord, RewriteSkipped, fileVars
    <3> QED BY <3>1, <3>2
  <2>2. ASSUME NEW c \in Readers, Serve(c) PROVE Untouched
    BY <2>2 DEF Serve, Settled, FoundGone, Reconcile, ReconcileFails, RestoreRefused, ReadRecord,
       RestoreCopy, RestoreFails, RestorePlace, RestorePlaceFails, DeletePayload, DeleteRecord,
       fileVars
  <2>3. CASE Edit \/ Crash \/ UNCHANGED quarantineVars
    BY <1>1, <2>3 DEF Edit, Crash, quarantineVars, fileVars, bounds, QuarantineInv, Typed
  <2> QED BY <1>1, <2>1, <2>2, <2>3 DEF QuarantineNext
<1> QED BY StoreInvariance, <1>1, PTL DEF QuarantineSpec, OthersUntouched
-----------------------------------------------------------------------------
(* Induction, with what is to be shown given as a set.                     *)

\* Induction over the finite sets below S, with the sets that satisfy the claim as
\* a set.
LEMMA SubsetInduction ==
  ASSUME NEW S, IsFiniteSet(S), NEW Good,
         \A t \in SUBSET S : (\A u \in SUBSET t : u # t => u \in Good) => t \in Good
  PROVE  \A t \in SUBSET S : t \in Good
<1> DEFINE Bad == {t \in SUBSET S : t \notin Good}
           R == StrictSubsetOrdering(S)
<1>1. SUFFICES ASSUME Bad # {} PROVE FALSE
  OBVIOUS
<1>2. IsWellFoundedOn(R, FiniteSubsetsOf(S))
  BY FS_StrictSubsetOrderingWellFounded
<1>3. Bad \subseteq FiniteSubsetsOf(S)
  BY FS_Subset DEF FiniteSubsetsOf
<1> HIDE DEF R, Bad
<1>4. PICK t \in Bad : \A u \in Bad : ~(<<u, t>> \in R)
  BY <1>1, <1>2, <1>3, WFMin
<1> USE DEF Bad
<1>5. \A u \in SUBSET t : u # t => u \in Good
  <2> SUFFICES ASSUME NEW u \in SUBSET t, u # t, u \notin Good PROVE FALSE
    OBVIOUS
  <2>1. u \in Bad
    BY <1>4
  <2>2. <<u, t>> \in R
    BY <1>4 DEF R, StrictSubsetOrdering
  <2> QED BY <1>4, <2>1, <2>2
<1> QED BY <1>4, <1>5

\* Induction over the numbers up to n.
LEMMA UpTo ==
  ASSUME NEW n \in Nat, NEW Good, 0 \in Good,
         \A i \in 1..n : i - 1 \in Good => i \in Good
  PROVE  \A i \in 0..n : i \in Good
<1> DEFINE Bad == {i \in 0..n : i \notin Good}
           R == OpToRel(<, Nat)
<1>1. SUFFICES ASSUME Bad # {} PROVE FALSE
  OBVIOUS
<1>2. IsWellFoundedOn(R, Nat)
  BY NatLessThanWellFounded
<1>3. \A x, y \in Nat : x < y => <<x, y>> \in R
  BY DEF OpToRel
<1>4. Bad \subseteq Nat
  OBVIOUS
<1> HIDE DEF R
<1>5. PICK i \in Bad : \A j \in Bad : ~(<<j, i>> \in R)
  BY <1>1, <1>2, <1>4, WFMin
<1>6. i # 0 /\ i \in 1..n /\ i - 1 \in 0..n
  BY <1>5
<1>7. <<i - 1, i>> \in R
  BY <1>3, <1>6
<1>8. i - 1 \in Good
  BY <1>5, <1>6, <1>7
<1> QED BY <1>5, <1>6, <1>8

-----------------------------------------------------------------------------
(* Sums over finite sets, as MapThenSumSet computes them.                  *)

SumBody(g, S, h) ==
  [t \in SUBSET S |->
     IF t = {} THEN 0 ELSE g[CHOOSE x \in t : TRUE] + h[t \ {CHOOSE x \in t : TRUE}]]
SumFn(g, S) == CHOOSE h : h = SumBody(g, S, h)
Sum(g, S) == SumFn(g, S)[S]
Numbers(g, S) == \A x \in S : g[x] \in Int

\* A summing function of one set and one of another agree where both say something.
LEMMA SumUnique ==
  ASSUME NEW g, NEW S, NEW T, NEW h, NEW k, IsFiniteSet(S), S \subseteq T,
         h = SumBody(g, S, h), k = SumBody(g, T, k)
  PROVE  \A t \in SUBSET S : h[t] = k[t]
<1> DEFINE Good == {t \in SUBSET S : h[t] = k[t]}
<1>1. ASSUME NEW t \in SUBSET S, \A u \in SUBSET t : u # t => u \in Good
      PROVE  t \in Good
  <2> DEFINE x == CHOOSE x \in t : TRUE
  <2>1. /\ h[t] = (IF t = {} THEN 0 ELSE g[x] + h[t \ {x}])
        /\ k[t] = (IF t = {} THEN 0 ELSE g[x] + k[t \ {x}])
    BY Zenon DEF SumBody
  <2>2. t # {} => x \in t
    OBVIOUS
  <2> HIDE DEF x
  <2>3. t # {} => h[t \ {x}] = k[t \ {x}]
    BY <1>1, <2>2
  <2> QED BY <2>1, <2>3
<1> HIDE DEF Good
<1>2. \A t \in SUBSET S : t \in Good
  BY <1>1, SubsetInduction
<1> QED BY <1>2 DEF Good

Pick(t) == CHOOSE x \in t : TRUE
Summing(g, S) == SumFn(g, S) = SumBody(g, S, SumFn(g, S))

\* A sum is the term of the element that is picked and the sum of the others.
LEMMA PickStep ==
  ASSUME NEW g, NEW S, IsFiniteSet(S), Summing(g, S), S # {} => Summing(g, S \ {Pick(S)})
  PROVE  /\ S # {} => Pick(S) \in S
         /\ Sum(g, S) = IF S = {} THEN 0 ELSE g[Pick(S)] + Sum(g, S \ {Pick(S)})
<1> DEFINE x == Pick(S)
           k == SumFn(g, S)
<1>1. S # {} => x \in S
  BY DEF Pick
<1>2. k[S] = IF S = {} THEN 0 ELSE g[x] + k[S \ {x}]
  <2>1. k = SumBody(g, S, k)
    BY DEF Summing
  <2> HIDE DEF k
  <2> QED BY <2>1, Zenon DEF SumBody, Pick
<1>3. ASSUME S # {} PROVE Sum(g, S \ {x}) = k[S \ {x}]
  <2> DEFINE h == SumFn(g, S \ {x})
  <2>1. h = SumBody(g, S \ {x}, h) /\ k = SumBody(g, S, k)
    BY <1>3 DEF Summing
  <2>2. IsFiniteSet(S \ {x})
    BY FS_Difference
  <2> HIDE DEF h, k, x
  <2>3. \A t \in SUBSET (S \ {x}) : h[t] = k[t]
    BY <2>1, <2>2, SumUnique
  <2> QED BY <2>3 DEF h, Sum
<1> QED BY <1>1, <1>2, <1>3 DEF Sum

\* Finite sets of numbers have a sum.
LEMMA SumsExist ==
  ASSUME NEW g, NEW S, IsFiniteSet(S), Numbers(g, S)
  PROVE  \A t \in SUBSET S : Summing(g, t) /\ Sum(g, t) \in Int
<1> DEFINE Good == {t \in SUBSET S : Summing(g, t) /\ Sum(g, t) \in Int}
<1>1. ASSUME NEW t \in SUBSET S, \A u \in SUBSET t : u # t => u \in Good
      PROVE  t \in Good
  <2> DEFINE top == IF t = {} THEN 0 ELSE g[Pick(t)] + Sum(g, t \ {Pick(t)})
             h == [v \in SUBSET t |-> IF v = t THEN top ELSE Sum(g, v)]
  <2>1. t # {} => Pick(t) \in t
    BY DEF Pick
  <2>2. \A u \in SUBSET t : u # t => Summing(g, u) /\ Sum(g, u) \in Int
    BY <1>1
  <2>3. top \in Int
    BY <2>1, <2>2 DEF Numbers
  <2>4. ASSUME NEW v \in SUBSET t
        PROVE  h[v] = IF v = {} THEN 0 ELSE g[Pick(v)] + h[v \ {Pick(v)}]
    <3>1. v # {} => Pick(v) \in v
      BY DEF Pick
    <3>2. CASE v = t
      BY <2>1, <3>2
    <3>3. CASE v # t
      <4>1. IsFiniteSet(v)
        BY FS_Subset
      <4>2. v # {} => v \ {Pick(v)} \in SUBSET t /\ v \ {Pick(v)} # t
        BY <3>1
      <4>3. Summing(g, v) /\ (v # {} => Summing(g, v \ {Pick(v)}))
        BY <2>2, <3>3, <4>2
      <4>4. Sum(g, v) = IF v = {} THEN 0 ELSE g[Pick(v)] + Sum(g, v \ {Pick(v)})
        BY <4>1, <4>3, PickStep
      <4> QED BY <3>3, <4>2, <4>4
    <3> QED BY <3>2, <3>3
  <2>5. h = SumBody(g, t, h)
    <3> DEFINE b(v) == IF v = {} THEN 0 ELSE g[Pick(v)] + h[v \ {Pick(v)}]
    <3>1. SumBody(g, t, h) = [v \in SUBSET t |-> b(v)]
      BY DEF SumBody, Pick
    <3>2. \A v \in SUBSET t : h[v] = b(v)
      BY <2>4
    <3>3. h = [v \in SUBSET t |-> h[v]]
      OBVIOUS
    <3> HIDE DEF h, b
    <3> QED BY <3>1, <3>2, <3>3
  <2>6. h[t] = top
    OBVIOUS
  <2> HIDE DEF h, top
  <2>7. Summing(g, t)
    BY <2>5 DEF Summing, SumFn
  <2>8. Sum(g, t) = h[t]
    <3> DEFINE k == SumFn(g, t)
    <3>1. k = SumBody(g, t, k)
      BY <2>7 DEF Summing
    <3>2. IsFiniteSet(t)
      BY FS_Subset
    <3> HIDE DEF k
    <3>3. k[t] = h[t]
      BY <2>5, <3>1, <3>2, SumUnique
    <3> QED BY <3>3 DEF Sum, k
  <2> QED BY <2>3, <2>6, <2>7, <2>8
<1> HIDE DEF Good
<1>2. \A t \in SUBSET S : t \in Good
  BY <1>1, SubsetInduction
<1> QED BY <1>2 DEF Good

\* The empty sum, and a sum taken apart at any element.
LEMMA SumSplit ==
  ASSUME NEW g, NEW S, IsFiniteSet(S), Numbers(g, S)
  PROVE  /\ Sum(g, S) \in Int
         /\ Sum(g, {}) = 0
         /\ \A x \in S : Sum(g, S) = g[x] + Sum(g, S \ {x})
<1>1. \A t \in SUBSET S : IsFiniteSet(t) /\ Summing(g, t) /\ Sum(g, t) \in Int
  BY SumsExist, FS_Subset
<1>2. ASSUME NEW t \in SUBSET S
      PROVE  /\ t # {} => Pick(t) \in t
             /\ Sum(g, t) = IF t = {} THEN 0 ELSE g[Pick(t)] + Sum(g, t \ {Pick(t)})
  <2>1. t \ {Pick(t)} \in SUBSET S
    OBVIOUS
  <2>2. IsFiniteSet(t) /\ Summing(g, t) /\ Summing(g, t \ {Pick(t)})
    BY <1>1, <2>1
  <2> QED BY <2>2, PickStep
<1> DEFINE Good == {t \in SUBSET S : \A x \in t : Sum(g, t) = g[x] + Sum(g, t \ {x})}
<1>3. ASSUME NEW t \in SUBSET S, \A u \in SUBSET t : u # t => u \in Good
      PROVE  t \in Good
  <2> SUFFICES ASSUME NEW x \in t PROVE Sum(g, t) = g[x] + Sum(g, t \ {x})
    OBVIOUS
  <2> DEFINE c == Pick(t)
             u == t \ {c}
             v == t \ {x}
             r == (t \ {c}) \ {x}
  <2>1. c \in t /\ Sum(g, t) = g[c] + Sum(g, u)
    BY <1>2
  <2>2. CASE x = c
    BY <2>1, <2>2
  <2>3. CASE x # c
    <3>1. u \in SUBSET t /\ u # t /\ v \in SUBSET t /\ v # t /\ x \in u /\ c \in v /\ v \ {c} = r
      BY <2>1, <2>3
    <3>2. Sum(g, u) = g[x] + Sum(g, r)
      BY <1>3, <3>1
    <3>3. Sum(g, v) = g[c] + Sum(g, r)
      BY <1>3, <3>1
    <3>4. g[x] \in Int /\ g[c] \in Int /\ Sum(g, r) \in Int
      BY <1>1, <2>1 DEF Numbers
    <3> HIDE DEF c, u, v, r
    <3>5. Sum(g, t) = g[x] + Sum(g, v)
      BY <2>1, <3>2, <3>3, <3>4
    <3> QED BY <3>5 DEF v
  <2> QED BY <2>2, <2>3
<1> HIDE DEF Good
<1>4. S \in Good
  BY <1>3, SubsetInduction
<1>5. Sum(g, {}) = 0
  BY <1>2
<1> QED BY <1>1, <1>4, <1>5 DEF Good

\* Equal terms have equal sums.
LEMMA SumAgrees ==
  ASSUME NEW f, NEW g, NEW S, IsFiniteSet(S), Numbers(f, S), \A x \in S : f[x] = g[x]
  PROVE  Sum(f, S) = Sum(g, S)
<1>1. Numbers(g, S)
  BY DEF Numbers
<1> DEFINE Good == {t \in SUBSET S : Sum(f, t) = Sum(g, t)}
<1>2. ASSUME NEW t \in SUBSET S, \A u \in SUBSET t : u # t => u \in Good
      PROVE  t \in Good
  <2>1. IsFiniteSet(t) /\ Numbers(f, t) /\ Numbers(g, t)
    BY <1>1, FS_Subset DEF Numbers
  <2>2. CASE t = {}
    BY <2>1, <2>2, SumSplit
  <2>3. CASE t # {}
    <3>1. PICK x \in t : TRUE
      BY <2>3
    <3>2. Sum(f, t) = f[x] + Sum(f, t \ {x}) /\ Sum(g, t) = g[x] + Sum(g, t \ {x})
      BY <2>1, <3>1, SumSplit
    <3>3. Sum(f, t \ {x}) = Sum(g, t \ {x})
      BY <1>2, <3>1
    <3> QED BY <3>2, <3>3
  <2> QED BY <2>2, <2>3
<1> HIDE DEF Good
<1>3. S \in Good
  BY <1>2, SubsetInduction
<1> QED BY <1>3 DEF Good

\* A term more.
LEMMA SumAdd ==
  ASSUME NEW g, NEW S, IsFiniteSet(S), NEW x, x \notin S, Numbers(g, S \cup {x})
  PROVE  Sum(g, S \cup {x}) = g[x] + Sum(g, S)
<1>1. IsFiniteSet(S \cup {x}) /\ (S \cup {x}) \ {x} = S
  BY FS_AddElement
<1> QED BY <1>1, SumSplit

\* A sum of natural numbers is one, and none of its terms is larger.
LEMMA SumNat ==
  ASSUME NEW g, NEW S, IsFiniteSet(S), \A x \in S : g[x] \in Nat
  PROVE  Sum(g, S) \in Nat /\ \A x \in S : g[x] <= Sum(g, S)
<1> DEFINE Good == {t \in SUBSET S : Sum(g, t) \in Nat}
<1>1. \A t \in SUBSET S : IsFiniteSet(t) /\ Numbers(g, t)
  BY FS_Subset DEF Numbers
<1>2. ASSUME NEW t \in SUBSET S, \A u \in SUBSET t : u # t => u \in Good
      PROVE  t \in Good
  <2>1. CASE t = {}
    BY <1>1, <2>1, SumSplit
  <2>2. CASE t # {}
    <3>1. PICK x \in t : TRUE
      BY <2>2
    <3>2. Sum(g, t) = g[x] + Sum(g, t \ {x})
      BY <1>1, <3>1, SumSplit
    <3>3. Sum(g, t \ {x}) \in Nat
      BY <1>2, <3>1
    <3> QED BY <3>2, <3>3
  <2> QED BY <2>1, <2>2
<1> HIDE DEF Good
<1>3. \A t \in SUBSET S : t \in Good
  BY <1>2, SubsetInduction
<1>4. ASSUME NEW x \in S PROVE g[x] <= Sum(g, S)
  <2>1. Sum(g, S) = g[x] + Sum(g, S \ {x})
    BY <1>1, SumSplit
  <2>2. Sum(g, S \ {x}) \in Nat
    BY <1>3 DEF Good
  <2> QED BY <2>1, <2>2
<1> QED BY <1>3, <1>4 DEF Good

\* Sums differ by the sum of the differences.
LEMMA SumMinus ==
  ASSUME NEW f, NEW g, NEW d, NEW S, IsFiniteSet(S), Numbers(f, S), Numbers(g, S),
         \A x \in S : d[x] = f[x] - g[x]
  PROVE  Sum(d, S) = Sum(f, S) - Sum(g, S)
<1> DEFINE Good == {t \in SUBSET S : Sum(d, t) = Sum(f, t) - Sum(g, t)}
<1>1. \A t \in SUBSET S : IsFiniteSet(t) /\ Numbers(f, t) /\ Numbers(g, t) /\ Numbers(d, t)
  BY FS_Subset DEF Numbers
<1>2. ASSUME NEW t \in SUBSET S, \A u \in SUBSET t : u # t => u \in Good
      PROVE  t \in Good
  <2>1. CASE t = {}
    <3>1. Sum(d, t) = 0 /\ Sum(f, t) = 0 /\ Sum(g, t) = 0
      BY <1>1, <2>1, SumSplit
    <3> QED BY <3>1
  <2>2. CASE t # {}
    <3>1. PICK x \in t : TRUE
      BY <2>2
    <3>2. /\ Sum(d, t) = d[x] + Sum(d, t \ {x})
          /\ Sum(f, t) = f[x] + Sum(f, t \ {x})
          /\ Sum(g, t) = g[x] + Sum(g, t \ {x})
      BY <1>1, <3>1, SumSplit
    <3>3. Sum(d, t \ {x}) = Sum(f, t \ {x}) - Sum(g, t \ {x})
      BY <1>2, <3>1
    <3>4. Sum(f, t \ {x}) \in Int /\ Sum(g, t \ {x}) \in Int
      BY <1>1, <3>1, SumSplit
    <3>5. f[x] \in Int /\ g[x] \in Int /\ d[x] = f[x] - g[x]
      BY <3>1 DEF Numbers
    <3>6. Sum(d, t) = Sum(f, t) - Sum(g, t)
      BY <3>2, <3>3, <3>4, <3>5
    <3> QED BY <3>6
  <2> QED BY <2>1, <2>2
<1> HIDE DEF Good
<1>3. S \in Good
  BY <1>2, SubsetInduction
<1> QED BY <1>3 DEF Good

\* Changing one term changes the sum by as much.
LEMMA SumChange ==
  ASSUME NEW f, NEW g, NEW S, IsFiniteSet(S), Numbers(f, S), Numbers(g, S), NEW x \in S,
         \A y \in S \ {x} : f[y] = g[y]
  PROVE  Sum(g, S) = Sum(f, S) - f[x] + g[x]
<1> DEFINE r == S \ {x}
<1>1. IsFiniteSet(r) /\ Numbers(f, r)
  BY FS_Difference DEF Numbers
<1>2. Sum(f, S) = f[x] + Sum(f, r) /\ Sum(g, S) = g[x] + Sum(g, r)
  BY SumSplit
<1> HIDE DEF r
<1>3. Sum(f, r) = Sum(g, r)
  BY <1>1, SumAgrees DEF r
<1>4. Sum(f, r) \in Int /\ f[x] \in Int /\ g[x] \in Int
  BY <1>1, SumSplit DEF Numbers
<1> QED BY <1>2, <1>3, <1>4

-----------------------------------------------------------------------------
(* The lists of the vault.                                                 *)

Saved == Contents \ {"gone"}
EntryShape == [doc : Documents, content : Saved, old : BOOLEAN]
Sizes(s) == [i \in DOMAIN s |-> EntrySize(s[i])]

\* Documents and copies have a size.
LEMMA SizeType ==
  ASSUME NEW c
  PROVE  SizeOf(c) \in Nat
BY VaultAssumption DEF SizeOf

\* saturating_sub.
LEMMA MaxOfTwo ==
  ASSUME NEW x \in Int
  PROVE  Max({0, x}) = IF x >= 0 THEN x ELSE 0
<1> DEFINE m == IF x >= 0 THEN x ELSE 0
<1>1. m \in {0, x} /\ \A y \in {0, x} : m >= y
  OBVIOUS
<1>2. \A z \in {0, x} : (\A y \in {0, x} : z >= y) => z = m
  OBVIOUS
<1> HIDE DEF m
<1>3. Max({0, x}) = m
  BY <1>1, <1>2 DEF Max
<1> QED BY <1>3 DEF m

Less(x, y) == Max({0, x - y})

\* ... of two counts.
LEMMA Saturates ==
  ASSUME NEW x \in Int, NEW y \in Int
  PROVE  /\ Less(x, y) \in Nat
         /\ x >= y => Less(x, y) = x - y
         /\ (x >= 0 /\ y >= 0) => Less(x, y) <= x
<1> DEFINE z == x - y
<1>1. z \in Int /\ (x >= y => z >= 0) /\ (y >= 0 => z <= x)
  OBVIOUS
<1>2. Less(x, y) = Max({0, z})
  BY DEF Less
<1> HIDE DEF z
<1>3. Max({0, z}) = IF z >= 0 THEN z ELSE 0
  BY <1>1, MaxOfTwo
<1>4. Less(x, y) \in Nat /\ (x >= y => Less(x, y) = z) /\ ((x >= 0 /\ y >= 0) => Less(x, y) <= x)
  BY <1>1, <1>2, <1>3
<1> QED BY <1>4 DEF z

\* The bytes of a list are the sum of its sizes.
LEMMA BytesAreSum ==
  ASSUME NEW s
  PROVE  BytesIn(s) = Sum(Sizes(s), DOMAIN s)
BY DEF BytesIn, MapThenSumSet, MapThenFoldSet, Sum, SumFn, SumBody, Sizes

\* A list has a length and a number of bytes.
LEMMA BytesType ==
  ASSUME NEW E, NEW s \in Seq(E)
  PROVE  /\ DOMAIN s = 1..Len(s) /\ Len(s) \in Nat /\ IsFiniteSet(DOMAIN s)
         /\ \A i \in DOMAIN s : Sizes(s)[i] \in Nat
         /\ Numbers(Sizes(s), DOMAIN s)
         /\ BytesIn(s) \in Nat
<1>1. DOMAIN s = 1..Len(s) /\ Len(s) \in Nat
  OBVIOUS
<1>2. IsFiniteSet(DOMAIN s)
  BY <1>1, FS_Interval
<1>3. \A i \in DOMAIN s : Sizes(s)[i] \in Nat
  BY SizeType DEF Sizes, EntrySize
<1>4. Numbers(Sizes(s), DOMAIN s)
  BY <1>3 DEF Numbers
<1>5. Sum(Sizes(s), DOMAIN s) \in Nat
  BY <1>2, <1>3, SumNat
<1> QED BY <1>1, <1>2, <1>3, <1>4, <1>5, BytesAreSum

\* An empty list takes no bytes.
LEMMA BytesOfNone == BytesIn(<< >>) = 0
<1>1. DOMAIN << >> = {} /\ Numbers(Sizes(<< >>), {})
  BY DEF Numbers
<1>2. Sum(Sizes(<< >>), {}) = 0
  BY <1>1, FS_EmptySet, SumSplit
<1> QED BY <1>1, <1>2, BytesAreSum

\* A further entry adds its size.
LEMMA BytesOfAppend ==
  ASSUME NEW E, NEW s \in Seq(E), NEW e \in E
  PROVE  BytesIn(Append(s, e)) = BytesIn(s) + EntrySize(e)
<1> DEFINE n == Len(s)
           t == Append(s, e)
<1>1. t \in Seq(E) /\ Len(t) = n + 1 /\ n \in Nat
  OBVIOUS
<1>2. t[n + 1] = e /\ \A i \in 1..n : t[i] = s[i]
  OBVIOUS
<1>3. DOMAIN s = 1..n /\ DOMAIN t = 1..(n + 1)
  BY <1>1, BytesType
<1>4. 1..(n + 1) = (1..n) \cup {n + 1} /\ n + 1 \notin 1..n
  BY <1>1
<1> HIDE DEF t, n
<1>5. \A i \in 1..n : Sizes(s)[i] = Sizes(t)[i]
  BY <1>2, <1>3, <1>4 DEF Sizes
<1>6. Sizes(t)[n + 1] = EntrySize(e)
  BY <1>2, <1>3, <1>4 DEF Sizes
<1>7. IsFiniteSet(1..n) /\ Numbers(Sizes(s), 1..n) /\ Numbers(Sizes(t), (1..n) \cup {n + 1})
  BY <1>1, <1>3, <1>4, BytesType
<1>8. Sum(Sizes(t), (1..n) \cup {n + 1}) = Sizes(t)[n + 1] + Sum(Sizes(t), 1..n)
  BY <1>4, <1>7, SumAdd
<1>9. Sum(Sizes(s), 1..n) = Sum(Sizes(t), 1..n)
  BY <1>5, <1>7, SumAgrees
<1>10. BytesIn(s) \in Nat /\ EntrySize(e) \in Nat
  BY BytesType, SizeType DEF EntrySize
<1>11. BytesIn(t) = EntrySize(e) + BytesIn(s)
  BY <1>3, <1>4, <1>6, <1>8, <1>9, BytesAreSum
<1> QED BY <1>10, <1>11 DEF t

-----------------------------------------------------------------------------
(* What retain keeps.                                                      *)

KeepStep(s, i, l) == IF s[i].old THEN l ELSE Append(l, s[i])
KeepBody(s, k) == [i \in 0..Len(s) |-> IF i = 0 THEN << >> ELSE KeepStep(s, i, k[i - 1])]
Keep(s) == CHOOSE k : k = KeepBody(s, k)
PassTo(s, k, i) == k[0] = << >> /\ \A j \in 1..i : k[j] = KeepStep(s, j, k[j - 1])

\* retain goes through the list once.
LEMMA RetainIsKeep ==
  ASSUME NEW s
  PROVE  retain(s) = Keep(s)[Len(s)]
BY DEF retain, Keep, KeepBody, KeepStep

\* There is such a pass.
LEMMA KeepExists ==
  ASSUME NEW E, NEW s \in Seq(E)
  PROVE  Keep(s) = KeepBody(s, Keep(s))
<1> DEFINE n == Len(s)
           Good == {i \in 0..n : \E k \in [0..i -> Seq(E)] : PassTo(s, k, i)}
<1>1. n \in Nat
  OBVIOUS
<1>2. 0 \in Good
  <2> DEFINE z == [j \in 0..0 |-> << >>]
  <2>1. z \in [0..0 -> Seq(E)]
    OBVIOUS
  <2>2. PassTo(s, z, 0)
    BY DEF PassTo
  <2> HIDE DEF z
  <2> QED BY <1>1, <2>1, <2>2
<1>3. ASSUME NEW i \in 1..n, i - 1 \in Good PROVE i \in Good
  <2>1. PICK k \in [0..(i - 1) -> Seq(E)] : PassTo(s, k, i - 1)
    BY <1>3
  <2> DEFINE l == KeepStep(s, i, k[i - 1])
             m == [j \in 0..i |-> IF j = i THEN l ELSE k[j]]
  <2>2. k[i - 1] \in Seq(E) /\ s[i] \in E
    BY <1>1, <2>1
  <2>3. l \in Seq(E)
    BY <2>2 DEF KeepStep
  <2> HIDE DEF l
  <2>4. m \in [0..i -> Seq(E)]
    BY <2>1, <2>3
  <2>5. m[0] = << >> /\ m[i] = l /\ \A j \in 0..(i - 1) : m[j] = k[j]
    BY <2>1 DEF PassTo
  <2>6. \A j \in 1..i : m[j] = KeepStep(s, j, m[j - 1])
    <3> SUFFICES ASSUME NEW j \in 1..i PROVE m[j] = KeepStep(s, j, m[j - 1])
      OBVIOUS
    <3>1. m[j - 1] = k[j - 1]
      BY <2>5
    <3>2. j # i => m[j] = k[j] /\ k[j] = KeepStep(s, j, k[j - 1])
      BY <2>1, <2>5 DEF PassTo
    <3> QED BY <2>5, <3>1, <3>2 DEF l
  <2>7. PassTo(s, m, i)
    BY <2>5, <2>6 DEF PassTo
  <2>8. i \in 0..n
    BY <1>1
  <2> HIDE DEF m
  <2> QED BY <2>4, <2>7, <2>8
<1> HIDE DEF Good
<1>4. n \in Good
  <2>1. \A i \in 0..n : i \in Good
    BY <1>1, <1>2, <1>3, UpTo
  <2> QED BY <1>1, <2>1
<1>5. PICK k \in [0..n -> Seq(E)] : PassTo(s, k, n)
  BY <1>4 DEF Good
<1>6. k = KeepBody(s, k)
  <2>1. \A i \in 0..n : k[i] = IF i = 0 THEN << >> ELSE KeepStep(s, i, k[i - 1])
    BY <1>1, <1>5 DEF PassTo
  <2>2. k = [i \in 0..n |-> k[i]]
    OBVIOUS
  <2> QED BY <2>1, <2>2 DEF KeepBody
<1> QED BY <1>6 DEF Keep

\* The list l holds what is to be kept of the first i entries of s, and nothing else.
Kept(s, l, i) ==
  /\ Len(l) <= i
  /\ BytesIn(l) <= Sum(Sizes(s), 1..i)
  /\ \A j \in DOMAIN l : \E m \in 1..i : l[j] = s[m]
  /\ \A m \in 1..i : s[m].old \/ \E j \in DOMAIN l : l[j] = s[m]

\* One entry further.
LEMMA KeptStep ==
  ASSUME NEW E, NEW s \in Seq(E), NEW i \in 1..Len(s), NEW l \in Seq(E), Kept(s, l, i - 1)
  PROVE  KeepStep(s, i, l) \in Seq(E) /\ Kept(s, KeepStep(s, i, l), i)
<1> DEFINE e == s[i]
           t == Append(l, e)
<1>1. e \in E /\ i \in Nat /\ Len(s) \in Nat /\ i - 1 \in Nat
  OBVIOUS
<1>2. Sum(Sizes(s), 1..i) = EntrySize(e) + Sum(Sizes(s), 1..(i - 1))
  <2>1. 1..i = (1..(i - 1)) \cup {i} /\ i \notin 1..(i - 1) /\ 1..i \subseteq DOMAIN s
    BY <1>1
  <2>2. IsFiniteSet(1..(i - 1))
    BY <1>1, FS_Interval
  <2>3. Numbers(Sizes(s), (1..(i - 1)) \cup {i})
    BY <2>1, BytesType DEF Numbers
  <2>4. Sizes(s)[i] = EntrySize(e)
    BY <2>1 DEF Sizes
  <2>5. Sum(Sizes(s), (1..(i - 1)) \cup {i}) = Sizes(s)[i] + Sum(Sizes(s), 1..(i - 1))
    BY <2>1, <2>2, <2>3, SumAdd
  <2> QED BY <2>1, <2>4, <2>5
<1>3. EntrySize(e) \in Nat /\ BytesIn(l) \in Nat
  BY SizeType, BytesType DEF EntrySize
<1>4. Sum(Sizes(s), 1..(i - 1)) \in Nat
  <2>1. IsFiniteSet(1..(i - 1))
    BY <1>1, FS_Interval
  <2>2. 1..(i - 1) \subseteq DOMAIN s
    BY <1>1
  <2>3. \A m \in 1..(i - 1) : Sizes(s)[m] \in Nat
    BY <2>2, BytesType
  <2> QED BY <2>1, <2>3, SumNat
<1>5. Len(l) \in Nat /\ Len(l) <= i - 1
  BY DEF Kept
<1>6. CASE s[i].old
  <2>1. KeepStep(s, i, l) = l
    BY <1>6 DEF KeepStep
  <2>2. Len(l) <= i
    BY <1>1, <1>5
  <2>3. BytesIn(l) <= Sum(Sizes(s), 1..i)
    BY <1>2, <1>3, <1>4 DEF Kept
  <2>4. \A j \in DOMAIN l : \E m \in 1..i : l[j] = s[m]
    BY <1>1 DEF Kept
  <2>5. \A m \in 1..i : s[m].old \/ \E j \in DOMAIN l : l[j] = s[m]
    <3> SUFFICES ASSUME NEW m \in 1..i, ~s[m].old PROVE \E j \in DOMAIN l : l[j] = s[m]
      OBVIOUS
    <3>1. m \in 1..(i - 1)
      BY <1>6
    <3> QED BY <3>1 DEF Kept
  <2> QED BY <2>1, <2>2, <2>3, <2>4, <2>5 DEF Kept
<1>7. CASE ~s[i].old
  <2>1. KeepStep(s, i, l) = t
    BY <1>7 DEF KeepStep
  <2>2. t \in Seq(E) /\ Len(t) = Len(l) + 1 /\ DOMAIN t = 1..(Len(l) + 1) /\ DOMAIN l = 1..Len(l)
    BY <1>1
  <2>3. t[Len(l) + 1] = e /\ \A j \in 1..Len(l) : t[j] = l[j]
    BY <1>1
  <2>4. BytesIn(t) = BytesIn(l) + EntrySize(e)
    BY <1>1, BytesOfAppend
  <2> HIDE DEF t
  <2>5. Len(t) <= i
    BY <1>1, <1>5, <2>2
  <2>6. BytesIn(t) <= Sum(Sizes(s), 1..i)
    BY <1>2, <1>3, <1>4, <2>4 DEF Kept
  <2>7. \A j \in DOMAIN t : \E m \in 1..i : t[j] = s[m]
    <3> SUFFICES ASSUME NEW j \in DOMAIN t PROVE \E m \in 1..i : t[j] = s[m]
      OBVIOUS
    <3>1. CASE j = Len(l) + 1
      BY <1>1, <2>3, <3>1
    <3>2. CASE j # Len(l) + 1
      <4>1. j \in DOMAIN l /\ t[j] = l[j]
        BY <1>5, <2>2, <2>3, <3>2
      <4>2. \E m \in 1..(i - 1) : l[j] = s[m]
        BY <4>1 DEF Kept
      <4> QED BY <4>1, <4>2
    <3> QED BY <3>1, <3>2
  <2>8. \A m \in 1..i : s[m].old \/ \E j \in DOMAIN t : t[j] = s[m]
    <3> SUFFICES ASSUME NEW m \in 1..i, ~s[m].old PROVE \E j \in DOMAIN t : t[j] = s[m]
      OBVIOUS
    <3>1. CASE m = i
      BY <1>5, <2>2, <2>3, <3>1
    <3>2. CASE m # i
      <4>1. m \in 1..(i - 1)
        BY <3>2
      <4>2. PICK j \in DOMAIN l : l[j] = s[m]
        BY <4>1 DEF Kept
      <4> QED BY <1>5, <2>2, <2>3, <4>2
    <3> QED BY <3>1, <3>2
  <2> QED BY <2>1, <2>2, <2>5, <2>6, <2>7, <2>8 DEF Kept
<1> QED BY <1>6, <1>7

\* purge_expired keeps what is not old, drops nothing else, and never adds bytes.
LEMMA RetainFacts ==
  ASSUME NEW E, NEW s \in Seq(E)
  PROVE  retain(s) \in Seq(E) /\ Kept(s, retain(s), Len(s))
<1> DEFINE n == Len(s)
           k == Keep(s)
           Good == {i \in 0..n : k[i] \in Seq(E) /\ Kept(s, k[i], i)}
<1>1. n \in Nat
  OBVIOUS
<1>2. k = KeepBody(s, k)
  BY KeepExists
<1> HIDE DEF k
<1>3. k[0] = << >> /\ \A i \in 1..n : k[i] = KeepStep(s, i, k[i - 1])
  BY <1>1, <1>2 DEF KeepBody
<1>4. 0 \in Good
  <2>1. Sum(Sizes(s), {}) = 0
    BY BytesType, SumSplit
  <2>2. << >> \in Seq(E) /\ Len(<< >>) = 0 /\ DOMAIN << >> = {} /\ 1..0 = {}
    OBVIOUS
  <2>3. Kept(s, << >>, 0)
    BY <2>1, <2>2, BytesOfNone DEF Kept
  <2>4. k[0] \in Seq(E) /\ Kept(s, k[0], 0)
    BY <1>3, <2>2, <2>3
  <2>5. 0 \in 0..n
    BY <1>1
  <2> QED BY <2>4, <2>5
<1>5. ASSUME NEW i \in 1..n, i - 1 \in Good PROVE i \in Good
  <2>1. k[i - 1] \in Seq(E) /\ Kept(s, k[i - 1], i - 1)
    BY <1>5
  <2>2. KeepStep(s, i, k[i - 1]) \in Seq(E) /\ Kept(s, KeepStep(s, i, k[i - 1]), i)
    BY <2>1, KeptStep
  <2> QED BY <1>1, <1>3, <2>2
<1> HIDE DEF Good
<1>6. \A i \in 0..n : i \in Good
  BY <1>1, <1>4, <1>5, UpTo
<1>7. k[n] \in Seq(E) /\ Kept(s, k[n], n)
  BY <1>1, <1>6 DEF Good
<1> QED BY <1>7, RetainIsKeep DEF k

-----------------------------------------------------------------------------
(* The invariant.                                                          *)

OperationShape == [id : Nat, prog : Programs, doc : Documents, kind : {"write", "remove"}]
WorkerShape == [pc : PCs, prog : Programs \cup {"none"}, doc : Documents \cup {"none"},
                kind : {"write", "remove"}, size : Nat, first : Saved, late : BOOLEAN,
                block : BOOLEAN, todo : Seq(EntryShape), back : SUBSET Documents,
                alone : BOOLEAN, id : Nat]

\* Where a worker has a program and a document to work on.
Placed(z) ==
  /\ z.pc # "idle" => z.prog \in Programs
  /\ z.pc \in {"preserve", "copying", "observe", "reply"} => z.doc \in Documents
  /\ z.pc # "restoring" => (z.back = {} /\ Len(z.todo) = 0)
  /\ z.pc = "copying" => z.size = SizeOf(z.first)

ShapeInv ==
  /\ content \in [Documents -> Contents]
  /\ landing \subseteq OperationShape
  /\ worker \in [Workers -> WorkerShape]
  /\ entries \in [Programs -> Seq(EntryShape)]
  /\ claimed \in [Programs -> SUBSET Documents]
  /\ total \in Int /\ ops \in Nat
  /\ \A w \in Workers : Placed(worker[w])

CopyingFor(p) == {w \in Workers : worker[w].pc = "copying" /\ worker[w].prog = p}

\* Every copy, listed or in the making, has its claim, but for the ones that were
\* in the making when the claims were dropped.
ClaimInv ==
  \A p \in Programs :
    /\ Cardinality(claimed[p]) <= MaxFiles
    /\ Len(entries[p]) + Cardinality(CopyingFor(p)) <= Cardinality(claimed[p]) + Cardinality(Workers)

\* Room for one growth is left for every copy in the making.
RoomInv == total + Growth * Cardinality(Copying) <= MaxTotalBytes + Growth * Cardinality(Workers)

Listed(s, d) == \E i \in DOMAIN s : s[i].doc = d
Clear(p, d) == p \notin undone /\ <<p, d>> \notin exposed
CopyOf(z, p, d) == z.pc = "copying" /\ z.prog = p /\ z.doc = d

\* What a program has done to a document it has a clear record of shows only once
\* the copy of the document is listed, and that copy is not the program's work.
TraceInv ==
  \A p \in Programs, d \in Documents : Clear(p, d) =>
    /\ content[d] = p => Listed(entries[p], d)
    /\ \A o \in landing : (o.prog = p /\ o.doc = d) => Listed(entries[p], d)
    /\ \A w \in Workers : (worker[w].pc = "copying" /\ worker[w].doc = d /\ worker[w].first = p)
                          => Listed(entries[p], d)
    /\ \A z \in Programs : \A i \in DOMAIN entries[z] :
         (entries[z][i].doc = d /\ entries[z][i].content = p) => (Listed(entries[p], d) /\ p # z)
    /\ \A w \in Workers : \A i \in DOMAIN worker[w].todo :
         (worker[w].todo[i].doc = d /\ worker[w].todo[i].content = p) => Listed(entries[p], d)

\* A copy in the making is the only one of its kind and holds the claim.
MakingInv ==
  \A p \in Programs, d \in Documents : Clear(p, d) =>
    /\ Listed(entries[p], d) => d \in claimed[p]
    /\ \A w \in Workers : CopyOf(worker[w], p, d) =>
         /\ ~Listed(entries[p], d) /\ d \in claimed[p]
         /\ \A v \in Workers : CopyOf(worker[v], p, d) => v = w

\* A first undo after the program has ended is not disturbed.
AloneInv ==
  \A w \in Workers : (worker[w].pc = "restoring" /\ worker[w].alone = TRUE) =>
    LET p == worker[w].prog IN
    /\ p \notin alive
    /\ \A o \in landing : o.prog # p
    /\ \A v \in Workers : worker[v].prog = p => v = w
    /\ \A i \in DOMAIN worker[w].todo :
         worker[w].todo[i].content = p => <<p, worker[w].todo[i].doc>> \in exposed
    /\ \A d \in worker[w].back : content[d] = p => <<p, d>> \in exposed

-----------------------------------------------------------------------------
(* What a step does to the workers.                                        *)

\* One worker moves, to a place its program and document allow.
Moves(w) ==
  /\ worker' \in [Workers -> WorkerShape]
  /\ \A v \in Workers : v # w => worker'[v] = worker[v]
  /\ Placed(worker'[w])

\* ... and neither copies nor restores afterwards.
MovesOn(w) ==
  /\ Moves(w)
  /\ worker'[w].pc \notin {"copying", "restoring"}
  /\ worker'[w].prog \in {worker[w].prog, "none"} \cup alive

\* A worker that takes over the record z.
LEMMA OneMoves ==
  ASSUME ShapeInv, NEW w \in Workers, NEW z \in WorkerShape, Placed(z),
         worker' = [worker EXCEPT ![w] = z]
  PROVE  Moves(w) /\ worker'[w] = z
BY DEF ShapeInv, Moves

\* The record of a worker with nothing to do.
LEMMA IdleShape == Idle \in WorkerShape /\ Placed(Idle) /\ Idle.pc = "idle" /\ Idle.prog = "none"
                   /\ Len(Idle.todo) = 0
<1>1. << >> \in Seq(EntryShape) /\ Len(<< >>) = 0
  OBVIOUS
<1>2. "original" \in Saved
  BY DEF Saved, Contents
<1>3. Idle \in WorkerShape
  BY <1>1, <1>2 DEF Idle, WorkerShape, PCs
<1>4. Idle.pc = "idle" /\ Idle.prog = "none" /\ Idle.back = {} /\ Idle.todo = << >>
  BY DEF Idle
<1> QED BY <1>1, <1>3, <1>4 DEF Placed

\* What the invariant says of one worker.
LEMMA WorkerFacts ==
  ASSUME ShapeInv, NEW w \in Workers
  PROVE  worker[w] \in WorkerShape /\ Placed(worker[w])
BY DEF ShapeInv

\* A worker is asked about a change.
LEMMA AskedMoves ==
  ASSUME ShapeInv, NEW p \in Programs, NEW d \in Documents, NEW w \in Workers,
         NEW k \in {"write", "remove"},
         p \in alive, worker' = [worker EXCEPT ![w] = Asked(p, d, k)]
  PROVE  MovesOn(w)
<1> DEFINE z == Asked(p, d, k)
<1>1. ops + 1 \in Nat
  BY DEF ShapeInv
<1>2. /\ z \in WorkerShape /\ z.pc = "preserve" /\ z.prog = p /\ z.doc = d
      /\ z.todo = Idle.todo /\ z.back = Idle.back
  BY <1>1, IdleShape DEF Asked, WorkerShape, PCs
<1>3. Idle.back = {} /\ Len(Idle.todo) = 0
  BY IdleShape DEF Placed
<1> HIDE DEF z
<1>4. Placed(z)
  BY <1>2, <1>3 DEF Placed
<1>5. Moves(w) /\ worker'[w] = z
  BY <1>2, <1>4, OneMoves DEF z
<1> QED BY <1>2, <1>5 DEF MovesOn

\* A worker that has answered or finished is idle again.
LEMMA IdleMoves ==
  ASSUME ShapeInv, NEW w \in Workers, worker' = [worker EXCEPT ![w] = Idle]
  PROVE  MovesOn(w)
<1>1. Moves(w) /\ worker'[w] = Idle
  BY IdleShape, OneMoves
<1> QED BY <1>1, IdleShape DEF MovesOn

\* A worker is to end the program it has convicted.
LEMMA ConvictedMoves ==
  ASSUME ShapeInv, NEW w \in Workers, ReplyBlock(w)
  PROVE  MovesOn(w)
<1> DEFINE p == worker[w].prog
           z == Convicted(p)
<1>1. worker' = [worker EXCEPT ![w] = z]
  BY DEF ReplyBlock, ShapeInv
<1>2. p \in Programs
  BY WorkerFacts DEF Placed, ReplyBlock
<1>3. /\ z \in WorkerShape /\ z.pc = "terminate" /\ z.prog = p
      /\ z.todo = Idle.todo /\ z.back = Idle.back
  BY <1>2, IdleShape DEF Convicted, WorkerShape, PCs
<1>4. Idle.back = {} /\ Len(Idle.todo) = 0
  BY IdleShape DEF Placed
<1> HIDE DEF z, p
<1>5. Placed(z)
  BY <1>2, <1>3, <1>4 DEF Placed
<1>6. Moves(w) /\ worker'[w] = z
  BY <1>1, <1>3, <1>5, OneMoves
<1> QED BY <1>3, <1>6 DEF MovesOn, p

\* A worker goes on without a copy and without an undo.
LEMMA PlainMoves ==
  ASSUME ShapeInv, NEW w \in Workers,
         \/ Skip(w) \/ CopyFails(w) \/ (\E c \in Contents : CopyDone(w, c)) \/ Observe(w)
         \/ Terminate(w) \/ TerminateRefused(w)
  PROVE  MovesOn(w)
<1> DEFINE o == worker[w]
<1>1. o \in WorkerShape /\ Placed(o)
  BY WorkerFacts
<1>2. "original" \in Saved
  BY DEF Saved, Contents
<1>3. ASSUME NEW z \in WorkerShape, worker' = [worker EXCEPT ![w] = z],
             z.pc \in {"observe", "reply", "restore"}, o.pc \in {"preserve", "copying", "observe", "terminate"},
             z.pc \in {"observe", "reply"} => o.pc # "terminate",
             z.prog = o.prog, z.doc = o.doc, z.todo = o.todo, z.back = o.back
      PROVE  MovesOn(w)
  <2>1. Placed(z)
    BY <1>1, <1>3 DEF Placed
  <2>2. Moves(w) /\ worker'[w] = z
    BY <1>3, <2>1, OneMoves
  <2> QED BY <1>3, <2>2 DEF MovesOn
<1>4. CASE Skip(w)
  <2> DEFINE z == [o EXCEPT !.pc = "observe"]
  <2>1. worker' = [worker EXCEPT ![w] = z] /\ o.pc = "preserve"
    BY <1>4 DEF Skip, ShapeInv
  <2>2. /\ z \in WorkerShape /\ z.pc = "observe" /\ z.prog = o.prog /\ z.doc = o.doc
        /\ z.todo = o.todo /\ z.back = o.back
    BY <1>1 DEF WorkerShape, PCs
  <2> HIDE DEF z
  <2> QED BY <1>3, <2>1, <2>2
<1>5. CASE CopyFails(w) \/ \E c \in Contents : CopyDone(w, c)
  <2> DEFINE z == [o EXCEPT !.pc = "observe", !.size = 0, !.first = "original"]
  <2>1. worker' = [worker EXCEPT ![w] = z] /\ o.pc = "copying"
    BY <1>5 DEF CopyFails, CopyDone, ShapeInv
  <2>2. /\ z \in WorkerShape /\ z.pc = "observe" /\ z.prog = o.prog /\ z.doc = o.doc
        /\ z.todo = o.todo /\ z.back = o.back
    BY <1>1, <1>2 DEF WorkerShape, PCs
  <2> HIDE DEF z
  <2> QED BY <1>3, <2>1, <2>2
<1>6. CASE Observe(w)
  <2> DEFINE b == Cardinality(touched[worker[w].prog] \cup {worker[w].doc}) >= Threshold
             z == [o EXCEPT !.pc = "reply", !.block = b]
  <2>1. worker' = [worker EXCEPT ![w] = z] /\ o.pc = "observe"
    BY <1>6 DEF Observe, ShapeInv
  <2>2. b \in BOOLEAN
    OBVIOUS
  <2> HIDE DEF b
  <2>3. /\ z \in WorkerShape /\ z.pc = "reply" /\ z.prog = o.prog /\ z.doc = o.doc
        /\ z.todo = o.todo /\ z.back = o.back
    BY <1>1, <2>2 DEF WorkerShape, PCs
  <2> HIDE DEF z
  <2> QED BY <1>3, <2>1, <2>3
<1>7. CASE Terminate(w) \/ TerminateRefused(w)
  <2> DEFINE z == [o EXCEPT !.pc = "restore"]
  <2>1. worker' = [worker EXCEPT ![w] = z] /\ o.pc = "terminate"
    BY <1>7 DEF Terminate, TerminateRefused, ShapeInv
  <2>2. /\ z \in WorkerShape /\ z.pc = "restore" /\ z.prog = o.prog /\ z.doc = o.doc
        /\ z.todo = o.todo /\ z.back = o.back
    BY <1>1 DEF WorkerShape, PCs
  <2> HIDE DEF z
  <2> QED BY <1>3, <2>1, <2>2
<1> QED BY <1>4, <1>5, <1>6, <1>7

\* A worker whose reply nobody waits for any more goes on as before.
LEMMA HoldMoves ==
  ASSUME ShapeInv, NEW w \in Workers, HoldTimesOut(w)
  PROVE  /\ Moves(w)
         /\ worker'[w].pc = worker[w].pc /\ worker'[w].pc # "restoring"
         /\ worker'[w].prog = worker[w].prog /\ worker'[w].doc = worker[w].doc
         /\ worker'[w].first = worker[w].first /\ worker'[w].size = worker[w].size
         /\ worker[w].prog \in Programs /\ worker[w].doc \in Documents
<1> DEFINE o == worker[w]
           z == [o EXCEPT !.late = TRUE]
<1>1. o \in WorkerShape /\ Placed(o) /\ o.pc \in {"preserve", "copying", "observe", "reply"}
  BY WorkerFacts DEF HoldTimesOut, Held
<1>2. worker' = [worker EXCEPT ![w] = z]
  BY DEF HoldTimesOut, ShapeInv
<1>3. /\ z \in WorkerShape /\ z.pc = o.pc /\ z.prog = o.prog /\ z.doc = o.doc
      /\ z.todo = o.todo /\ z.back = o.back /\ z.first = o.first /\ z.size = o.size
  BY <1>1 DEF WorkerShape
<1> HIDE DEF z
<1>4. Placed(z)
  BY <1>1, <1>3 DEF Placed
<1>5. Moves(w) /\ worker'[w] = z
  BY <1>2, <1>3, <1>4, OneMoves
<1>6. o.prog \in Programs /\ o.doc \in Documents
  BY <1>1 DEF Placed
<1> QED BY <1>1, <1>3, <1>5, <1>6

\* A worker begins to copy.
LEMMA ClaimMoves ==
  ASSUME ShapeInv, NEW w \in Workers, Claim(w)
  PROVE  /\ Moves(w) /\ worker[w].pc = "preserve" /\ worker'[w].pc = "copying"
         /\ worker'[w].prog = worker[w].prog /\ worker'[w].doc = worker[w].doc
         /\ worker[w].prog \in Programs /\ worker[w].doc \in Documents
         /\ worker'[w].first = content[worker[w].doc]
         /\ worker'[w].size = SizeOf(content[worker[w].doc])
<1> DEFINE o == worker[w]
           c == content[o.doc]
           z == [o EXCEPT !.pc = "copying", !.size = SizeOf(c), !.first = c]
<1>1. o \in WorkerShape /\ Placed(o) /\ o.pc = "preserve"
  BY WorkerFacts DEF Claim
<1>2. o.prog \in Programs /\ o.doc \in Documents
  BY <1>1 DEF Placed
<1>3. worker' = [worker EXCEPT ![w] = z]
  BY DEF Claim, ShapeInv
<1>4. c \in Saved
  BY <1>2 DEF Claim, Admits, ShapeInv, Saved
<1>5. SizeOf(c) \in Nat
  BY SizeType
<1> HIDE DEF c
<1>6. /\ z \in WorkerShape /\ z.pc = "copying" /\ z.prog = o.prog /\ z.doc = o.doc
      /\ z.todo = o.todo /\ z.back = o.back /\ z.first = c /\ z.size = SizeOf(c)
  BY <1>1, <1>4, <1>5 DEF WorkerShape, PCs
<1> HIDE DEF z
<1>7. Placed(z)
  BY <1>1, <1>6 DEF Placed
<1>8. Moves(w) /\ worker'[w] = z
  BY <1>3, <1>6, <1>7, OneMoves
<1> QED BY <1>1, <1>2, <1>6, <1>8 DEF c

\* Whether an undo is the first, after the program's end, with nothing else under way.
Undisturbed(w) ==
  /\ worker[w].prog \notin alive \cup undone
  /\ \A v \in Workers \ {w} : worker[v].prog # worker[w].prog
  /\ \A o \in landing : o.prog # worker[w].prog

\* A worker takes everything the index has of the program.
LEMMA TakesMoves ==
  ASSUME ShapeInv, NEW w \in Workers, RestoreTakes(w)
  PROVE  /\ Moves(w) /\ worker[w].pc = "restore" /\ worker'[w].pc = "restoring"
         /\ worker'[w].prog = worker[w].prog /\ worker[w].prog \in Programs
         /\ worker'[w].todo = entries[worker[w].prog] /\ worker'[w].back = {}
         /\ worker'[w].alone = Undisturbed(w)
<1> DEFINE o == worker[w]
           a == Undisturbed(w)
           z == [o EXCEPT !.pc = "restoring", !.todo = entries[o.prog], !.alone = a]
<1>1. o \in WorkerShape /\ Placed(o) /\ o.pc = "restore"
  BY WorkerFacts DEF RestoreTakes
<1>2. o.prog \in Programs /\ o.back = {}
  BY <1>1 DEF Placed
<1>3. worker' = [worker EXCEPT ![w] = z]
  BY DEF RestoreTakes, ShapeInv, Undisturbed
<1>4. entries[o.prog] \in Seq(EntryShape)
  BY <1>2 DEF ShapeInv
<1>5. a \in BOOLEAN
  BY DEF Undisturbed
<1> HIDE DEF a
<1>6. /\ z \in WorkerShape /\ z.pc = "restoring" /\ z.prog = o.prog
      /\ z.todo = entries[o.prog] /\ z.back = o.back /\ z.alone = a
  BY <1>1, <1>4, <1>5 DEF WorkerShape, PCs
<1> HIDE DEF z
<1>7. Placed(z)
  BY <1>2, <1>6 DEF Placed
<1>8. Moves(w) /\ worker'[w] = z
  BY <1>3, <1>6, <1>7, OneMoves
<1> QED BY <1>1, <1>2, <1>6, <1>8 DEF a

\* The head of a list and what is left of it.
LEMMA HeadTail ==
  ASSUME NEW E, NEW s \in Seq(E), s # << >>
  PROVE  /\ 1 \in DOMAIN s /\ Head(s) = s[1] /\ Head(s) \in E /\ Tail(s) \in Seq(E)
         /\ \A i \in DOMAIN Tail(s) : i + 1 \in DOMAIN s /\ Tail(s)[i] = s[i + 1]
<1>1. Len(s) \in Nat /\ Len(s) # 0
  OBVIOUS
<1>2. Head(s) = s[1] /\ Tail(s) \in Seq(E) /\ Len(Tail(s)) = Len(s) - 1 /\ 1 \in DOMAIN s
  BY <1>1
<1>3. \A i \in DOMAIN Tail(s) : i + 1 \in DOMAIN s /\ Tail(s)[i] = s[i + 1]
  BY <1>1, <1>2
<1> QED BY <1>2, <1>3

SameTask(z, o) ==
  /\ z.pc = o.pc /\ z.prog = o.prog /\ z.doc = o.doc /\ z.first = o.first /\ z.size = o.size
  /\ z.alone = o.alone

\* A worker whose documents another undo replaced goes on as before.
LEMMA BackShape ==
  ASSUME ShapeInv, NEW v \in Workers, NEW d
  PROVE  LET z == [worker[v] EXCEPT !.back = @ \ {d}] IN
         /\ z \in WorkerShape /\ Placed(z) /\ SameTask(z, worker[v])
         /\ z.todo = worker[v].todo /\ z.back = worker[v].back \ {d}
<1> DEFINE o == worker[v]
           z == [o EXCEPT !.back = @ \ {d}]
<1>1. o \in WorkerShape /\ Placed(o)
  BY WorkerFacts
<1>2. z.pc = o.pc /\ z.prog = o.prog /\ z.doc = o.doc /\ z.first = o.first /\ z.size = o.size
      /\ z.alone = o.alone /\ z.todo = o.todo /\ z.back = o.back \ {d}
  BY <1>1 DEF WorkerShape
<1>3. z \in WorkerShape
  BY <1>1 DEF WorkerShape
<1> HIDE DEF z
<1>4. Placed(z)
  BY <1>1, <1>2 DEF Placed
<1>5. z \in WorkerShape /\ Placed(z) /\ SameTask(z, o) /\ z.todo = o.todo /\ z.back = o.back \ {d}
  BY <1>2, <1>3, <1>4 DEF SameTask
<1> QED BY <1>5 DEF z

\* The worker of an undo goes on to the next entry.
LEMMA NextEntry ==
  ASSUME ShapeInv, NEW w \in Workers, worker[w].pc = "restoring", worker[w].todo # << >>,
         NEW b \in SUBSET Documents
  PROVE  LET o == worker[w]
             z == [o EXCEPT !.todo = Tail(@), !.back = b]
             e == Head(o.todo) IN
         /\ z \in WorkerShape /\ Placed(z) /\ SameTask(z, o) /\ z.back = b
         /\ o.prog \in Programs /\ e \in EntryShape /\ e.doc \in Documents
         /\ 1 \in DOMAIN o.todo /\ e = o.todo[1]
         /\ \A i \in DOMAIN z.todo : i + 1 \in DOMAIN o.todo /\ z.todo[i] = o.todo[i + 1]
<1> DEFINE o == worker[w]
           t == Tail(o.todo)
           z == [o EXCEPT !.todo = t, !.back = b]
           e == Head(o.todo)
<1>1. o \in WorkerShape /\ Placed(o)
  BY WorkerFacts
<1>2. o.prog \in Programs /\ o.todo \in Seq(EntryShape)
  BY <1>1 DEF Placed, WorkerShape
<1>3. /\ 1 \in DOMAIN o.todo /\ e = o.todo[1] /\ e \in EntryShape /\ t \in Seq(EntryShape)
      /\ \A i \in DOMAIN t : i + 1 \in DOMAIN o.todo /\ t[i] = o.todo[i + 1]
  BY <1>2, HeadTail
<1>4. e.doc \in Documents
  BY <1>3 DEF EntryShape
<1> HIDE DEF t, e
<1>5. z \in WorkerShape /\ z.pc = o.pc /\ z.prog = o.prog /\ z.doc = o.doc /\ z.first = o.first
      /\ z.size = o.size /\ z.alone = o.alone /\ z.todo = t /\ z.back = b
  BY <1>1, <1>3 DEF WorkerShape
<1> HIDE DEF z
<1>6. Placed(z) /\ SameTask(z, o)
  BY <1>2, <1>5 DEF Placed, SameTask
<1> QED BY <1>2, <1>3, <1>4, <1>5, <1>6 DEF z, t, e

\* A worker puts one document back, and no other worker counts it as its own.
LEMMA RestoreOneMoves ==
  ASSUME ShapeInv, NEW w \in Workers, RestoreOne(w)
  PROVE  LET o == worker[w]
             e == Head(o.todo) IN
         /\ worker' \in [Workers -> WorkerShape]
         /\ \A v \in Workers : Placed(worker'[v]) /\ SameTask(worker'[v], worker[v])
         /\ o.pc = "restoring" /\ o.prog \in Programs
         /\ 1 \in DOMAIN o.todo /\ e = o.todo[1] /\ e \in EntryShape /\ e.doc \in Documents
         /\ \A v \in Workers : v # w => /\ worker'[v].todo = worker[v].todo
                                         /\ worker'[v].back = worker[v].back \ {e.doc}
         /\ \A i \in DOMAIN worker'[w].todo :
              i + 1 \in DOMAIN o.todo /\ worker'[w].todo[i] = o.todo[i + 1]
         /\ worker'[w].back = o.back \cup {e.doc}
<1> DEFINE o == worker[w]
           e == Head(o.todo)
           b == o.back \cup {e.doc}
           z == [o EXCEPT !.todo = Tail(@), !.back = b]
           n(v) == [worker[v] EXCEPT !.back = @ \ {e.doc}]
<1>1. o.pc = "restoring" /\ o.todo # << >> /\ o \in WorkerShape
  BY WorkerFacts DEF RestoreOne
<1>2. o.back \in SUBSET Documents
  BY <1>1 DEF WorkerShape
<1>3. e.doc \in Documents
  BY <1>1, <1>2, NextEntry
<1>4. b \in SUBSET Documents
  BY <1>2, <1>3
<1>5. worker' = [v \in Workers |-> IF v = w THEN z ELSE n(v)]
  BY DEF RestoreOne, PutBack
<1> HIDE DEF b
<1>6. /\ z \in WorkerShape /\ Placed(z) /\ SameTask(z, o) /\ z.back = b
      /\ o.prog \in Programs /\ e \in EntryShape
      /\ 1 \in DOMAIN o.todo /\ e = o.todo[1]
      /\ \A i \in DOMAIN z.todo : i + 1 \in DOMAIN o.todo /\ z.todo[i] = o.todo[i + 1]
  BY <1>1, <1>4, NextEntry
<1> HIDE DEF e
<1>7. ASSUME NEW v \in Workers
      PROVE  /\ n(v) \in WorkerShape /\ Placed(n(v)) /\ SameTask(n(v), worker[v])
             /\ n(v).todo = worker[v].todo /\ n(v).back = worker[v].back \ {e.doc}
  BY BackShape
<1> HIDE DEF z, n
<1>8. worker' \in [Workers -> WorkerShape]
  BY <1>5, <1>6, <1>7
<1>9. worker'[w] = z /\ \A v \in Workers : v # w => worker'[v] = n(v)
  BY <1>5
<1> QED BY <1>1, <1>3, <1>6, <1>7, <1>8, <1>9 DEF b, e

\* A document that could not be put back is not among those that were.
LEMMA RestoreFailsMoves ==
  ASSUME ShapeInv, NEW w \in Workers, RestoreOneFails(w)
  PROVE  LET o == worker[w] IN
         /\ Moves(w) /\ SameTask(worker'[w], o) /\ o.pc = "restoring"
         /\ \A i \in DOMAIN worker'[w].todo :
              i + 1 \in DOMAIN o.todo /\ worker'[w].todo[i] = o.todo[i + 1]
         /\ worker'[w].back \subseteq o.back
<1> DEFINE o == worker[w]
           b == o.back \ {Head(o.todo).doc}
           z == [o EXCEPT !.todo = Tail(@), !.back = b]
<1>1. o.pc = "restoring" /\ o.todo # << >> /\ o \in WorkerShape
  BY WorkerFacts DEF RestoreOneFails
<1>2. b \in SUBSET Documents
  BY <1>1 DEF WorkerShape
<1>3. worker' = [worker EXCEPT ![w] = z]
  BY DEF RestoreOneFails, ShapeInv
<1>4. b \subseteq o.back
  OBVIOUS
<1> HIDE DEF b
<1>5. /\ z \in WorkerShape /\ Placed(z) /\ SameTask(z, o) /\ z.back = b
      /\ \A i \in DOMAIN z.todo : i + 1 \in DOMAIN o.todo /\ z.todo[i] = o.todo[i + 1]
  BY <1>1, <1>2, NextEntry
<1> HIDE DEF z
<1>6. Moves(w) /\ worker'[w] = z
  BY <1>3, <1>5, OneMoves
<1> QED BY <1>1, <1>4, <1>5, <1>6

-----------------------------------------------------------------------------
(* What a step does to the index.                                          *)

ListedBytes == [p \in Programs |-> BytesIn(entries[p])]
MakingBytes == [w \in Workers |-> worker[w].size]

\* The bytes of each program's copies are natural numbers.
LEMMA ListedType ==
  ASSUME ShapeInv
  PROVE  /\ ListedBytes \in [Programs -> Nat] /\ Numbers(ListedBytes, Programs)
         /\ IsFiniteSet(Programs) /\ Sum(ListedBytes, Programs) \in Nat
         /\ \A p \in Programs : ListedBytes[p] <= Sum(ListedBytes, Programs)
<1>1. \A p \in Programs : BytesIn(entries[p]) \in Nat
  BY BytesType DEF ShapeInv
<1>2. ListedBytes \in [Programs -> Nat]
  BY <1>1 DEF ListedBytes
<1>3. Numbers(ListedBytes, Programs)
  BY <1>2 DEF Numbers
<1>4. IsFiniteSet(Programs)
  BY VaultAssumption
<1> QED BY <1>2, <1>3, <1>4, SumNat

\* So are the sizes of the copies in the making.
LEMMA MakingType ==
  ASSUME ShapeInv
  PROVE  /\ MakingBytes \in [Workers -> Nat] /\ Numbers(MakingBytes, Copying)
         /\ IsFiniteSet(Workers) /\ IsFiniteSet(Copying) /\ Copying \subseteq Workers
         /\ Sum(MakingBytes, Copying) \in Nat
         /\ \A w \in Copying : MakingBytes[w] <= Sum(MakingBytes, Copying)
<1>1. MakingBytes \in [Workers -> Nat]
  BY DEF MakingBytes, ShapeInv, WorkerShape
<1>2. Copying \subseteq Workers
  BY DEF Copying
<1>3. IsFiniteSet(Workers) /\ IsFiniteSet(Copying)
  BY <1>2, FS_Subset, VaultAssumption
<1>4. Numbers(MakingBytes, Copying) /\ \A w \in Copying : MakingBytes[w] \in Nat
  BY <1>1, <1>2 DEF Numbers
<1> QED BY <1>1, <1>2, <1>3, <1>4, SumNat

\* What is listed and what is in the making, as the property adds it up.
LEMMA AccountIsSum ==
  /\ MapThenSumSet(LAMBDA p : BytesIn(entries[p]), Programs) = Sum(ListedBytes, Programs)
  /\ MapThenSumSet(LAMBDA w : worker[w].size, Copying) = Sum(MakingBytes, Copying)
<1>1. MapThenSumSet(LAMBDA p : BytesIn(entries[p]), Programs) = Sum(ListedBytes, Programs)
  BY DEF MapThenSumSet, MapThenFoldSet, Sum, SumFn, SumBody, ListedBytes
<1>2. Copying \subseteq Workers
  BY DEF Copying
<1>3. MapThenSumSet(LAMBDA w : worker[w].size, Copying) = Sum(MakingBytes, Copying)
  BY <1>2 DEF MapThenSumSet, MapThenFoldSet, Sum, SumFn, SumBody, MakingBytes
<1> QED BY <1>1, <1>3

\* purge_expired, one list at a time.
LEMMA PurgeFacts ==
  ASSUME ShapeInv, purge_expired
  PROVE  /\ entries' \in [Programs -> Seq(EntryShape)]
         /\ \A p \in Programs : Kept(entries[p], entries'[p], Len(entries[p]))
         /\ claimed' \in [Programs -> SUBSET Documents]
         /\ \A p \in Programs : claimed'[p] = IF Len(entries'[p]) # 0 THEN claimed[p] ELSE {}
         /\ total' = Less(total, Sum(ListedBytes, Programs) - Sum(ListedBytes', Programs))
         /\ \A p \in Programs, d \in Documents :
              (\E i \in DOMAIN entries[p] : entries[p][i].old /\ entries[p][i].doc = d)
              => <<p, d>> \in exposed'
         /\ \A w \in Copying : <<worker[w].prog, worker[w].doc>> \in exposed'
         /\ exposed \subseteq exposed'
<1> DEFINE kept == [p \in Programs |-> retain(entries[p])]
           live == {p \in Programs : kept[p] # << >>}
           freed == [p \in Programs |-> BytesIn(entries[p]) - BytesIn(kept[p])]
<1>1. entries' = kept
  BY DEF purge_expired
<1>2. claimed' = [p \in Programs |-> IF p \in live THEN claimed[p] ELSE {}]
  BY DEF purge_expired
<1>3. total' = Less(total, Sum(freed, Programs))
  <2>1. total' = Less(total, MapThenSumSet(LAMBDA p : BytesIn(entries[p]) - BytesIn(kept[p]), Programs))
    BY DEF purge_expired, Less
  <2> HIDE DEF kept
  <2>2. MapThenSumSet(LAMBDA p : BytesIn(entries[p]) - BytesIn(kept[p]), Programs) = Sum(freed, Programs)
    BY DEF MapThenSumSet, MapThenFoldSet, Sum, SumFn, SumBody
  <2> QED BY <2>1, <2>2
<1>4. \A p \in Programs : kept[p] \in Seq(EntryShape) /\ Kept(entries[p], kept[p], Len(entries[p]))
  BY RetainFacts DEF ShapeInv
<1>5. entries' \in [Programs -> Seq(EntryShape)]
  BY <1>1, <1>4
<1>6. \A p \in Programs : kept[p] # << >> <=> Len(kept[p]) # 0
  BY <1>4
<1>7. \A p \in Programs : claimed'[p] = IF Len(entries'[p]) # 0 THEN claimed[p] ELSE {}
  BY <1>1, <1>2, <1>6
<1>8. claimed' \in [Programs -> SUBSET Documents]
  BY <1>2 DEF ShapeInv
<1>9. Sum(freed, Programs) = Sum(ListedBytes, Programs) - Sum(ListedBytes', Programs)
  <2>1. Numbers(ListedBytes, Programs) /\ IsFiniteSet(Programs)
    BY ListedType
  <2>2. \A p \in Programs : ListedBytes[p] = BytesIn(entries[p]) /\ ListedBytes'[p] = BytesIn(kept[p])
    BY <1>1 DEF ListedBytes
  <2>3. \A p \in Programs : BytesIn(kept[p]) \in Nat
    BY <1>4, BytesType
  <2>4. Numbers(ListedBytes', Programs)
    BY <2>2, <2>3 DEF Numbers
  <2> HIDE DEF kept
  <2>5. \A p \in Programs : freed[p] = ListedBytes[p] - ListedBytes'[p]
    BY <2>2
  <2> HIDE DEF freed
  <2> QED BY <2>1, <2>4, <2>5, SumMinus
<1>10. /\ \A p \in Programs, d \in Documents :
            (\E i \in DOMAIN entries[p] : entries[p][i].old /\ entries[p][i].doc = d)
            => <<p, d>> \in exposed'
       /\ \A w \in Copying : <<worker[w].prog, worker[w].doc>> \in exposed'
       /\ exposed \subseteq exposed'
  <2> DEFINE Aged == {x \in Programs \X Documents :
                        \E i \in DOMAIN entries[x[1]] : entries[x[1]][i].old /\ entries[x[1]][i].doc = x[2]}
             Made == {<<worker[w].prog, worker[w].doc>> : w \in Copying}
  <2>1. exposed' = exposed \cup Aged \cup Made
    BY DEF purge_expired
  <2>2. \A p \in Programs, d \in Documents :
          (\E i \in DOMAIN entries[p] : entries[p][i].old /\ entries[p][i].doc = d) => <<p, d>> \in Aged
    OBVIOUS
  <2>3. \A w \in Copying : <<worker[w].prog, worker[w].doc>> \in Made
    OBVIOUS
  <2> HIDE DEF Aged, Made
  <2> QED BY <2>1, <2>2, <2>3
<1> HIDE DEF kept, freed, live
<1>11. \A p \in Programs : Kept(entries[p], entries'[p], Len(entries[p]))
  BY <1>1, <1>4
<1>12. total' = Less(total, Sum(ListedBytes, Programs) - Sum(ListedBytes', Programs))
  BY <1>3, <1>9
<1> QED BY <1>5, <1>7, <1>8, <1>10, <1>11, <1>12

\* A finished copy is of something that was there.
LEMMA CopyIsSaved ==
  ASSUME NEW first \in Saved, NEW last \in Contents, NEW c \in CopyOutcomes(first, last)
  PROVE  c \in Saved /\ (c \in {first, last} \/ c = "torn")
BY DEF CopyOutcomes, Saved, Contents

-----------------------------------------------------------------------------
(* The shape of the state is kept.                                         *)

\* The vault starts empty and idle.
LEMMA ShapeInit == Init => ShapeInv
<1> SUFFICES ASSUME Init PROVE ShapeInv
  OBVIOUS
<1>1. content \in [Documents -> Contents] /\ landing \subseteq OperationShape
  BY DEF Init, Contents
<1>2. worker \in [Workers -> WorkerShape] /\ \A w \in Workers : Placed(worker[w])
  BY IdleShape DEF Init
<1>3. << >> \in Seq(EntryShape)
  OBVIOUS
<1>4. entries \in [Programs -> Seq(EntryShape)] /\ claimed \in [Programs -> SUBSET Documents]
  BY <1>3 DEF Init
<1>5. total \in Int /\ ops \in Nat
  BY DEF Init
<1> QED BY <1>1, <1>2, <1>4, <1>5 DEF ShapeInv

\* Every step that touches a worker moves it to a place it may be in.
LEMMA WorkersKeepShape ==
  ASSUME ShapeInv, Next
  PROVE  worker' \in [Workers -> WorkerShape] /\ \A w \in Workers : Placed(worker'[w])
<1>1. ASSUME NEW w \in Workers, Moves(w)
      PROVE  worker' \in [Workers -> WorkerShape] /\ \A v \in Workers : Placed(worker'[v])
  BY <1>1, WorkerFacts DEF Moves
<1>2. ASSUME UNCHANGED worker
      PROVE  worker' \in [Workers -> WorkerShape] /\ \A v \in Workers : Placed(worker'[v])
  BY <1>2 DEF ShapeInv
<1>3. ASSUME NEW p \in Programs, NEW d \in Documents, NEW w \in Workers,
             PreWrite(p, d, w) \/ PreSetInformation(p, d, w)
      PROVE  Moves(w)
  BY <1>3, AskedMoves DEF PreWrite, PreSetInformation, MayIssue, MovesOn
<1>4. ASSUME NEW w \in Workers, HoldTimesOut(w) PROVE Moves(w)
  BY <1>4, HoldMoves
<1>5. ASSUME NEW w \in Workers, Handle(w)
      PROVE  worker' \in [Workers -> WorkerShape] /\ \A v \in Workers : Placed(worker'[v])
  <2>1. CASE Claim(w)
    BY <1>1, <2>1, ClaimMoves
  <2>2. CASE \/ Skip(w) \/ CopyFails(w) \/ (\E c \in Contents : CopyDone(w, c)) \/ Observe(w)
             \/ Terminate(w) \/ TerminateRefused(w)
    BY <1>1, <2>2, PlainMoves DEF MovesOn
  <2>3. CASE ReplyAllow(w) \/ ReplyRefused(w) \/ RestoreEnds(w)
    BY <1>1, <2>3, IdleMoves DEF MovesOn, ReplyAllow, ReplyRefused, RestoreEnds
  <2>4. CASE ReplyBlock(w)
    BY <1>1, <2>4, ConvictedMoves DEF MovesOn
  <2>5. CASE RestoreTakes(w)
    BY <1>1, <2>5, TakesMoves
  <2>6. CASE RestoreOne(w)
    BY <2>6, RestoreOneMoves
  <2>7. CASE RestoreOneFails(w)
    BY <1>1, <2>7, RestoreFailsMoves
  <2> QED BY <1>5, <2>1, <2>2, <2>3, <2>4, <2>5, <2>6, <2>7 DEF Handle
<1>6. ASSUME NEW p \in Programs, NEW d \in Documents, PreWriteThrottled(p, d) PROVE UNCHANGED worker
  BY <1>6 DEF PreWriteThrottled
<1>7. ASSUME NEW d \in Documents, SecondPasses(d) PROVE UNCHANGED worker
  BY <1>7 DEF SecondPasses
<1>8. ASSUME NEW o \in landing, Land(o) PROVE UNCHANGED worker
  BY <1>8 DEF Land
<1>9. ASSUME NEW p \in Programs, WindowPasses(p) PROVE UNCHANGED worker
  BY <1>9 DEF WindowPasses
<1>10. CopiesAge \/ purge_expired => UNCHANGED worker
  BY DEF CopiesAge, purge_expired
<1> QED BY <1>1, <1>2, <1>3, <1>4, <1>5, <1>6, <1>7, <1>8, <1>9, <1>10 DEF Next

\* What changes the documents: an operation that takes effect, and an undo.
LEMMA ContentChanges ==
  ASSUME ShapeInv, Next
  PROVE  \/ UNCHANGED content
         \/ \E o \in landing : Land(o)
         \/ \E w \in Workers : RestoreOne(w)
<1>1. ASSUME NEW w \in Workers, Handle(w) PROVE UNCHANGED content \/ RestoreOne(w)
  BY <1>1 DEF Handle, Claim, Skip, CopyFails, CopyDone, Observe, ReplyAllow, ReplyBlock,
     ReplyRefused,
     Terminate, TerminateRefused, RestoreTakes, RestoreOneFails, RestoreEnds, driver
<1>2. ASSUME NEW p \in Programs, NEW d \in Documents, NEW w \in Workers,
             PreWrite(p, d, w) \/ PreSetInformation(p, d, w) \/ PreWriteThrottled(p, d)
      PROVE  UNCHANGED content
  BY <1>2 DEF PreWrite, PreSetInformation, PreWriteThrottled, driver
<1>3. ASSUME NEW p \in Programs, NEW d \in Documents, PreWriteThrottled(p, d) PROVE UNCHANGED content
  BY <1>3 DEF PreWriteThrottled
<1>4. ASSUME NEW d \in Documents, SecondPasses(d) PROVE UNCHANGED content
  BY <1>4 DEF SecondPasses
<1>5. ASSUME NEW w \in Workers, HoldTimesOut(w) PROVE UNCHANGED content
  BY <1>5 DEF HoldTimesOut
<1>6. ASSUME NEW p \in Programs, WindowPasses(p) PROVE UNCHANGED content
  BY <1>6 DEF WindowPasses, driver
<1>7. CopiesAge \/ purge_expired => UNCHANGED content
  BY DEF CopiesAge, purge_expired, driver
<1> QED BY <1>1, <1>2, <1>3, <1>4, <1>5, <1>6, <1>7 DEF Next

\* What changes the operations under way: one is let through, or takes effect.
LEMMA LandingChanges ==
  ASSUME ShapeInv, Next
  PROVE  \/ UNCHANGED <<landing, exposed>>
         \/ purge_expired
         \/ \E o \in landing : Land(o)
         \/ \E o \in OperationShape :
              /\ LetThrough(o) /\ UNCHANGED entries /\ UNCHANGED undone /\ UNCHANGED content
              /\ o.prog \in alive \/ \E w \in Workers : worker[w].prog = o.prog /\ worker[w].pc # "restoring"
<1>1. ASSUME NEW i \in Nat, NEW p \in Programs, NEW d \in Documents, NEW k \in {"write", "remove"}
      PROVE  /\ Operation(i, p, d, k) \in OperationShape
             /\ Operation(i, p, d, k).prog = p
  BY DEF Operation, OperationShape
<1>2. ASSUME NEW w \in Workers, HoldTimesOut(w) \/ ReplyAllow(w)
      PROVE  \E o \in OperationShape :
               /\ LetThrough(o) /\ UNCHANGED entries /\ UNCHANGED undone /\ UNCHANGED content
               /\ o.prog = worker[w].prog /\ worker[w].pc # "restoring"
  <2>1. worker[w].pc \in {"preserve", "copying", "observe", "reply"}
    BY <1>2 DEF HoldTimesOut, ReplyAllow, Held
  <2>2. worker[w].id \in Nat /\ worker[w].kind \in {"write", "remove"}
    BY WorkerFacts DEF WorkerShape
  <2>3. worker[w].prog \in Programs /\ worker[w].doc \in Documents
    BY <2>1, WorkerFacts DEF Placed
  <2> DEFINE o == Operation(worker[w].id, worker[w].prog, worker[w].doc, worker[w].kind)
  <2>4. o \in OperationShape /\ o.prog = worker[w].prog
    BY <1>1, <2>2, <2>3
  <2>5. LetThrough(o) /\ UNCHANGED entries /\ UNCHANGED undone /\ UNCHANGED content
    BY <1>2 DEF HoldTimesOut, ReplyAllow, vault
  <2> HIDE DEF o
  <2> QED BY <2>1, <2>4, <2>5
<1>3. ASSUME NEW p \in Programs, NEW d \in Documents, PreWriteThrottled(p, d)
      PROVE  \E o \in OperationShape :
               /\ LetThrough(o) /\ UNCHANGED entries /\ UNCHANGED undone /\ UNCHANGED content
               /\ o.prog \in alive
  <2> DEFINE o == Operation(ops + 1, p, d, "write")
  <2>1. o \in OperationShape /\ o.prog = p
    BY <1>1 DEF ShapeInv
  <2>2. LetThrough(o) /\ UNCHANGED entries /\ UNCHANGED undone /\ UNCHANGED content /\ p \in alive
    BY <1>3 DEF PreWriteThrottled, MayIssue, vault
  <2> HIDE DEF o
  <2> QED BY <2>1, <2>2
<1>4. ASSUME NEW w \in Workers, Handle(w) PROVE UNCHANGED <<landing, exposed>> \/ ReplyAllow(w)
  BY <1>4 DEF Handle, Claim, Skip, CopyFails, CopyDone, Observe, ReplyBlock, ReplyRefused,
     Terminate, TerminateRefused, RestoreTakes, RestoreOne, RestoreOneFails, RestoreEnds, driver
<1>5. ASSUME NEW p \in Programs, NEW d \in Documents, NEW w \in Workers,
             PreWrite(p, d, w) \/ PreSetInformation(p, d, w)
      PROVE  UNCHANGED <<landing, exposed>>
  BY <1>5 DEF PreWrite, PreSetInformation, driver
<1>6. ASSUME NEW d \in Documents, SecondPasses(d) PROVE UNCHANGED <<landing, exposed>>
  BY <1>6 DEF SecondPasses
<1>7. ASSUME NEW p \in Programs, WindowPasses(p) PROVE UNCHANGED <<landing, exposed>>
  BY <1>7 DEF WindowPasses, driver
<1>8. CopiesAge => UNCHANGED <<landing, exposed>>
  BY DEF CopiesAge, driver
<1> QED BY <1>2, <1>3, <1>4, <1>5, <1>6, <1>7, <1>8 DEF Next

\* The steps that change the index.
IndexStep ==
  \/ \E w \in Workers : Claim(w) \/ CopyFails(w) \/ RestoreTakes(w) \/ \E c \in Contents : CopyDone(w, c)
  \/ CopiesAge \/ purge_expired

\* The copies in the making, and whose and of what they are, stay as they are.
SameCopies ==
  \A v \in Workers :
    /\ worker'[v].pc = "copying" <=> worker[v].pc = "copying"
    /\ worker[v].pc = "copying" =>
         /\ worker'[v].prog = worker[v].prog /\ worker'[v].doc = worker[v].doc
         /\ worker'[v].first = worker[v].first /\ worker'[v].size = worker[v].size

\* Every other step leaves the index and the copies in the making alone.
LEMMA OtherSteps ==
  ASSUME ShapeInv, Next, ~IndexStep
  PROVE  UNCHANGED <<entries, claimed, total, undone>> /\ SameCopies
<1>1. ASSUME NEW w \in Workers, MovesOn(w), worker[w].pc # "copying" PROVE SameCopies
  BY <1>1 DEF MovesOn, Moves, SameCopies
<1>2. ASSUME UNCHANGED worker PROVE SameCopies
  BY <1>2 DEF SameCopies
<1>3. ASSUME NEW w \in Workers, Handle(w)
      PROVE  UNCHANGED <<entries, claimed, total, undone>> /\ SameCopies
  <2>1. CASE Skip(w) \/ Observe(w) \/ Terminate(w) \/ TerminateRefused(w)
    <3>1. MovesOn(w)
      BY <2>1, PlainMoves
    <3>2. worker[w].pc # "copying" /\ UNCHANGED <<entries, claimed, total, undone>>
      BY <2>1 DEF Skip, Observe, Terminate, TerminateRefused, vault
    <3> QED BY <1>1, <3>1, <3>2
  <2>2. CASE ReplyAllow(w) \/ ReplyRefused(w) \/ RestoreEnds(w)
    <3>1. MovesOn(w)
      BY <2>2, IdleMoves DEF ReplyAllow, ReplyRefused, RestoreEnds
    <3>2. worker[w].pc # "copying" /\ UNCHANGED <<entries, claimed, total, undone>>
      BY <2>2 DEF ReplyAllow, ReplyRefused, RestoreEnds, vault
    <3> QED BY <1>1, <3>1, <3>2
  <2>3. CASE ReplyBlock(w)
    <3>1. worker[w].pc # "copying" /\ UNCHANGED <<entries, claimed, total, undone>>
      BY <2>3 DEF ReplyBlock, vault
    <3> QED BY <1>1, <2>3, <3>1, ConvictedMoves
  <2>4. CASE RestoreOne(w)
    <3>1. UNCHANGED <<entries, claimed, total, undone>>
      BY <2>4 DEF RestoreOne
    <3>2. \A v \in Workers : SameTask(worker'[v], worker[v])
      BY <2>4, RestoreOneMoves
    <3> QED BY <3>1, <3>2 DEF SameCopies, SameTask
  <2>5. CASE RestoreOneFails(w)
    <3>1. UNCHANGED <<entries, claimed, total, undone>>
      BY <2>5 DEF RestoreOneFails
    <3>2. Moves(w) /\ SameTask(worker'[w], worker[w])
      BY <2>5, RestoreFailsMoves
    <3> QED BY <3>1, <3>2 DEF SameCopies, SameTask, Moves
  <2> QED BY <1>3, <2>1, <2>2, <2>3, <2>4, <2>5 DEF Handle, IndexStep
<1>4. ASSUME NEW p \in Programs, NEW d \in Documents, NEW w \in Workers,
             PreWrite(p, d, w) \/ PreSetInformation(p, d, w)
      PROVE  UNCHANGED <<entries, claimed, total, undone>> /\ SameCopies
  <2>1. MovesOn(w)
    BY <1>4, AskedMoves DEF PreWrite, PreSetInformation, MayIssue
  <2>2. worker[w].pc # "copying" /\ UNCHANGED <<entries, claimed, total, undone>>
    BY <1>4 DEF PreWrite, PreSetInformation, vault
  <2> QED BY <1>1, <2>1, <2>2
<1>5. ASSUME NEW w \in Workers, HoldTimesOut(w)
      PROVE  UNCHANGED <<entries, claimed, total, undone>> /\ SameCopies
  <2>1. UNCHANGED <<entries, claimed, total, undone>>
    BY <1>5 DEF HoldTimesOut, vault
  <2>2. SameCopies
    BY <1>5, HoldMoves DEF SameCopies, Moves
  <2> QED BY <2>1, <2>2
<1>6. ASSUME NEW p \in Programs, NEW d \in Documents, PreWriteThrottled(p, d)
      PROVE  UNCHANGED <<entries, claimed, total, undone, worker>>
  BY <1>6 DEF PreWriteThrottled, vault
<1>7. ASSUME NEW d \in Documents, SecondPasses(d) PROVE UNCHANGED <<entries, claimed, total, undone, worker>>
  BY <1>7 DEF SecondPasses, vault
<1>8. ASSUME NEW o \in landing, Land(o) PROVE UNCHANGED <<entries, claimed, total, undone, worker>>
  BY <1>8 DEF Land, vault
<1>9. ASSUME NEW p \in Programs, WindowPasses(p) PROVE UNCHANGED <<entries, claimed, total, undone, worker>>
  BY <1>9 DEF WindowPasses, vault
<1> QED BY <1>2, <1>3, <1>4, <1>5, <1>6, <1>7, <1>8, <1>9 DEF Next, IndexStep

\* Ageing changes neither what is listed nor how much it takes.
LEMMA AgeFacts ==
  ASSUME ShapeInv, CopiesAge
  PROVE  /\ entries' \in [Programs -> Seq(EntryShape)] /\ ListedBytes' = ListedBytes
         /\ UNCHANGED <<claimed, total, undone, worker, content, landing, exposed, alive>>
         /\ \A p \in Programs :
              /\ DOMAIN entries'[p] = DOMAIN entries[p] /\ Len(entries'[p]) = Len(entries[p])
              /\ \A i \in DOMAIN entries[p] : /\ entries'[p][i].doc = entries[p][i].doc
                                             /\ entries'[p][i].content = entries[p][i].content
<1>1. ASSUME NEW p \in Programs
      PROVE  /\ entries'[p] \in Seq(EntryShape)
             /\ DOMAIN entries'[p] = DOMAIN entries[p] /\ Len(entries'[p]) = Len(entries[p])
             /\ \A i \in DOMAIN entries[p] : /\ entries'[p][i].doc = entries[p][i].doc
                                            /\ entries'[p][i].content = entries[p][i].content
             /\ BytesIn(entries'[p]) = BytesIn(entries[p])
  <2> DEFINE s == entries[p]
             a(i) == [s[i] EXCEPT !.old = TRUE]
             t == [i \in DOMAIN s |-> a(i)]
  <2>1. entries'[p] = t
    BY DEF CopiesAge
  <2>2. s \in Seq(EntryShape)
    BY DEF ShapeInv
  <2>3. DOMAIN s = 1..Len(s) /\ Len(s) \in Nat /\ IsFiniteSet(DOMAIN s) /\ Numbers(Sizes(s), DOMAIN s)
    BY <2>2, BytesType
  <2>4. \A i \in DOMAIN s : /\ a(i) \in EntryShape /\ a(i).doc = s[i].doc
                            /\ a(i).content = s[i].content
    <3>1. \A i \in DOMAIN s : s[i] \in EntryShape
      BY <2>2
    <3> SUFFICES ASSUME NEW i \in DOMAIN s
                 PROVE  a(i) \in EntryShape /\ a(i).doc = s[i].doc /\ a(i).content = s[i].content
      OBVIOUS
    <3> DEFINE e == s[i]
    <3>2. e \in EntryShape
      BY <3>1
    <3>3. a(i) = [e EXCEPT !.old = TRUE]
      OBVIOUS
    <3> HIDE DEF e, a
    <3>4. /\ [e EXCEPT !.old = TRUE] \in EntryShape
          /\ [e EXCEPT !.old = TRUE].doc = e.doc /\ [e EXCEPT !.old = TRUE].content = e.content
      BY <3>2 DEF EntryShape
    <3> QED BY <3>3, <3>4 DEF e
  <2> HIDE DEF a, s
  <2>5. t \in Seq(EntryShape) /\ DOMAIN t = DOMAIN s /\ Len(t) = Len(s)
    BY <2>3, <2>4
  <2>6. \A i \in DOMAIN s : t[i].doc = s[i].doc /\ t[i].content = s[i].content
    BY <2>4
  <2> HIDE DEF t
  <2>7. \A i \in DOMAIN s : Sizes(s)[i] = Sizes(t)[i]
    BY <2>5, <2>6 DEF Sizes, EntrySize
  <2>8. Sum(Sizes(s), DOMAIN s) = Sum(Sizes(t), DOMAIN s)
    BY <2>3, <2>7, SumAgrees
  <2>9. BytesIn(t) = BytesIn(s)
    BY <2>5, <2>8, BytesAreSum
  <2> QED BY <2>1, <2>5, <2>6, <2>9 DEF s
<1>2. DOMAIN entries' = Programs /\ entries' = [p \in Programs |-> entries'[p]]
  BY DEF CopiesAge
<1>3. entries' \in [Programs -> Seq(EntryShape)]
  BY <1>1, <1>2
<1>4. ListedBytes' = ListedBytes
  BY <1>1 DEF ListedBytes
<1>5. UNCHANGED <<claimed, total, undone, worker, content, landing, exposed, alive>>
  BY DEF CopiesAge, driver
<1> QED BY <1>1, <1>3, <1>4, <1>5

\* A claim, in the index.
LEMMA ClaimFacts ==
  ASSUME ShapeInv, NEW w \in Workers, Claim(w)
  PROVE  LET p == worker[w].prog
             d == worker[w].doc IN
         /\ Admits(p, d) /\ claimed' = [claimed EXCEPT ![p] = @ \cup {d}]
         /\ total' = total + worker'[w].size /\ worker'[w].size = SizeOf(content[d])
         /\ UNCHANGED <<entries, undone, content, landing, exposed, alive>>
BY ClaimMoves DEF Claim, driver

\* A finished copy, in the index.
LEMMA CopyDoneFacts ==
  ASSUME ShapeInv, NEW w \in Workers, NEW c \in Contents, CopyDone(w, c)
  PROVE  LET p == worker[w].prog
             d == worker[w].doc
             e == [doc |-> d, content |-> c, old |-> FALSE] IN
         /\ worker[w].pc = "copying" /\ p \in Programs /\ d \in Documents /\ MovesOn(w)
         /\ e \in EntryShape /\ e.doc = d /\ e.content = c
         /\ entries' = [entries EXCEPT ![p] = Append(@, e)]
         /\ total' = total + (SizeOf(c) - worker[w].size)
         /\ c \in {worker[w].first, content[d]} \/ c = "torn"
         /\ UNCHANGED <<claimed, undone, content, landing, exposed, alive>>
<1> DEFINE p == worker[w].prog
           d == worker[w].doc
           e == [doc |-> d, content |-> c, old |-> FALSE]
<1>1. worker[w].pc = "copying" /\ worker[w] \in WorkerShape /\ Placed(worker[w])
  BY WorkerFacts DEF CopyDone
<1>2. p \in Programs /\ d \in Documents /\ worker[w].first \in Saved
  BY <1>1 DEF Placed, WorkerShape
<1>3. content[d] \in Contents /\ c \in CopyOutcomes(worker[w].first, content[d])
  BY <1>2 DEF ShapeInv, CopyDone
<1>4. c \in Saved /\ (c \in {worker[w].first, content[d]} \/ c = "torn")
  BY <1>2, <1>3, CopyIsSaved
<1>5. e \in EntryShape /\ e.doc = d /\ e.content = c
  BY <1>2, <1>4 DEF EntryShape
<1>6. entries' = [entries EXCEPT ![p] = Append(@, e)] /\ total' = total + (SizeOf(c) - worker[w].size)
  BY DEF CopyDone
<1>7. UNCHANGED <<claimed, undone, content, landing, exposed, alive>>
  BY DEF CopyDone, driver
<1>8. MovesOn(w)
  BY PlainMoves
<1> QED BY <1>1, <1>2, <1>4, <1>5, <1>6, <1>7, <1>8

\* A failed copy, in the index.
LEMMA CopyFailsFacts ==
  ASSUME ShapeInv, NEW w \in Workers, CopyFails(w)
  PROVE  /\ worker[w].pc = "copying" /\ worker[w].prog \in Programs /\ worker[w].doc \in Documents
         /\ MovesOn(w) /\ claimed' = [claimed EXCEPT ![worker[w].prog] = @ \ {worker[w].doc}]
         /\ total' = Less(total, worker[w].size) /\ worker[w].size \in Nat
         /\ UNCHANGED <<entries, undone, content, landing, exposed, alive>>
<1>1. worker[w].pc = "copying" /\ worker[w] \in WorkerShape /\ Placed(worker[w])
  BY WorkerFacts DEF CopyFails
<1>2. worker[w].prog \in Programs /\ worker[w].doc \in Documents /\ worker[w].size \in Nat
  BY <1>1 DEF Placed, WorkerShape
<1>3. total' = Less(total, worker[w].size)
  BY DEF CopyFails, Less
<1> QED BY <1>1, <1>2, <1>3, PlainMoves DEF CopyFails, driver

\* An undo begins, in the index.
LEMMA TakesFacts ==
  ASSUME ShapeInv, NEW w \in Workers, RestoreTakes(w)
  PROVE  LET p == worker[w].prog IN
         /\ p \in Programs /\ entries' = [entries EXCEPT ![p] = << >>]
         /\ claimed' = [claimed EXCEPT ![p] = {}] /\ undone' = undone \cup {p}
         /\ total' = Less(total, ListedBytes[p])
         /\ UNCHANGED <<content, landing, exposed, alive>>
<1>1. worker[w].prog \in Programs
  BY TakesMoves
<1>2. total' = Less(total, BytesIn(entries[worker[w].prog]))
  BY DEF RestoreTakes, Less
<1>3. BytesIn(entries[worker[w].prog]) = ListedBytes[worker[w].prog]
  BY <1>1 DEF ListedBytes
<1> QED BY <1>1, <1>2, <1>3 DEF RestoreTakes, driver

\* Every step keeps the shape of the documents, the operations under way and the
\* count of operations.
LEMMA DriverShape ==
  ASSUME ShapeInv, Next
  PROVE  content' \in [Documents -> Contents] /\ landing' \subseteq OperationShape /\ ops' \in Nat
<1>1. content' \in [Documents -> Contents]
  <2>1. CASE UNCHANGED content
    BY <2>1 DEF ShapeInv
  <2>2. ASSUME NEW o \in landing, Land(o) PROVE content' \in [Documents -> Contents]
    <3>1. o \in OperationShape
      BY DEF ShapeInv
    <3>2. o.prog \in Contents /\ "gone" \in Contents
      BY <3>1 DEF OperationShape, Contents
    <3> QED BY <2>2, <3>2 DEF Land, ShapeInv
  <2>3. ASSUME NEW w \in Workers, RestoreOne(w) PROVE content' \in [Documents -> Contents]
    <3>1. Head(worker[w].todo) \in EntryShape
      BY <2>3, RestoreOneMoves
    <3>2. Head(worker[w].todo).content \in Contents
      BY <3>1 DEF EntryShape, Saved
    <3> QED BY <2>3, <3>2 DEF RestoreOne, ShapeInv
  <2> QED BY <2>1, <2>2, <2>3, ContentChanges
<1>2. landing' \subseteq OperationShape
  <2>1. landing \subseteq OperationShape
    BY DEF ShapeInv
  <2>2. purge_expired => UNCHANGED landing
    BY DEF purge_expired
  <2>3. ASSUME NEW o \in landing, Land(o) PROVE landing' \subseteq landing
    BY <2>3 DEF Land
  <2>4. ASSUME NEW o \in OperationShape, LetThrough(o) PROVE landing' \subseteq OperationShape
    BY <2>1, <2>4 DEF LetThrough
  <2> QED BY <2>1, <2>2, <2>3, <2>4, LandingChanges
<1>3. ops' \in Nat
  <2>1. ops \in Nat
    BY DEF ShapeInv
  <2>2. ASSUME NEW p \in Programs, NEW d \in Documents, NEW w \in Workers,
               PreWrite(p, d, w) \/ PreSetInformation(p, d, w)
        PROVE  ops' = ops + 1
    BY <2>2 DEF PreWrite, PreSetInformation, MayIssue
  <2>3. ASSUME NEW p \in Programs, NEW d \in Documents, PreWriteThrottled(p, d) PROVE ops' = ops + 1
    BY <2>3 DEF PreWriteThrottled, MayIssue
  <2>4. ASSUME NEW w \in Workers, HoldTimesOut(w) \/ Handle(w) PROVE UNCHANGED ops
    BY <2>4 DEF Handle, Claim, Skip, CopyFails, CopyDone, Observe, ReplyAllow, ReplyBlock,
       ReplyRefused,
       Terminate, TerminateRefused, RestoreTakes, RestoreOne, RestoreOneFails, RestoreEnds,
       HoldTimesOut
  <2>5. ASSUME NEW d \in Documents, SecondPasses(d) PROVE UNCHANGED ops
    BY <2>5 DEF SecondPasses
  <2>6. ASSUME NEW o \in landing, Land(o) PROVE UNCHANGED ops
    BY <2>6 DEF Land
  <2>7. ASSUME NEW p \in Programs, WindowPasses(p) PROVE UNCHANGED ops
    BY <2>7 DEF WindowPasses
  <2>8. CopiesAge \/ purge_expired => UNCHANGED ops
    BY DEF CopiesAge, purge_expired
  <2> QED BY <2>1, <2>2, <2>3, <2>4, <2>5, <2>6, <2>7, <2>8 DEF Next
<1> QED BY <1>1, <1>2, <1>3

\* Every step keeps the shape of the index.
LEMMA IndexShape ==
  ASSUME ShapeInv, Next
  PROVE  /\ entries' \in [Programs -> Seq(EntryShape)] /\ claimed' \in [Programs -> SUBSET Documents]
         /\ total' \in Int
<1>1. /\ entries \in [Programs -> Seq(EntryShape)] /\ claimed \in [Programs -> SUBSET Documents]
      /\ total \in Int
  BY DEF ShapeInv
<1>2. CASE ~IndexStep
  BY <1>1, <1>2, OtherSteps
<1>3. ASSUME NEW w \in Workers, Claim(w)
      PROVE  /\ entries' \in [Programs -> Seq(EntryShape)] /\ claimed' \in [Programs -> SUBSET Documents]
             /\ total' \in Int
  <2>1. worker[w].doc \in Documents /\ worker[w].prog \in Programs
    BY <1>3, ClaimMoves
  <2>2. worker'[w].size \in Int
    BY <1>3, ClaimFacts, SizeType
  <2>3. claimed' = [claimed EXCEPT ![worker[w].prog] = @ \cup {worker[w].doc}]
        /\ total' = total + worker'[w].size /\ UNCHANGED entries
    BY <1>3, ClaimFacts
  <2> QED BY <1>1, <2>1, <2>2, <2>3
<1>4. ASSUME NEW w \in Workers, NEW c \in Contents, CopyDone(w, c)
      PROVE  /\ entries' \in [Programs -> Seq(EntryShape)] /\ claimed' \in [Programs -> SUBSET Documents]
             /\ total' \in Int
  <2> DEFINE p == worker[w].prog
             e == [doc |-> worker[w].doc, content |-> c, old |-> FALSE]
  <2>1. p \in Programs /\ e \in EntryShape /\ entries' = [entries EXCEPT ![p] = Append(@, e)]
        /\ total' = total + (SizeOf(c) - worker[w].size) /\ UNCHANGED claimed
    BY <1>4, CopyDoneFacts
  <2>2. SizeOf(c) \in Nat /\ worker[w].size \in Nat
    BY SizeType, WorkerFacts DEF WorkerShape
  <2> HIDE DEF e, p
  <2>3. entries[p] \in Seq(EntryShape)
    BY <1>1, <2>1
  <2>4. Append(entries[p], e) \in Seq(EntryShape)
    BY <2>1, <2>3
  <2> QED BY <1>1, <2>1, <2>2, <2>4
<1>5. ASSUME NEW w \in Workers, CopyFails(w)
      PROVE  /\ entries' \in [Programs -> Seq(EntryShape)] /\ claimed' \in [Programs -> SUBSET Documents]
             /\ total' \in Int
  <2>1. /\ claimed' = [claimed EXCEPT ![worker[w].prog] = @ \ {worker[w].doc}]
        /\ total' = Less(total, worker[w].size) /\ worker[w].size \in Nat /\ UNCHANGED entries
    BY <1>5, CopyFailsFacts
  <2>2. total' \in Int
    <3>1. worker[w].size \in Int
      BY <2>1
    <3>2. Less(total, worker[w].size) \in Nat
      BY <1>1, <3>1, Saturates
    <3> QED BY <2>1, <3>2
  <2> QED BY <1>1, <2>1, <2>2
<1>6. ASSUME NEW w \in Workers, RestoreTakes(w)
      PROVE  /\ entries' \in [Programs -> Seq(EntryShape)] /\ claimed' \in [Programs -> SUBSET Documents]
             /\ total' \in Int
  <2> DEFINE p == worker[w].prog
  <2>1. /\ p \in Programs /\ entries' = [entries EXCEPT ![p] = << >>]
        /\ claimed' = [claimed EXCEPT ![p] = {}] /\ total' = Less(total, ListedBytes[p])
    BY <1>6, TakesFacts
  <2>2. ListedBytes[p] \in Nat
    BY <2>1, ListedType
  <2>3. total' \in Int
    <3>1. ListedBytes[p] \in Int
      BY <2>2
    <3>2. Less(total, ListedBytes[p]) \in Nat
      BY <1>1, <3>1, Saturates
    <3> QED BY <2>1, <3>2
  <2>4. << >> \in Seq(EntryShape)
    OBVIOUS
  <2> QED BY <1>1, <2>1, <2>3, <2>4
<1>7. CASE CopiesAge
  BY <1>1, <1>7, AgeFacts
<1>8. CASE purge_expired
  <2>1. /\ entries' \in [Programs -> Seq(EntryShape)] /\ claimed' \in [Programs -> SUBSET Documents]
        /\ total' = Less(total, Sum(ListedBytes, Programs) - Sum(ListedBytes', Programs))
    BY <1>8, PurgeFacts
  <2>2. Sum(ListedBytes, Programs) \in Int
    BY ListedType
  <2>3. ListedBytes' \in [Programs -> Nat]
    <3>1. \A p \in Programs : BytesIn(entries'[p]) \in Nat
      BY <2>1, BytesType
    <3> QED BY <3>1 DEF ListedBytes
  <2>4. Sum(ListedBytes', Programs) \in Int
    BY <2>3, SumNat, VaultAssumption
  <2>5. Sum(ListedBytes, Programs) - Sum(ListedBytes', Programs) \in Int
    BY <2>2, <2>4
  <2>6. total' \in Int
    BY <1>1, <2>1, <2>5, Saturates
  <2> QED BY <2>1, <2>6
<1> QED BY <1>2, <1>3, <1>4, <1>5, <1>6, <1>7, <1>8 DEF IndexStep

\* Every step keeps the shape of the state.
LEMMA ShapeStep == ShapeInv /\ [Next]_vars => ShapeInv'
<1> SUFFICES ASSUME ShapeInv, [Next]_vars PROVE ShapeInv'
  OBVIOUS
<1>1. CASE Next
  <2>1. content' \in [Documents -> Contents] /\ landing' \subseteq OperationShape /\ ops' \in Nat
    BY <1>1, DriverShape
  <2>2. /\ entries' \in [Programs -> Seq(EntryShape)] /\ claimed' \in [Programs -> SUBSET Documents]
        /\ total' \in Int
    BY <1>1, IndexShape
  <2>3. worker' \in [Workers -> WorkerShape] /\ \A w \in Workers : Placed(worker'[w])
    BY <1>1, WorkersKeepShape
  <2>4. (\A w \in Workers : Placed(worker[w]))'
    BY <2>3 DEF Placed
  <2> QED BY <2>1, <2>2, <2>3, <2>4 DEF ShapeInv
<1>2. CASE UNCHANGED vars
  BY <1>2 DEF ShapeInv, vars, Placed
<1> QED BY <1>1, <1>2

-----------------------------------------------------------------------------
(* The total is what is listed and what is in the making.                  *)

TotalInv == total = Sum(ListedBytes, Programs) + Sum(MakingBytes, Copying)

\* Steps that leave the copies in the making alone leave their bytes alone.
LEMMA CopyingStays ==
  ASSUME ShapeInv, SameCopies
  PROVE  Copying' = Copying /\ Sum(MakingBytes', Copying') = Sum(MakingBytes, Copying)
<1>1. Copying' = Copying
  BY DEF Copying, SameCopies
<1>2. \A w \in Copying : MakingBytes[w] = MakingBytes'[w]
  BY DEF Copying, SameCopies, MakingBytes
<1>3. IsFiniteSet(Copying) /\ Numbers(MakingBytes, Copying)
  BY MakingType
<1>4. Sum(MakingBytes, Copying) = Sum(MakingBytes', Copying)
  BY <1>2, <1>3, SumAgrees
<1> QED BY <1>1, <1>4

\* A worker that begins to copy adds one copy in the making.
LEMMA CopyingGrows ==
  ASSUME ShapeInv, NEW w \in Workers, Moves(w), worker[w].pc # "copying",
         worker'[w].pc = "copying"
  PROVE  /\ w \notin Copying /\ Copying' = Copying \cup {w}
         /\ Sum(MakingBytes', Copying') = Sum(MakingBytes, Copying) + worker'[w].size
<1>1. w \notin Copying /\ Copying' = Copying \cup {w}
  BY DEF Copying, Moves
<1>2. \A v \in Copying : MakingBytes[v] = MakingBytes'[v]
  BY <1>1 DEF MakingBytes, Moves, Copying
<1>3. IsFiniteSet(Copying) /\ Numbers(MakingBytes, Copying) /\ Sum(MakingBytes, Copying) \in Nat
  BY MakingType
<1>4. MakingBytes'[w] = worker'[w].size /\ worker'[w].size \in Nat
  BY DEF MakingBytes, Moves, WorkerShape
<1>5. Numbers(MakingBytes', Copying \cup {w})
  BY <1>2, <1>3, <1>4 DEF Numbers
<1>6. Sum(MakingBytes', Copying \cup {w}) = MakingBytes'[w] + Sum(MakingBytes', Copying)
  BY <1>1, <1>3, <1>5, SumAdd
<1>7. Sum(MakingBytes, Copying) = Sum(MakingBytes', Copying)
  BY <1>2, <1>3, SumAgrees
<1>8. MakingBytes'[w] + Sum(MakingBytes', Copying) = Sum(MakingBytes, Copying) + worker'[w].size
  BY <1>3, <1>4, <1>7
<1> QED BY <1>1, <1>6, <1>8

\* A worker that ends its copy takes it away from those in the making.
LEMMA CopyingShrinks ==
  ASSUME ShapeInv, NEW w \in Workers, MovesOn(w), worker[w].pc = "copying"
  PROVE  /\ w \in Copying /\ Copying' = Copying \ {w}
         /\ Sum(MakingBytes', Copying') = Sum(MakingBytes, Copying) - worker[w].size
         /\ worker[w].size <= Sum(MakingBytes, Copying)
<1>1. w \in Copying /\ Copying' = Copying \ {w}
  BY DEF Copying, Moves, MovesOn
<1> DEFINE C == Copying \ {w}
<1>2. \A v \in C : MakingBytes[v] = MakingBytes'[v]
  BY <1>1 DEF MakingBytes, Moves, MovesOn, Copying
<1>3. /\ IsFiniteSet(Copying) /\ Numbers(MakingBytes, Copying) /\ Sum(MakingBytes, Copying) \in Nat
      /\ MakingBytes[w] <= Sum(MakingBytes, Copying)
  BY <1>1, MakingType
<1>4. MakingBytes[w] = worker[w].size /\ worker[w].size \in Nat
  BY WorkerFacts DEF MakingBytes, WorkerShape
<1>5. Numbers(MakingBytes, C) /\ IsFiniteSet(C)
  BY <1>3, FS_Subset DEF Numbers
<1>6. Sum(MakingBytes, Copying) = MakingBytes[w] + Sum(MakingBytes, C)
  BY <1>1, <1>3, SumSplit
<1> HIDE DEF C
<1>7. Sum(MakingBytes, C) = Sum(MakingBytes', C) /\ Sum(MakingBytes, C) \in Int
  BY <1>2, <1>5, SumAgrees, SumSplit
<1>8. Sum(MakingBytes', C) = Sum(MakingBytes, Copying) - worker[w].size
  BY <1>3, <1>4, <1>6, <1>7
<1> QED BY <1>1, <1>3, <1>4, <1>8 DEF C

\* One program's list changes.
LEMMA ListChanges ==
  ASSUME ShapeInv, NEW p \in Programs, NEW s \in Seq(EntryShape),
         entries' = [entries EXCEPT ![p] = s]
  PROVE  Sum(ListedBytes', Programs) = Sum(ListedBytes, Programs) - ListedBytes[p] + BytesIn(s)
<1>1. entries'[p] = s /\ \A z \in Programs \ {p} : entries'[z] = entries[z]
  BY DEF ShapeInv
<1>2. ListedBytes'[p] = BytesIn(s) /\ BytesIn(s) \in Nat
  BY <1>1, BytesType DEF ListedBytes
<1>3. \A z \in Programs \ {p} : ListedBytes[z] = ListedBytes'[z]
  BY <1>1 DEF ListedBytes
<1>4. IsFiniteSet(Programs) /\ Numbers(ListedBytes, Programs)
  BY ListedType
<1>5. Numbers(ListedBytes', Programs)
  BY <1>2, <1>3, <1>4 DEF Numbers
<1>6. Sum(ListedBytes', Programs) = Sum(ListedBytes, Programs) - ListedBytes[p] + ListedBytes'[p]
  BY <1>3, <1>4, <1>5, SumChange
<1> QED BY <1>2, <1>6

\* Every step keeps the account.
LEMMA TotalStep == ShapeInv /\ TotalInv /\ [Next]_vars => TotalInv'
<1> SUFFICES ASSUME ShapeInv, TotalInv, [Next]_vars PROVE TotalInv'
  OBVIOUS
<1> DEFINE L == Sum(ListedBytes, Programs)
           M == Sum(MakingBytes, Copying)
<1>1. L \in Nat /\ M \in Nat /\ total = L + M
  BY ListedType, MakingType DEF TotalInv
<1>2. ASSUME UNCHANGED <<entries, total>>, SameCopies PROVE TotalInv'
  <2>1. ListedBytes' = ListedBytes
    BY <1>2 DEF ListedBytes
  <2>2. Sum(MakingBytes', Copying') = M
    BY <1>2, CopyingStays
  <2> QED BY <1>1, <1>2, <2>1, <2>2 DEF TotalInv
<1>3. ASSUME UNCHANGED vars PROVE TotalInv'
  <2>1. UNCHANGED <<entries, total>> /\ SameCopies
    BY <1>3 DEF vars, SameCopies
  <2> QED BY <1>2, <2>1
<1>4. ASSUME Next, ~IndexStep PROVE TotalInv'
  BY <1>2, <1>4, OtherSteps
<1>5. ASSUME NEW w \in Workers, Claim(w) PROVE TotalInv'
  <2>1. Moves(w) /\ worker[w].pc # "copying" /\ worker'[w].pc = "copying"
    BY <1>5, ClaimMoves
  <2>2. Sum(MakingBytes', Copying') = M + worker'[w].size
    BY <2>1, CopyingGrows
  <2>3. UNCHANGED entries /\ total' = total + worker'[w].size /\ worker'[w].size \in Nat
    BY <1>5, ClaimFacts, SizeType
  <2>4. ListedBytes' = ListedBytes
    BY <2>3 DEF ListedBytes
  <2> HIDE DEF M, L
  <2>5. total' = L + (M + worker'[w].size)
    BY <1>1, <2>3
  <2> QED BY <2>2, <2>4, <2>5 DEF TotalInv, L, M
<1>6. ASSUME NEW w \in Workers, NEW c \in Contents, CopyDone(w, c) PROVE TotalInv'
  <2> DEFINE p == worker[w].prog
             e == [doc |-> worker[w].doc, content |-> c, old |-> FALSE]
             s == Append(entries[p], e)
  <2>1. /\ worker[w].pc = "copying" /\ p \in Programs /\ MovesOn(w) /\ e \in EntryShape /\ e.content = c
        /\ entries' = [entries EXCEPT ![p] = s]
        /\ total' = total + (SizeOf(c) - worker[w].size)
    BY <1>6, CopyDoneFacts
  <2>2. Sum(MakingBytes', Copying') = M - worker[w].size /\ worker[w].size \in Nat
    BY <2>1, CopyingShrinks, WorkerFacts DEF WorkerShape
  <2> HIDE DEF e
  <2>3. entries[p] \in Seq(EntryShape) /\ s \in Seq(EntryShape)
    BY <2>1 DEF ShapeInv
  <2>4. BytesIn(s) = ListedBytes[p] + SizeOf(c)
    BY <2>1, <2>3, BytesOfAppend DEF ListedBytes, EntrySize
  <2> HIDE DEF s
  <2>5. Sum(ListedBytes', Programs) = L - ListedBytes[p] + BytesIn(s)
    BY <2>1, <2>3, ListChanges
  <2>6. ListedBytes[p] \in Nat /\ SizeOf(c) \in Nat
    BY <2>1, ListedType, SizeType
  <2> HIDE DEF M, L, p
  <2>7. Sum(ListedBytes', Programs) = L + SizeOf(c)
    BY <1>1, <2>4, <2>5, <2>6
  <2>8. total' = (L + SizeOf(c)) + (M - worker[w].size)
    BY <1>1, <2>1, <2>2, <2>6
  <2> QED BY <2>2, <2>7, <2>8 DEF TotalInv
<1>7. ASSUME NEW w \in Workers, CopyFails(w) PROVE TotalInv'
  <2>1. /\ worker[w].pc = "copying" /\ MovesOn(w) /\ worker[w].size \in Nat
        /\ total' = Less(total, worker[w].size) /\ UNCHANGED entries
    BY <1>7, CopyFailsFacts
  <2>2. Sum(MakingBytes', Copying') = M - worker[w].size /\ worker[w].size <= M
    BY <2>1, CopyingShrinks
  <2>3. ListedBytes' = ListedBytes
    BY <2>1 DEF ListedBytes
  <2> HIDE DEF M, L
  <2>4. total \in Int /\ worker[w].size \in Int /\ total >= worker[w].size
    BY <1>1, <2>1, <2>2
  <2>5. Less(total, worker[w].size) = total - worker[w].size
    BY <2>4, Saturates
  <2>6. total' = L + (M - worker[w].size)
    BY <1>1, <2>1, <2>5
  <2> QED BY <2>2, <2>3, <2>6 DEF TotalInv, L, M
<1>8. ASSUME NEW w \in Workers, RestoreTakes(w) PROVE TotalInv'
  <2> DEFINE p == worker[w].prog
  <2>1. p \in Programs /\ entries' = [entries EXCEPT ![p] = << >>] /\ total' = Less(total, ListedBytes[p])
    BY <1>8, TakesFacts
  <2>2. SameCopies
    BY <1>8, TakesMoves DEF SameCopies, Moves
  <2>3. Sum(MakingBytes', Copying') = M
    BY <2>2, CopyingStays
  <2>4. << >> \in Seq(EntryShape)
    OBVIOUS
  <2>5. Sum(ListedBytes', Programs) = L - ListedBytes[p] + 0
    BY <2>1, <2>4, ListChanges, BytesOfNone
  <2>6. ListedBytes[p] \in Nat /\ ListedBytes[p] <= L
    BY <2>1, ListedType
  <2> HIDE DEF M, L, p
  <2>7. total \in Int /\ ListedBytes[p] \in Int /\ total >= ListedBytes[p]
    BY <1>1, <2>6
  <2>8. Less(total, ListedBytes[p]) = total - ListedBytes[p]
    BY <2>7, Saturates
  <2>9. total' = (L - ListedBytes[p] + 0) + M
    BY <1>1, <2>1, <2>6, <2>8
  <2> QED BY <2>3, <2>5, <2>9 DEF TotalInv
<1>9. ASSUME CopiesAge PROVE TotalInv'
  <2>1. ListedBytes' = ListedBytes /\ UNCHANGED <<total, worker>>
    BY <1>9, AgeFacts
  <2>2. SameCopies
    BY <2>1 DEF SameCopies
  <2>3. Sum(MakingBytes', Copying') = M
    BY <2>2, CopyingStays
  <2> QED BY <1>1, <2>1, <2>3 DEF TotalInv
<1>10. ASSUME purge_expired PROVE TotalInv'
  <2> DEFINE K == Sum(ListedBytes', Programs)
  <2>1. entries' \in [Programs -> Seq(EntryShape)] /\ total' = Less(total, L - K)
    BY <1>10, PurgeFacts
  <2>2. \A p \in Programs : ListedBytes'[p] \in Nat
    <3>1. \A p \in Programs : BytesIn(entries'[p]) \in Nat
      BY <2>1, BytesType
    <3> QED BY <3>1 DEF ListedBytes
  <2>3. K \in Nat
    BY <2>2, SumNat, VaultAssumption
  <2>4. SameCopies
    BY <1>10 DEF SameCopies, purge_expired
  <2>5. Sum(MakingBytes', Copying') = M
    BY <2>4, CopyingStays
  <2> HIDE DEF M, L, K
  <2>6. total \in Int /\ L - K \in Int /\ total >= L - K
    BY <1>1, <2>3
  <2>7. Less(total, L - K) = total - (L - K)
    BY <2>6, Saturates
  <2>8. total' = K + M
    BY <1>1, <2>1, <2>3, <2>7
  <2> QED BY <2>5, <2>8 DEF TotalInv, K
<1> QED BY <1>3, <1>4, <1>5, <1>6, <1>7, <1>8, <1>9, <1>10 DEF IndexStep

\* The vault starts empty.
LEMMA TotalInit == Init => TotalInv
<1> SUFFICES ASSUME Init PROVE TotalInv
  OBVIOUS
<1>1. \A p \in Programs : ListedBytes[p] = 0
  BY BytesOfNone DEF Init, ListedBytes
<1>2. IsFiniteSet(Programs)
  BY VaultAssumption
<1>3. Numbers(ListedBytes, Programs)
  BY <1>1 DEF Numbers
<1>4. \A p \in Programs : ListedBytes[p] = ListedBytes[p] - ListedBytes[p]
  BY <1>1
<1>5. Sum(ListedBytes, Programs) = Sum(ListedBytes, Programs) - Sum(ListedBytes, Programs)
  BY <1>2, <1>3, <1>4, SumMinus
<1>6. Sum(ListedBytes, Programs) \in Int
  BY <1>2, <1>3, SumSplit
<1>7. Sum(ListedBytes, Programs) = 0
  BY <1>5, <1>6
<1>8. Copying = {}
  BY DEF Init, Copying, Idle
<1>9. Sum(MakingBytes, {}) = 0
  <2>1. Numbers(MakingBytes, {}) /\ IsFiniteSet({})
    BY FS_EmptySet DEF Numbers
  <2> QED BY <2>1, SumSplit
<1>10. total = 0
  BY DEF Init
<1> QED BY <1>7, <1>8, <1>9, <1>10 DEF TotalInv

\* The vault's total is exactly what the listed copies and the copies in the
\* making take (preserve, restore, purge_expired), for any number of programs,
\* documents and workers.
THEOREM TotalIsAccounted == Spec => []TotalAccounted
<1>1. Init => ShapeInv /\ TotalInv
  BY ShapeInit, TotalInit
<1>2. ShapeInv /\ TotalInv /\ [Next]_vars => (ShapeInv /\ TotalInv)'
  BY ShapeStep, TotalStep
<1>3. TotalInv => TotalAccounted
  BY AccountIsSum DEF TotalInv, TotalAccounted
<1> QED BY <1>1, <1>2, <1>3, PTL DEF Spec

-----------------------------------------------------------------------------
(* The claims and the room that is left.                                   *)

\* The workers that copy for one program are no more than all workers, and the
\* claims of one program can be counted.
LEMMA CountFacts ==
  ASSUME ShapeInv, NEW p \in Programs
  PROVE  /\ IsFiniteSet(CopyingFor(p)) /\ Cardinality(CopyingFor(p)) \in Nat
         /\ Cardinality(CopyingFor(p)) <= Cardinality(Workers) /\ Cardinality(Workers) \in Nat
         /\ IsFiniteSet(claimed[p]) /\ Cardinality(claimed[p]) \in Nat
         /\ entries[p] \in Seq(EntryShape) /\ Len(entries[p]) \in Nat
<1>1. IsFiniteSet(Workers) /\ IsFiniteSet(Documents)
  BY VaultAssumption
<1>2. CopyingFor(p) \subseteq Workers
  BY DEF CopyingFor
<1>3. claimed[p] \subseteq Documents /\ entries[p] \in Seq(EntryShape)
  BY DEF ShapeInv
<1>4. IsFiniteSet(CopyingFor(p)) /\ Cardinality(CopyingFor(p)) <= Cardinality(Workers)
  BY <1>1, <1>2, FS_Subset
<1>5. IsFiniteSet(claimed[p])
  BY <1>1, <1>3, FS_Subset
<1>6. Cardinality(CopyingFor(p)) \in Nat /\ Cardinality(Workers) \in Nat /\ Cardinality(claimed[p]) \in Nat
  BY <1>1, <1>4, <1>5, FS_CardinalityType
<1>7. Len(entries[p]) \in Nat
  BY <1>3
<1> QED BY <1>3, <1>4, <1>5, <1>6, <1>7

\* What a set counts with one member more, or one less.
LEMMA OneMore ==
  ASSUME NEW S, IsFiniteSet(S), NEW x
  PROVE  /\ x \notin S => Cardinality(S \cup {x}) = Cardinality(S) + 1
         /\ x \in S => Cardinality(S \ {x}) = Cardinality(S) - 1
         /\ Cardinality(S \ {x}) >= Cardinality(S) - 1
<1>1. Cardinality(S) \in Nat
  BY FS_CardinalityType
<1>2. Cardinality(S \cup {x}) = IF x \in S THEN Cardinality(S) ELSE Cardinality(S) + 1
  BY FS_AddElement
<1>3. Cardinality(S \ {x}) = IF x \in S THEN Cardinality(S) - 1 ELSE Cardinality(S)
  BY FS_RemoveElement
<1> QED BY <1>1, <1>2, <1>3

\* What ClaimInv says of one program.
Claims(p) ==
  /\ Cardinality(claimed[p]) <= MaxFiles
  /\ Len(entries[p]) + Cardinality(CopyingFor(p)) <= Cardinality(claimed[p]) + Cardinality(Workers)

\* A program whose list, claims and copies do not change keeps its bounds.
LEMMA ClaimsStay ==
  ASSUME NEW p \in Programs, Claims(p), Len(entries'[p]) = Len(entries[p]),
         claimed'[p] = claimed[p],
         CopyingFor(p)' = CopyingFor(p)
  PROVE  Claims(p)'
BY DEF Claims

\* Steps that leave the copies in the making alone leave them with each program.
LEMMA CopiersStay ==
  ASSUME SameCopies, NEW p \in Programs
  PROVE  CopyingFor(p)' = CopyingFor(p)
BY DEF SameCopies, CopyingFor

\* A worker that ends its copy stops copying for its program, and for no other.
LEMMA CopierLeaves ==
  ASSUME NEW w \in Workers, MovesOn(w), worker[w].pc = "copying", NEW p \in Programs
  PROVE  IF p = worker[w].prog THEN w \in CopyingFor(p) /\ CopyingFor(p)' = CopyingFor(p) \ {w}
         ELSE CopyingFor(p)' = CopyingFor(p)
BY DEF MovesOn, Moves, CopyingFor

\* No step lets a program collect claims or copies beyond its bounds.
LEMMA ClaimStep == ShapeInv /\ ClaimInv /\ [Next]_vars => ClaimInv'
<1> SUFFICES ASSUME ShapeInv, ClaimInv, [Next]_vars, NEW p \in Programs PROVE Claims(p)'
  BY DEF ClaimInv, Claims
<1>1. Claims(p)
  BY DEF ClaimInv, Claims
<1> DEFINE k == Cardinality(claimed[p])
           m == Cardinality(CopyingFor(p))
           n == Cardinality(Workers)
           l == Len(entries[p])
<1>2. /\ IsFiniteSet(CopyingFor(p)) /\ IsFiniteSet(claimed[p]) /\ entries[p] \in Seq(EntryShape)
      /\ k \in Nat /\ m \in Nat /\ n \in Nat /\ l \in Nat /\ m <= n
  BY CountFacts
<1>3. k <= MaxFiles /\ l + m <= k + n /\ MaxFiles \in Nat
  BY <1>1, VaultAssumption DEF Claims
<1>4. ASSUME UNCHANGED <<entries, claimed>>, SameCopies PROVE Claims(p)'
  BY <1>1, <1>4, CopiersStay, ClaimsStay
<1>5. ASSUME UNCHANGED vars PROVE Claims(p)'
  <2>1. UNCHANGED <<entries, claimed>> /\ SameCopies
    BY <1>5 DEF vars, SameCopies
  <2> QED BY <1>4, <2>1
<1>6. ASSUME Next, ~IndexStep PROVE Claims(p)'
  BY <1>4, <1>6, OtherSteps
<1>7. ASSUME NEW w \in Workers, Claim(w) PROVE Claims(p)'
  <2> DEFINE d == worker[w].doc
  <2>1. /\ Moves(w) /\ worker[w].pc = "preserve" /\ worker'[w].pc = "copying"
        /\ worker'[w].prog = worker[w].prog /\ worker[w].prog \in Programs
    BY <1>7, ClaimMoves
  <2>2. /\ Admits(worker[w].prog, d) /\ UNCHANGED entries
        /\ claimed' = [claimed EXCEPT ![worker[w].prog] = @ \cup {d}]
    BY <1>7, ClaimFacts
  <2>3. CASE p # worker[w].prog
    <3>1. CopyingFor(p)' = CopyingFor(p)
      BY <2>1, <2>3 DEF CopyingFor, Moves
    <3>2. claimed'[p] = claimed[p]
      BY <2>2, <2>3 DEF ShapeInv
    <3> QED BY <1>1, <2>2, <3>1, <3>2, ClaimsStay
  <2>4. CASE p = worker[w].prog
    <3>1. CopyingFor(p)' = CopyingFor(p) \cup {w} /\ w \notin CopyingFor(p)
      BY <2>1, <2>4 DEF CopyingFor, Moves
    <3>2. claimed'[p] = claimed[p] \cup {d} /\ d \notin claimed[p] /\ k < MaxFiles
      BY <2>2, <2>4 DEF Admits, ShapeInv
    <3>3. Cardinality(CopyingFor(p)') = m + 1 /\ Cardinality(claimed'[p]) = k + 1
      BY <1>2, <3>1, <3>2, OneMore
    <3>4. Len(entries'[p]) = l
      BY <2>2
    <3> HIDE DEF k, m, n, l
    <3>5. k + 1 <= MaxFiles /\ l + (m + 1) <= (k + 1) + n
      BY <1>2, <1>3, <3>2
    <3> QED BY <3>3, <3>4, <3>5 DEF Claims, n
  <2> QED BY <2>3, <2>4
<1>8. ASSUME NEW w \in Workers, NEW c \in Contents, CopyDone(w, c) PROVE Claims(p)'
  <2> DEFINE e == [doc |-> worker[w].doc, content |-> c, old |-> FALSE]
  <2>1. /\ worker[w].pc = "copying" /\ worker[w].prog \in Programs /\ MovesOn(w) /\ e \in EntryShape
        /\ entries' = [entries EXCEPT ![worker[w].prog] = Append(@, e)] /\ UNCHANGED claimed
    BY <1>8, CopyDoneFacts
  <2> HIDE DEF e
  <2>2. CASE p # worker[w].prog
    <3>1. CopyingFor(p)' = CopyingFor(p)
      BY <2>1, <2>2, CopierLeaves
    <3>2. entries'[p] = entries[p]
      BY <2>1, <2>2 DEF ShapeInv
    <3> QED BY <1>1, <2>1, <3>1, <3>2, ClaimsStay
  <2>3. CASE p = worker[w].prog
    <3>1. w \in CopyingFor(p) /\ CopyingFor(p)' = CopyingFor(p) \ {w}
      BY <2>1, <2>3, CopierLeaves
    <3>2. Cardinality(CopyingFor(p)') = m - 1
      BY <1>2, <3>1, OneMore
    <3>3. entries'[p] = Append(entries[p], e)
      BY <2>1, <2>3 DEF ShapeInv
    <3>4. Len(entries'[p]) = l + 1
      BY <1>2, <2>1, <3>3
    <3> HIDE DEF k, m, n, l
    <3>5. (l + 1) + (m - 1) <= k + n
      BY <1>2, <1>3
    <3> QED BY <1>3, <2>1, <3>2, <3>4, <3>5 DEF Claims, k, n
  <2> QED BY <2>2, <2>3
<1>9. ASSUME NEW w \in Workers, CopyFails(w) PROVE Claims(p)'
  <2>1. /\ worker[w].pc = "copying" /\ worker[w].prog \in Programs /\ MovesOn(w) /\ UNCHANGED entries
        /\ claimed' = [claimed EXCEPT ![worker[w].prog] = @ \ {worker[w].doc}]
    BY <1>9, CopyFailsFacts
  <2>2. CASE p # worker[w].prog
    <3>1. CopyingFor(p)' = CopyingFor(p)
      BY <2>1, <2>2, CopierLeaves
    <3>2. claimed'[p] = claimed[p]
      BY <2>1, <2>2 DEF ShapeInv
    <3> QED BY <1>1, <2>1, <3>1, <3>2, ClaimsStay
  <2>3. CASE p = worker[w].prog
    <3> DEFINE k2 == Cardinality(claimed'[p])
    <3>1. w \in CopyingFor(p) /\ CopyingFor(p)' = CopyingFor(p) \ {w}
      BY <2>1, <2>3, CopierLeaves
    <3>2. Cardinality(CopyingFor(p)') = m - 1
      BY <1>2, <3>1, OneMore
    <3>3. claimed'[p] = claimed[p] \ {worker[w].doc}
      BY <2>1, <2>3 DEF ShapeInv
    <3>4. k2 >= k - 1
      BY <1>2, <3>3, OneMore
    <3>5. k2 \in Nat /\ k2 <= k
      BY <1>2, <3>3, FS_Subset, FS_CardinalityType
    <3> HIDE DEF k, m, n, l, k2
    <3>6. k2 <= MaxFiles /\ l + (m - 1) <= k2 + n
      BY <1>2, <1>3, <3>4, <3>5
    <3> QED BY <2>1, <3>2, <3>6 DEF Claims, k2, n, l
  <2> QED BY <2>2, <2>3
<1>10. ASSUME Len(entries'[p]) = 0, claimed'[p] = {}, CopyingFor(p)' = CopyingFor(p) PROVE Claims(p)'
  <2>1. Cardinality(claimed'[p]) = 0
    BY <1>10, FS_EmptySet
  <2> HIDE DEF k, n, l
  <2>2. 0 <= MaxFiles /\ 0 + m <= 0 + n
    BY <1>2, <1>3
  <2> QED BY <1>10, <2>1, <2>2 DEF Claims, n
<1>11. ASSUME NEW w \in Workers, RestoreTakes(w) PROVE Claims(p)'
  <2>1. /\ worker[w].prog \in Programs /\ entries' = [entries EXCEPT ![worker[w].prog] = << >>]
        /\ claimed' = [claimed EXCEPT ![worker[w].prog] = {}]
    BY <1>11, TakesFacts
  <2>2. SameCopies
    BY <1>11, TakesMoves DEF SameCopies, Moves
  <2>3. CopyingFor(p)' = CopyingFor(p)
    BY <2>2, CopiersStay
  <2>4. CASE p # worker[w].prog
    <3>1. entries'[p] = entries[p] /\ claimed'[p] = claimed[p]
      BY <2>1, <2>4 DEF ShapeInv
    <3> QED BY <1>1, <2>3, <3>1, ClaimsStay
  <2>5. CASE p = worker[w].prog
    <3>1. entries'[p] = << >> /\ claimed'[p] = {}
      BY <2>1, <2>5 DEF ShapeInv
    <3>2. Len(entries'[p]) = 0
      BY <3>1
    <3> QED BY <1>10, <2>3, <3>1, <3>2
  <2> QED BY <2>4, <2>5
<1>12. ASSUME CopiesAge PROVE Claims(p)'
  <2>1. Len(entries'[p]) = Len(entries[p]) /\ UNCHANGED <<claimed, worker>>
    BY <1>12, AgeFacts
  <2>2. CopyingFor(p)' = CopyingFor(p)
    BY <2>1 DEF CopyingFor
  <2> QED BY <1>1, <2>1, <2>2, ClaimsStay
<1>13. ASSUME purge_expired PROVE Claims(p)'
  <2> DEFINE l2 == Len(entries'[p])
  <2>1. /\ entries'[p] \in Seq(EntryShape) /\ l2 <= l
        /\ claimed'[p] = IF l2 # 0 THEN claimed[p] ELSE {}
    BY <1>13, PurgeFacts DEF Kept
  <2>2. CopyingFor(p)' = CopyingFor(p)
    BY <1>13 DEF CopyingFor, purge_expired
  <2>3. l2 \in Nat
    BY <2>1
  <2>4. CASE l2 = 0
    BY <1>10, <2>1, <2>2, <2>4
  <2>5. CASE l2 # 0
    <3>1. claimed'[p] = claimed[p]
      BY <2>1, <2>5
    <3> HIDE DEF k, m, n, l, l2
    <3>2. l2 + m <= k + n
      BY <1>2, <1>3, <2>1, <2>3
    <3> QED BY <1>3, <2>2, <3>1, <3>2 DEF Claims, k, m, n, l2
  <2> QED BY <2>4, <2>5
<1> QED BY <1>5, <1>6, <1>7, <1>8, <1>9, <1>11, <1>12, <1>13 DEF IndexStep

\* Growth is a number, and a copy is larger than what was admitted by at most that.
LEMMA GrowthFacts ==
  /\ Growth \in Nat
  /\ \A c, first \in Saved : SizeOf(c) - SizeOf(first) <= Growth
<1>1. OriginalSize \in Nat /\ RewrittenSize \in Nat
  BY VaultAssumption
<1>2. Growth \in Nat /\ OriginalSize - RewrittenSize <= Growth /\ RewrittenSize - OriginalSize <= Growth
  BY <1>1 DEF Growth
<1>3. \A c \in Saved : SizeOf(c) \in {OriginalSize, RewrittenSize}
  BY DEF SizeOf, Saved
<1> QED BY <1>1, <1>2, <1>3

\* Room for growth adds up.
LEMMA RoomFacts ==
  ASSUME NEW g \in Nat, NEW m \in Nat, NEW n \in Nat
  PROVE  /\ g * m \in Nat /\ g * (m + 1) = g * m + g
         /\ m <= n => g * m <= g * n
<1>1. g * m \in Nat
  OBVIOUS
<1>2. g * (m + 1) = g * m + g
  OBVIOUS
<1>3. ASSUME m <= n PROVE g * m <= g * n
  <2>1. n - m \in Nat /\ n = m + (n - m)
    BY <1>3
  <2>2. \A i, j \in Nat : g * (i + j) = g * i + g * j /\ g * j >= 0 /\ g * i \in Nat /\ g * j \in Nat
    OBVIOUS
  <2>3. g * (m + (n - m)) = g * m + g * (n - m) /\ g * (n - m) \in Nat
    BY <2>1, <2>2
  <2>4. g * n = g * m + g * (n - m)
    BY <2>1, <2>3
  <2> QED BY <1>1, <2>3, <2>4
<1> QED BY <1>1, <1>2, <1>3

\* A purge frees bytes and takes none.
LEMMA PurgeFrees ==
  ASSUME ShapeInv, purge_expired
  PROVE  Sum(ListedBytes', Programs) \in Nat /\ Sum(ListedBytes', Programs) <= Sum(ListedBytes, Programs)
<1> DEFINE freed == [p \in Programs |-> ListedBytes[p] - ListedBytes'[p]]
<1>1. ASSUME NEW p \in Programs
      PROVE  ListedBytes'[p] \in Nat /\ ListedBytes[p] \in Nat /\ ListedBytes'[p] <= ListedBytes[p]
  <2>1. entries'[p] \in Seq(EntryShape) /\ Kept(entries[p], entries'[p], Len(entries[p]))
    BY PurgeFacts
  <2>2. entries[p] \in Seq(EntryShape)
    BY DEF ShapeInv
  <2>3. BytesIn(entries'[p]) \in Nat /\ BytesIn(entries[p]) \in Nat
    BY <2>1, <2>2, BytesType
  <2>4. DOMAIN entries[p] = 1..Len(entries[p])
    BY <2>2, BytesType
  <2>5. BytesIn(entries'[p]) <= BytesIn(entries[p])
    BY <2>1, <2>4, BytesAreSum DEF Kept
  <2> QED BY <2>3, <2>5 DEF ListedBytes
<1>2. IsFiniteSet(Programs) /\ Numbers(ListedBytes, Programs) /\ Numbers(ListedBytes', Programs)
  BY <1>1, VaultAssumption DEF Numbers
<1>3. \A p \in Programs : freed[p] \in Nat /\ freed[p] = ListedBytes[p] - ListedBytes'[p]
  BY <1>1
<1> HIDE DEF freed
<1>4. Sum(freed, Programs) = Sum(ListedBytes, Programs) - Sum(ListedBytes', Programs)
  BY <1>2, <1>3, SumMinus
<1>5. Sum(freed, Programs) \in Nat /\ Sum(ListedBytes', Programs) \in Nat
  BY <1>1, <1>2, <1>3, SumNat
<1>6. Sum(ListedBytes, Programs) \in Int
  BY ListedType
<1> QED BY <1>4, <1>5, <1>6

\* No step takes the vault past its limit by more than a growth for each worker.
LEMMA RoomStep == ShapeInv /\ TotalInv /\ RoomInv /\ [Next]_vars => RoomInv'
<1> SUFFICES ASSUME ShapeInv, TotalInv, RoomInv, [Next]_vars PROVE RoomInv'
  OBVIOUS
<1> DEFINE m == Cardinality(Copying)
           n == Cardinality(Workers)
           room == MaxTotalBytes + Growth * n
<1>1. IsFiniteSet(Copying) /\ m \in Nat /\ n \in Nat /\ Growth \in Nat /\ MaxTotalBytes \in Nat
  BY MakingType, FS_CardinalityType, GrowthFacts, VaultAssumption
<1>2. total \in Nat /\ total + Growth * m <= room
  BY ListedType, MakingType DEF TotalInv, RoomInv
<1>3. Growth * m \in Nat /\ Growth * n \in Nat
  BY <1>1, RoomFacts
<1>4. ASSUME Copying' = Copying, total' \in Int, total' <= total PROVE RoomInv'
  <2>1. RoomInv' <=> total' + Growth * m <= room
    BY <1>4 DEF RoomInv
  <2>2. \A a, b, x, y \in Int : (b <= a /\ a + x <= y) => b + x <= y
    OBVIOUS
  <2>3. room \in Int /\ Growth * m \in Int /\ total \in Int
    BY <1>1, <1>2, <1>3
  <2> HIDE DEF room, m, n
  <2>4. total' + Growth * m <= room
    BY <1>2, <1>4, <2>2, <2>3
  <2> QED BY <2>1, <2>4
<1>5. ASSUME UNCHANGED total, SameCopies PROVE RoomInv'
  BY <1>2, <1>4, <1>5, CopyingStays
<1>6. ASSUME UNCHANGED vars PROVE RoomInv'
  <2>1. UNCHANGED total /\ SameCopies
    BY <1>6 DEF vars, SameCopies
  <2> QED BY <1>5, <2>1
<1>7. ASSUME Next, ~IndexStep PROVE RoomInv'
  BY <1>5, <1>7, OtherSteps
<1>8. ASSUME NEW w \in Workers, Claim(w) PROVE RoomInv'
  <2> DEFINE size == SizeOf(content[worker[w].doc])
  <2>1. Moves(w) /\ worker[w].pc # "copying" /\ worker'[w].pc = "copying"
    BY <1>8, ClaimMoves
  <2>2. Copying' \subseteq Workers /\ IsFiniteSet(Workers)
    BY VaultAssumption DEF Copying
  <2>3. Cardinality(Copying') <= n /\ Cardinality(Copying') \in Nat
    BY <2>2, FS_Subset, FS_CardinalityType
  <2>4. Admits(worker[w].prog, worker[w].doc) /\ total' = total + size /\ size \in Nat
    BY <1>8, ClaimFacts, SizeType
  <2>5. total' <= MaxTotalBytes /\ total' \in Nat
    BY <1>2, <2>4 DEF Admits, Fits
  <2>6. Growth * Cardinality(Copying') <= Growth * n /\ Growth * Cardinality(Copying') \in Nat
    BY <1>1, <2>3, RoomFacts
  <2> HIDE DEF n
  <2>7. total' + Growth * Cardinality(Copying') <= room
    BY <1>1, <1>3, <2>5, <2>6
  <2> QED BY <2>7 DEF RoomInv, n
<1>9. ASSUME NEW w \in Workers, MovesOn(w), worker[w].pc = "copying",
             total' \in Int, total' <= total + Growth
      PROVE  RoomInv'
  <2> DEFINE k == Cardinality(Copying')
  <2>1. w \in Copying /\ Copying' = Copying \ {w}
    BY <1>9, CopyingShrinks
  <2>2. k = m - 1
    BY <1>1, <2>1, OneMore
  <2>3. k \in Nat
    BY <1>1, <2>1, FS_Subset, FS_CardinalityType
  <2> HIDE DEF k, m, n
  <2>4. m = k + 1
    BY <1>1, <2>2, <2>3
  <2>5. Growth * m = Growth * k + Growth /\ Growth * k \in Nat
    BY <1>1, <2>3, <2>4, RoomFacts
  <2>6. total' + Growth * k <= room
    BY <1>1, <1>2, <1>3, <1>9, <2>5
  <2> QED BY <2>6 DEF RoomInv, k, n
<1>10. ASSUME NEW w \in Workers, NEW c \in Contents, CopyDone(w, c) PROVE RoomInv'
  <2>1. /\ worker[w].pc = "copying" /\ MovesOn(w)
        /\ [doc |-> worker[w].doc, content |-> c, old |-> FALSE] \in EntryShape
        /\ total' = total + (SizeOf(c) - worker[w].size)
    BY <1>10, CopyDoneFacts
  <2>2. c \in Saved
    BY <2>1 DEF EntryShape
  <2>3. worker[w].first \in Saved /\ worker[w].size = SizeOf(worker[w].first)
    BY <2>1, WorkerFacts DEF WorkerShape, Placed
  <2>4. SizeOf(c) - worker[w].size <= Growth /\ SizeOf(c) \in Nat /\ worker[w].size \in Nat
    BY <2>2, <2>3, GrowthFacts, SizeType
  <2>5. total' \in Int /\ total' <= total + Growth
    BY <1>1, <1>2, <2>1, <2>4
  <2> QED BY <1>9, <2>1, <2>5
<1>11. ASSUME NEW y \in Int, y >= 0, total' = Less(total, y) PROVE total' \in Int /\ total' <= total
  <2>1. total \in Int /\ total >= 0
    BY <1>2
  <2>2. Less(total, y) \in Nat /\ Less(total, y) <= total
    BY <1>11, <2>1, Saturates
  <2> QED BY <1>11, <2>2
<1>12. ASSUME NEW w \in Workers, CopyFails(w) PROVE RoomInv'
  <2>1. /\ worker[w].pc = "copying" /\ MovesOn(w) /\ worker[w].size \in Nat
        /\ total' = Less(total, worker[w].size)
    BY <1>12, CopyFailsFacts
  <2>2. worker[w].size \in Int /\ worker[w].size >= 0
    BY <2>1
  <2>3. total' \in Int /\ total' <= total
    BY <1>11, <2>1, <2>2
  <2>4. total' <= total + Growth
    BY <1>1, <1>2, <2>3
  <2> QED BY <1>9, <2>1, <2>3, <2>4
<1>13. ASSUME NEW w \in Workers, RestoreTakes(w) PROVE RoomInv'
  <2>1. worker[w].prog \in Programs /\ total' = Less(total, ListedBytes[worker[w].prog])
    BY <1>13, TakesFacts
  <2>2. ListedBytes[worker[w].prog] \in Nat
    BY <2>1, ListedType
  <2>3. ListedBytes[worker[w].prog] \in Int /\ ListedBytes[worker[w].prog] >= 0
    BY <2>2
  <2>4. total' \in Int /\ total' <= total
    BY <1>11, <2>1, <2>3
  <2>5. SameCopies
    BY <1>13, TakesMoves DEF SameCopies, Moves
  <2> QED BY <1>4, <2>4, <2>5, CopyingStays
<1>14. ASSUME CopiesAge PROVE RoomInv'
  <2>1. UNCHANGED <<total, worker>>
    BY <1>14, AgeFacts
  <2>2. SameCopies
    BY <2>1 DEF SameCopies
  <2> QED BY <1>5, <2>1, <2>2
<1>15. ASSUME purge_expired PROVE RoomInv'
  <2> DEFINE y == Sum(ListedBytes, Programs) - Sum(ListedBytes', Programs)
  <2>1. total' = Less(total, y)
    BY <1>15, PurgeFacts
  <2>2. Sum(ListedBytes, Programs) \in Nat
    BY ListedType
  <2>3. Sum(ListedBytes', Programs) \in Nat /\ Sum(ListedBytes', Programs) <= Sum(ListedBytes, Programs)
    BY <1>15, PurgeFrees
  <2>4. y \in Int /\ y >= 0
    BY <2>2, <2>3
  <2> HIDE DEF y
  <2>5. total' \in Int /\ total' <= total
    BY <1>11, <2>1, <2>4
  <2>6. SameCopies
    BY <1>15 DEF SameCopies, purge_expired
  <2> QED BY <1>4, <2>5, <2>6, CopyingStays
<1> QED BY <1>6, <1>7, <1>8, <1>10, <1>12, <1>13, <1>14, <1>15 DEF IndexStep

\* No claims and all the room at the start.
LEMMA QuotaInit == Init => ClaimInv /\ RoomInv
<1> SUFFICES ASSUME Init PROVE ClaimInv /\ RoomInv
  OBVIOUS
<1>1. ShapeInv
  BY ShapeInit
<1>2. Copying = {} /\ \A p \in Programs : CopyingFor(p) = {} /\ claimed[p] = {} /\ entries[p] = << >>
  BY DEF Init, Copying, CopyingFor, Idle
<1>3. Cardinality({}) = 0 /\ Cardinality(Workers) \in Nat /\ Len(<< >>) = 0
  BY FS_EmptySet, FS_CardinalityType, VaultAssumption
<1>4. MaxFiles \in Nat /\ MaxTotalBytes \in Nat
  BY VaultAssumption
<1>5. ClaimInv
  <2>1. \A p \in Programs : /\ Cardinality(claimed[p]) = 0 /\ Cardinality(CopyingFor(p)) = 0
                            /\ Len(entries[p]) = 0
    BY <1>2, <1>3
  <2>2. 0 <= MaxFiles /\ 0 + 0 <= 0 + Cardinality(Workers)
    BY <1>3, <1>4
  <2> QED BY <2>1, <2>2 DEF ClaimInv
<1>6. Growth * 0 \in Nat /\ Growth * 0 <= Growth * Cardinality(Workers) /\ Growth * Cardinality(Workers) \in Nat
  BY <1>3, GrowthFacts, RoomFacts
<1>7. total = 0
  BY DEF Init
<1>8. 0 + Growth * 0 <= MaxTotalBytes + Growth * Cardinality(Workers)
  BY <1>4, <1>6
<1>9. RoomInv
  BY <1>2, <1>3, <1>7, <1>8 DEF RoomInv
<1> QED BY <1>5, <1>9

\* The vault's bytes exceed max_total_bytes by at most one growth for each
\* worker, and a program's copies exceed max_files by at most one for each
\* worker, whatever restores and purges drop while copies are in the making.
THEOREM QuotasAreKept == Spec => []QuotasHold
<1> DEFINE Inv == ShapeInv /\ TotalInv /\ ClaimInv /\ RoomInv
<1>1. Init => Inv
  BY ShapeInit, TotalInit, QuotaInit
<1>2. Inv /\ [Next]_vars => Inv'
  BY ShapeStep, TotalStep, ClaimStep, RoomStep
<1>3. Inv => QuotasHold
  <2> SUFFICES ASSUME Inv PROVE QuotasHold
    OBVIOUS
  <2> DEFINE n == Cardinality(Workers)
  <2>1. /\ Cardinality(Copying) \in Nat /\ n \in Nat /\ Growth \in Nat
        /\ MaxTotalBytes \in Nat /\ MaxFiles \in Nat /\ total \in Int
    BY MakingType, FS_CardinalityType, GrowthFacts, VaultAssumption DEF ShapeInv
  <2>2. Growth * Cardinality(Copying) \in Nat /\ Growth * n \in Nat /\ n * Growth = Growth * n
    BY <2>1, RoomFacts
  <2>3. total + Growth * Cardinality(Copying) <= MaxTotalBytes + Growth * n
    BY DEF RoomInv
  <2>4. total <= MaxTotalBytes + n * Growth
    BY <2>1, <2>2, <2>3
  <2>5. ASSUME NEW p \in Programs PROVE Len(entries[p]) <= MaxFiles + n
    <3>1. /\ Cardinality(claimed[p]) <= MaxFiles
          /\ Len(entries[p]) + Cardinality(CopyingFor(p)) <= Cardinality(claimed[p]) + n
      BY DEF ClaimInv
    <3>2. /\ Len(entries[p]) \in Nat /\ Cardinality(CopyingFor(p)) \in Nat
          /\ Cardinality(claimed[p]) \in Nat
      BY CountFacts
    <3> QED BY <2>1, <3>1, <3>2
  <2> QED BY <2>4, <2>5 DEF QuotasHold
<1> QED BY <1>1, <1>2, <1>3, PTL DEF Spec

-----------------------------------------------------------------------------
(* What a step may do, seen from one worker and from one list.             *)

StaysCopy(z, o) ==
  o.pc = "copying" /\ z.prog = o.prog /\ z.doc = o.doc /\ z.first = o.first
StaysUndo(z, o) ==
  /\ o.pc = "restoring" /\ z.prog = o.prog /\ z.alone = o.alone
  /\ \A i \in DOMAIN z.todo : \E j \in DOMAIN o.todo : z.todo[i] = o.todo[j]

\* A worker copies because it copied before or has just claimed, and undoes
\* because it did before or has just begun.
Goes(v) ==
  /\ worker'[v].prog \in {worker[v].prog, "none"} \cup alive
  /\ worker'[v].pc = "copying" => (Claim(v) \/ StaysCopy(worker'[v], worker[v]))
  /\ worker'[v].pc = "restoring" => (RestoreTakes(v) \/ StaysUndo(worker'[v], worker[v]))

\* A worker that does not move.
LEMMA Unmoved ==
  ASSUME NEW v \in Workers, worker'[v] = worker[v]
  PROVE  Goes(v)
BY DEF Goes, StaysCopy, StaysUndo

\* The list that is left of an undo.
LEMMA TailStays ==
  ASSUME NEW z, NEW o, o.pc = "restoring", SameTask(z, o),
         \A i \in DOMAIN z.todo : i + 1 \in DOMAIN o.todo /\ z.todo[i] = o.todo[i + 1]
  PROVE  StaysUndo(z, o)
BY DEF StaysUndo, SameTask

\* Every step, seen from one worker.
LEMMA WorkerSteps ==
  ASSUME ShapeInv, Next, NEW v \in Workers
  PROVE  Goes(v)
<1>1. ASSUME NEW w \in Workers, MovesOn(w) PROVE Goes(v)
  <2>1. CASE v = w
    BY <1>1, <2>1 DEF MovesOn, Goes
  <2>2. CASE v # w
    BY <1>1, <2>2, Unmoved DEF MovesOn, Moves
  <2> QED BY <2>1, <2>2
<1>2. ASSUME UNCHANGED worker PROVE Goes(v)
  BY <1>2, Unmoved
<1>3. ASSUME NEW w \in Workers, Moves(w), Goes(w) PROVE Goes(v)
  <2>1. CASE v # w
    BY <1>3, <2>1, Unmoved DEF Moves
  <2> QED BY <1>3, <2>1
<1>4. ASSUME NEW w \in Workers, Handle(w) PROVE Goes(v)
  <2>1. CASE Claim(w)
    <3>1. Moves(w) /\ worker'[w].pc = "copying" /\ worker'[w].prog = worker[w].prog
      BY <2>1, ClaimMoves
    <3>2. Goes(w)
      BY <2>1, <3>1 DEF Goes
    <3> QED BY <1>3, <3>1, <3>2
  <2>2. CASE \/ Skip(w) \/ CopyFails(w) \/ (\E c \in Contents : CopyDone(w, c)) \/ Observe(w)
             \/ Terminate(w) \/ TerminateRefused(w)
    BY <1>1, <2>2, PlainMoves
  <2>3. CASE ReplyAllow(w) \/ ReplyRefused(w) \/ RestoreEnds(w)
    BY <1>1, <2>3, IdleMoves DEF ReplyAllow, ReplyRefused, RestoreEnds
  <2>4. CASE ReplyBlock(w)
    BY <1>1, <2>4, ConvictedMoves
  <2>5. CASE RestoreTakes(w)
    <3>1. Moves(w) /\ worker'[w].pc = "restoring" /\ worker'[w].prog = worker[w].prog
      BY <2>5, TakesMoves
    <3>2. Goes(w)
      BY <2>5, <3>1 DEF Goes
    <3> QED BY <1>3, <3>1, <3>2
  <2>6. CASE RestoreOne(w)
    <3>1. SameTask(worker'[v], worker[v])
      BY <2>6, RestoreOneMoves
    <3>2. CASE v = w
      <4>1. worker[v].pc = "restoring" /\ \A i \in DOMAIN worker'[v].todo :
              i + 1 \in DOMAIN worker[v].todo /\ worker'[v].todo[i] = worker[v].todo[i + 1]
        BY <2>6, <3>2, RestoreOneMoves
      <4>2. StaysUndo(worker'[v], worker[v])
        BY <3>1, <4>1, TailStays
      <4> QED BY <3>1, <4>1, <4>2 DEF Goes, SameTask
    <3>3. CASE v # w
      <4>1. worker'[v].todo = worker[v].todo
        BY <2>6, <3>3, RestoreOneMoves
      <4> QED BY <3>1, <4>1 DEF Goes, SameTask, StaysCopy, StaysUndo
    <3> QED BY <3>2, <3>3
  <2>7. CASE RestoreOneFails(w)
    <3>1. /\ Moves(w) /\ SameTask(worker'[w], worker[w]) /\ worker[w].pc = "restoring"
          /\ \A i \in DOMAIN worker'[w].todo :
               i + 1 \in DOMAIN worker[w].todo /\ worker'[w].todo[i] = worker[w].todo[i + 1]
      BY <2>7, RestoreFailsMoves
    <3>2. StaysUndo(worker'[w], worker[w])
      BY <3>1, TailStays
    <3>3. Goes(w)
      BY <3>1, <3>2 DEF Goes, SameTask
    <3> QED BY <1>3, <3>1, <3>3
  <2> QED BY <1>4, <2>1, <2>2, <2>3, <2>4, <2>5, <2>6, <2>7 DEF Handle
<1>5. ASSUME NEW p \in Programs, NEW d \in Documents, NEW w \in Workers,
             PreWrite(p, d, w) \/ PreSetInformation(p, d, w)
      PROVE  Goes(v)
  BY <1>1, <1>5, AskedMoves DEF PreWrite, PreSetInformation, MayIssue
<1>6. ASSUME NEW w \in Workers, HoldTimesOut(w) PROVE Goes(v)
  <2>1. /\ Moves(w) /\ worker'[w].pc = worker[w].pc /\ worker'[w].pc # "restoring"
        /\ worker'[w].prog = worker[w].prog /\ worker'[w].doc = worker[w].doc
        /\ worker'[w].first = worker[w].first
    BY <1>6, HoldMoves
  <2>2. Goes(w)
    BY <2>1 DEF Goes, StaysCopy
  <2> QED BY <1>3, <2>1, <2>2
<1>7. ASSUME NEW p \in Programs, NEW d \in Documents, PreWriteThrottled(p, d) PROVE UNCHANGED worker
  BY <1>7 DEF PreWriteThrottled
<1>8. ASSUME NEW d \in Documents, SecondPasses(d) PROVE UNCHANGED worker
  BY <1>8 DEF SecondPasses
<1>9. ASSUME NEW o \in landing, Land(o) PROVE UNCHANGED worker
  BY <1>9 DEF Land
<1>10. ASSUME NEW p \in Programs, WindowPasses(p) PROVE UNCHANGED worker
  BY <1>10 DEF WindowPasses
<1>11. CopiesAge \/ purge_expired => UNCHANGED worker
  BY DEF CopiesAge, purge_expired
<1> QED BY <1>2, <1>4, <1>5, <1>6, <1>7, <1>8, <1>9, <1>10, <1>11 DEF Next

\* An entry of a list was there before, or is of a copy that has just ended.
LEMMA EntrySteps ==
  ASSUME ShapeInv, Next, NEW z \in Programs, NEW i \in DOMAIN entries'[z]
  PROVE  \/ \E j \in DOMAIN entries[z] : /\ entries'[z][i].doc = entries[z][j].doc
                                         /\ entries'[z][i].content = entries[z][j].content
         \/ \E w \in Workers, c \in Contents :
              /\ CopyDone(w, c) /\ worker[w].prog = z
              /\ entries'[z][i].doc = worker[w].doc /\ entries'[z][i].content = c
<1>1. entries[z] \in Seq(EntryShape) /\ entries'[z] \in Seq(EntryShape)
  BY IndexShape DEF ShapeInv
<1>2. CASE entries'[z] = entries[z]
  BY <1>2
<1>3. ASSUME Next, ~IndexStep PROVE entries'[z] = entries[z]
  BY <1>3, OtherSteps
<1>4. ASSUME NEW w \in Workers, Claim(w) \/ CopyFails(w) PROVE entries'[z] = entries[z]
  BY <1>4, ClaimFacts, CopyFailsFacts
<1>5. ASSUME NEW w \in Workers, RestoreTakes(w) PROVE entries'[z] = entries[z]
  <2>1. entries' = [entries EXCEPT ![worker[w].prog] = << >>]
    BY <1>5, TakesFacts
  <2>2. CASE z = worker[w].prog
    <3>1. entries'[z] = << >>
      BY <2>1, <2>2 DEF ShapeInv
    <3>2. DOMAIN entries'[z] = {}
      BY <3>1
    <3> QED BY <3>2
  <2>3. CASE z # worker[w].prog
    BY <2>1, <2>3 DEF ShapeInv
  <2> QED BY <2>2, <2>3
<1>6. ASSUME NEW w \in Workers, NEW c \in Contents, CopyDone(w, c)
      PROVE  \/ \E j \in DOMAIN entries[z] : entries'[z][i] = entries[z][j]
             \/ worker[w].prog = z /\ entries'[z][i].doc = worker[w].doc /\ entries'[z][i].content = c
  <2> DEFINE e == [doc |-> worker[w].doc, content |-> c, old |-> FALSE]
  <2>1. /\ entries' = [entries EXCEPT ![worker[w].prog] = Append(@, e)] /\ e \in EntryShape
        /\ e.doc = worker[w].doc /\ e.content = c
    BY <1>6, CopyDoneFacts
  <2> HIDE DEF e
  <2>2. CASE z # worker[w].prog
    <3>1. entries'[z] = entries[z]
      BY <2>1, <2>2 DEF ShapeInv
    <3> QED BY <3>1
  <2>3. CASE z = worker[w].prog
    <3>1. entries'[z] = Append(entries[z], e)
      BY <2>1, <2>3 DEF ShapeInv
    <3>2. Len(Append(entries[z], e)) = Len(entries[z]) + 1 /\ Len(entries[z]) \in Nat
      BY <1>1, <2>1
    <3>3. i \in 1..(Len(entries[z]) + 1)
      BY <1>1, <3>1, <3>2
    <3>4. CASE i = Len(entries[z]) + 1
      <4>1. entries'[z][i] = e
        BY <1>1, <3>1, <3>4
      <4> QED BY <2>1, <2>3, <4>1
    <3>5. CASE i # Len(entries[z]) + 1
      <4>1. i \in 1..Len(entries[z])
        BY <3>2, <3>3, <3>5
      <4>2. entries'[z][i] = entries[z][i] /\ i \in DOMAIN entries[z]
        BY <1>1, <3>1, <4>1
      <4> QED BY <4>2
    <3> QED BY <3>4, <3>5
  <2> QED BY <2>2, <2>3
<1>7. ASSUME CopiesAge
      PROVE  /\ i \in DOMAIN entries[z] /\ entries'[z][i].doc = entries[z][i].doc
             /\ entries'[z][i].content = entries[z][i].content
  BY <1>7, AgeFacts
<1>8. ASSUME purge_expired PROVE \E j \in DOMAIN entries[z] : entries'[z][i] = entries[z][j]
  <2>1. Kept(entries[z], entries'[z], Len(entries[z]))
    BY <1>8, PurgeFacts
  <2>2. PICK j \in 1..Len(entries[z]) : entries'[z][i] = entries[z][j]
    BY <2>1 DEF Kept
  <2>3. j \in DOMAIN entries[z]
    BY <1>1
  <2> QED BY <2>2, <2>3
<1> QED BY <1>2, <1>3, <1>4, <1>5, <1>6, <1>7, <1>8 DEF IndexStep

\* The record of what was exposed and undone only grows.
LEMMA RecordGrows ==
  ASSUME ShapeInv, Next
  PROVE  /\ exposed \subseteq exposed' /\ undone \subseteq undone'
         /\ \A p \in Programs, d \in Documents : Clear(p, d)' => Clear(p, d)
<1>1. exposed \subseteq exposed'
  <2>1. purge_expired => exposed \subseteq exposed'
    BY PurgeFacts
  <2>2. ASSUME NEW o \in landing, Land(o) PROVE UNCHANGED exposed
    BY <2>2 DEF Land
  <2>3. ASSUME NEW o \in OperationShape, LetThrough(o) PROVE exposed \subseteq exposed'
    BY <2>3 DEF LetThrough
  <2> QED BY <2>1, <2>2, <2>3, LandingChanges
<1>2. undone \subseteq undone'
  <2>1. ~IndexStep => UNCHANGED undone
    BY OtherSteps
  <2>2. ASSUME NEW w \in Workers, Claim(w) \/ CopyFails(w) PROVE UNCHANGED undone
    BY <2>2, ClaimFacts, CopyFailsFacts
  <2>3. ASSUME NEW w \in Workers, NEW c \in Contents, CopyDone(w, c) PROVE UNCHANGED undone
    BY <2>3, CopyDoneFacts
  <2>4. ASSUME NEW w \in Workers, RestoreTakes(w) PROVE undone \subseteq undone'
    BY <2>4, TakesFacts
  <2>5. CopiesAge => UNCHANGED undone
    BY AgeFacts
  <2>6. purge_expired => UNCHANGED undone
    BY DEF purge_expired
  <2> QED BY <2>1, <2>2, <2>3, <2>4, <2>5, <2>6 DEF IndexStep
<1> QED BY <1>1, <1>2 DEF Clear

\* A listed copy stays listed as long as the record is clear.
LEMMA ListedStays ==
  ASSUME ShapeInv, Next, NEW p \in Programs, NEW d \in Documents, Clear(p, d)',
         Listed(entries[p], d)
  PROVE  Listed(entries'[p], d)
<1>1. entries[p] \in Seq(EntryShape) /\ entries'[p] \in Seq(EntryShape)
  BY IndexShape DEF ShapeInv
<1>2. PICK j \in DOMAIN entries[p] : entries[p][j].doc = d
  BY DEF Listed
<1>3. CASE entries'[p] = entries[p]
  BY <1>3
<1>4. ~IndexStep => entries'[p] = entries[p]
  BY OtherSteps
<1>5. ASSUME NEW w \in Workers, Claim(w) \/ CopyFails(w) PROVE entries'[p] = entries[p]
  BY <1>5, ClaimFacts, CopyFailsFacts
<1>6. ASSUME NEW w \in Workers, RestoreTakes(w) PROVE entries'[p] = entries[p]
  <2>1. entries' = [entries EXCEPT ![worker[w].prog] = << >>] /\ undone' = undone \cup {worker[w].prog}
    BY <1>6, TakesFacts
  <2>2. p # worker[w].prog
    BY <2>1 DEF Clear
  <2> QED BY <2>1, <2>2 DEF ShapeInv
<1>7. ASSUME NEW w \in Workers, NEW c \in Contents, CopyDone(w, c) PROVE Listed(entries'[p], d)
  <2> DEFINE e == [doc |-> worker[w].doc, content |-> c, old |-> FALSE]
  <2>1. entries' = [entries EXCEPT ![worker[w].prog] = Append(@, e)] /\ e \in EntryShape
    BY <1>7, CopyDoneFacts
  <2> HIDE DEF e
  <2>2. CASE p # worker[w].prog
    <3>1. entries'[p] = entries[p]
      BY <2>1, <2>2 DEF ShapeInv
    <3> QED BY <1>3, <3>1
  <2>3. CASE p = worker[w].prog
    <3>1. entries'[p] = Append(entries[p], e)
      BY <2>1, <2>3 DEF ShapeInv
    <3>2. entries'[p][j] = entries[p][j] /\ j \in DOMAIN entries'[p]
      BY <1>1, <1>2, <2>1, <3>1
    <3> QED BY <1>2, <3>2 DEF Listed
  <2> QED BY <2>2, <2>3
<1>8. ASSUME CopiesAge PROVE Listed(entries'[p], d)
  <2>1. j \in DOMAIN entries'[p] /\ entries'[p][j].doc = entries[p][j].doc
    BY <1>2, <1>8, AgeFacts
  <2> QED BY <1>2, <2>1 DEF Listed
<1>9. ASSUME purge_expired PROVE Listed(entries'[p], d)
  <2>1. Kept(entries[p], entries'[p], Len(entries[p]))
    BY <1>9, PurgeFacts
  <2>2. entries[p][j].old => <<p, d>> \in exposed'
    BY <1>2, <1>9, PurgeFacts
  <2>3. ~entries[p][j].old
    BY <2>2 DEF Clear
  <2>4. j \in 1..Len(entries[p])
    BY <1>1, <1>2
  <2>5. PICK m \in DOMAIN entries'[p] : entries'[p][m] = entries[p][j]
    BY <2>1, <2>3, <2>4 DEF Kept
  <2> QED BY <1>2, <2>5 DEF Listed
<1> QED BY <1>3, <1>4, <1>5, <1>6, <1>7, <1>8, <1>9 DEF IndexStep

\* A document changes when an operation on it takes effect, or an undo puts it back.
LEMMA ContentSteps ==
  ASSUME ShapeInv, Next, NEW d \in Documents
  PROVE  \/ content'[d] = content[d]
         \/ \E o \in landing : o.doc = d /\ content'[d] \in {"gone", o.prog}
         \/ \E w \in Workers : /\ RestoreOne(w) /\ 1 \in DOMAIN worker[w].todo
                               /\ worker[w].todo[1].doc = d
                               /\ content'[d] = worker[w].todo[1].content
<1>1. ASSUME NEW o \in landing, Land(o), content'[d] # content[d]
      PROVE  o.doc = d /\ content'[d] \in {"gone", o.prog}
  <2>1. content' = [content EXCEPT ![o.doc] = IF o.kind = "remove" \/ @ = "gone" THEN "gone" ELSE o.prog]
    BY <1>1 DEF Land
  <2>2. content \in [Documents -> Contents]
    BY DEF ShapeInv
  <2> QED BY <1>1, <2>1, <2>2
<1>2. ASSUME NEW w \in Workers, RestoreOne(w), content'[d] # content[d]
      PROVE  /\ 1 \in DOMAIN worker[w].todo /\ worker[w].todo[1].doc = d
             /\ content'[d] = worker[w].todo[1].content
  <2> DEFINE e == Head(worker[w].todo)
  <2>1. 1 \in DOMAIN worker[w].todo /\ e = worker[w].todo[1]
    BY <1>2, RestoreOneMoves
  <2>2. content' = [content EXCEPT ![e.doc] = e.content]
    BY <1>2 DEF RestoreOne
  <2> HIDE DEF e
  <2>3. content \in [Documents -> Contents]
    BY DEF ShapeInv
  <2> QED BY <1>2, <2>1, <2>2, <2>3
<1>3. UNCHANGED content => content'[d] = content[d]
  OBVIOUS
<1> QED BY <1>1, <1>2, <1>3, ContentChanges

\* The names of programs are not contents of another kind.
LEMMA ProgramNames ==
  ASSUME NEW p \in Programs
  PROVE  p # "gone" /\ p # "torn" /\ p # "none"
BY VaultAssumption

-----------------------------------------------------------------------------
(* What a program has done shows only once the copy is listed.             *)

\* TraceInv, for one program and one document.
Trace(p, d) ==
  /\ content[d] = p => Listed(entries[p], d)
  /\ \A o \in landing : (o.prog = p /\ o.doc = d) => Listed(entries[p], d)
  /\ \A w \in Workers : (worker[w].pc = "copying" /\ worker[w].doc = d /\ worker[w].first = p)
                        => Listed(entries[p], d)
  /\ \A z \in Programs : \A i \in DOMAIN entries[z] :
       (entries[z][i].doc = d /\ entries[z][i].content = p) => (Listed(entries[p], d) /\ p # z)
  /\ \A w \in Workers : \A i \in DOMAIN worker[w].todo :
       (worker[w].todo[i].doc = d /\ worker[w].todo[i].content = p) => Listed(entries[p], d)

\* MakingInv, for one program and one document.
Making(p, d) ==
  /\ Listed(entries[p], d) => d \in claimed[p]
  /\ \A w \in Workers : CopyOf(worker[w], p, d) =>
       /\ ~Listed(entries[p], d) /\ d \in claimed[p]
       /\ \A v \in Workers : CopyOf(worker[v], p, d) => v = w

\* A worker that undoes nothing has nothing left to put back.
LEMMA NoTodo ==
  ASSUME ShapeInv, Next, NEW w \in Workers, NEW i \in DOMAIN worker'[w].todo
  PROVE  worker'[w].pc = "restoring"
<1>1. worker'[w] \in WorkerShape /\ Placed(worker'[w])
  BY WorkersKeepShape
<1>2. worker'[w].todo \in Seq(EntryShape)
  BY <1>1 DEF WorkerShape
<1>3. DOMAIN worker'[w].todo = 1..Len(worker'[w].todo)
  BY <1>2
<1>4. Len(worker'[w].todo) # 0
  BY <1>3
<1> QED BY <1>1, <1>4 DEF Placed

\* No step leaves a trace of a program before the copy is listed.
LEMMA TraceStep ==
  ASSUME ShapeInv, Next, NEW p \in Programs, NEW d \in Documents, Clear(p, d)',
         Trace(p, d), Making(p, d)
  PROVE  Trace(p, d)'
<1> DEFINE was == Listed(entries[p], d)
           is == Listed(entries'[p], d)
<1>1. was => is
  BY ListedStays
<1>2. p # "gone" /\ p # "torn" /\ p # "none"
  BY ProgramNames
<1>3. content[d] = p => was
  BY DEF Trace
<1>4. \A o \in landing : (o.prog = p /\ o.doc = d) => was
  BY DEF Trace
<1>5. \A w \in Workers : (worker[w].pc = "copying" /\ worker[w].doc = d /\ worker[w].first = p) => was
  BY DEF Trace
<1>6. \A z \in Programs : \A i \in DOMAIN entries[z] :
        (entries[z][i].doc = d /\ entries[z][i].content = p) => (was /\ p # z)
  BY DEF Trace
<1>7. \A w \in Workers : \A i \in DOMAIN worker[w].todo :
        (worker[w].todo[i].doc = d /\ worker[w].todo[i].content = p) => was
  BY DEF Trace
<1>8. ASSUME content'[d] = p PROVE is
  BY <1>1, <1>2, <1>3, <1>4, <1>7, <1>8, ContentSteps
<1>9. ASSUME NEW o \in landing', o.prog = p, o.doc = d PROVE is
  <2>1. CASE o \in landing
    BY <1>1, <1>4, <1>9, <2>1
  <2>2. CASE o \notin landing
    <3>1. purge_expired => landing' = landing
      BY DEF purge_expired
    <3>2. ASSUME NEW x \in landing, Land(x) PROVE landing' \subseteq landing
      BY <3>2 DEF Land
    <3>3. PICK x \in OperationShape : LetThrough(x) /\ UNCHANGED entries
      BY <1>9, <2>2, <3>1, <3>2, LandingChanges
    <3>4. x = o
      BY <1>9, <2>2, <3>3 DEF LetThrough
    <3>5. ~was => <<p, d>> \in exposed'
      BY <1>9, <3>3, <3>4 DEF LetThrough, Listed
    <3> QED BY <1>1, <3>5 DEF Clear
  <2> QED BY <2>1, <2>2
<1>10. ASSUME NEW w \in Workers, worker'[w].pc = "copying", worker'[w].doc = d, worker'[w].first = p
       PROVE  is
  <2>1. Claim(w) \/ StaysCopy(worker'[w], worker[w])
    BY <1>10, WorkerSteps DEF Goes
  <2>2. CASE Claim(w)
    BY <1>1, <1>3, <1>10, <2>2, ClaimMoves
  <2>3. CASE StaysCopy(worker'[w], worker[w])
    BY <1>1, <1>5, <1>10, <2>3 DEF StaysCopy
  <2> QED BY <2>1, <2>2, <2>3
<1>11. ASSUME NEW z \in Programs, NEW i \in DOMAIN entries'[z],
              entries'[z][i].doc = d, entries'[z][i].content = p
       PROVE  is /\ p # z
  <2>1. CASE \E j \in DOMAIN entries[z] : /\ entries'[z][i].doc = entries[z][j].doc
                                          /\ entries'[z][i].content = entries[z][j].content
    BY <1>1, <1>6, <1>11, <2>1
  <2>2. ASSUME NEW w \in Workers, NEW c \in Contents, CopyDone(w, c), worker[w].prog = z,
               entries'[z][i].doc = worker[w].doc, entries'[z][i].content = c
        PROVE  is /\ p # z
    <3>1. worker[w].doc = d /\ c = p
      BY <1>11, <2>2
    <3>2. worker[w].pc = "copying" /\ (c \in {worker[w].first, content[d]} \/ c = "torn")
      BY <2>2, <3>1, CopyDoneFacts
    <3>3. was
      BY <1>2, <1>3, <1>5, <3>1, <3>2
    <3>4. p # z
      BY <2>2, <3>1, <3>2, <3>3 DEF Making, CopyOf
    <3> QED BY <1>1, <3>3, <3>4
  <2> QED BY <2>1, <2>2, EntrySteps
<1>12. ASSUME NEW w \in Workers, NEW i \in DOMAIN worker'[w].todo,
              worker'[w].todo[i].doc = d, worker'[w].todo[i].content = p
       PROVE  is
  <2>1. RestoreTakes(w) \/ StaysUndo(worker'[w], worker[w])
    BY NoTodo, WorkerSteps DEF Goes
  <2>2. CASE RestoreTakes(w)
    <3>1. worker'[w].todo = entries[worker[w].prog] /\ worker[w].prog \in Programs
      BY <2>2, TakesMoves
    <3> QED BY <1>1, <1>6, <1>12, <3>1
  <2>3. CASE StaysUndo(worker'[w], worker[w])
    <3>1. PICK j \in DOMAIN worker[w].todo : worker'[w].todo[i] = worker[w].todo[j]
      BY <2>3 DEF StaysUndo
    <3> QED BY <1>1, <1>7, <1>12, <3>1
  <2> QED BY <2>1, <2>2, <2>3
<1> HIDE DEF was, is
<1> QED BY <1>8, <1>9, <1>10, <1>11, <1>12 DEF Trace, is

\* A claim is given up by the failure of the copy it was made for, by an undo,
\* and by a purge that leaves the program no copy.
LEMMA ClaimKept ==
  ASSUME ShapeInv, Next, NEW p \in Programs, NEW d \in Documents, Clear(p, d)', d \in claimed[p]
  PROVE  \/ d \in claimed'[p]
         \/ \E w \in Workers : CopyFails(w) /\ CopyOf(worker[w], p, d)
         \/ purge_expired /\ Len(entries'[p]) = 0
<1>1. ~IndexStep => claimed' = claimed
  BY OtherSteps
<1>2. ASSUME NEW w \in Workers, Claim(w) PROVE d \in claimed'[p]
  <2>1. claimed' = [claimed EXCEPT ![worker[w].prog] = @ \cup {worker[w].doc}]
    BY <1>2, ClaimFacts
  <2> QED BY <2>1 DEF ShapeInv
<1>3. ASSUME NEW w \in Workers, CopyFails(w) PROVE d \in claimed'[p] \/ CopyOf(worker[w], p, d)
  <2>1. /\ claimed' = [claimed EXCEPT ![worker[w].prog] = @ \ {worker[w].doc}]
        /\ worker[w].pc = "copying"
    BY <1>3, CopyFailsFacts
  <2> QED BY <2>1 DEF ShapeInv, CopyOf
<1>4. ASSUME NEW w \in Workers, NEW c \in Contents, CopyDone(w, c) PROVE claimed' = claimed
  BY <1>4, CopyDoneFacts
<1>5. ASSUME NEW w \in Workers, RestoreTakes(w) PROVE d \in claimed'[p]
  <2>1. claimed' = [claimed EXCEPT ![worker[w].prog] = {}] /\ undone' = undone \cup {worker[w].prog}
    BY <1>5, TakesFacts
  <2>2. p # worker[w].prog
    BY <2>1 DEF Clear
  <2> QED BY <2>1, <2>2 DEF ShapeInv
<1>6. CopiesAge => claimed' = claimed
  BY AgeFacts
<1>7. purge_expired => (d \in claimed'[p] \/ Len(entries'[p]) = 0)
  BY PurgeFacts
<1> QED BY <1>1, <1>2, <1>3, <1>4, <1>5, <1>6, <1>7 DEF IndexStep

\* No step makes a second copy of one document for one program.
LEMMA MakingStep ==
  ASSUME ShapeInv, Next, NEW p \in Programs, NEW d \in Documents, Clear(p, d)', Making(p, d)
  PROVE  Making(p, d)'
<1> DEFINE was == Listed(entries[p], d)
           is == Listed(entries'[p], d)
<1>1. was => d \in claimed[p]
  BY DEF Making
<1>2. \A w \in Workers : CopyOf(worker[w], p, d) =>
        ~was /\ d \in claimed[p] /\ \A v \in Workers : CopyOf(worker[v], p, d) => v = w
  BY DEF Making
<1>3. is => (was \/ \E w \in Workers, c \in Contents : CopyDone(w, c) /\ CopyOf(worker[w], p, d))
  <2> SUFFICES ASSUME is, ~was
               PROVE  \E w \in Workers, c \in Contents : CopyDone(w, c) /\ CopyOf(worker[w], p, d)
    OBVIOUS
  <2>1. PICK i \in DOMAIN entries'[p] : entries'[p][i].doc = d
    BY DEF Listed
  <2>2. ~\E j \in DOMAIN entries[p] : entries'[p][i].doc = entries[p][j].doc
    BY <2>1 DEF Listed
  <2>3. PICK w \in Workers, c \in Contents :
               CopyDone(w, c) /\ worker[w].prog = p /\ entries'[p][i].doc = worker[w].doc
    BY <2>2, EntrySteps
  <2>4. worker[w].pc = "copying"
    BY <2>3 DEF CopyDone
  <2> QED BY <2>1, <2>3, <2>4 DEF CopyOf
<1>4. ASSUME is, purge_expired PROVE Len(entries'[p]) # 0
  <2>1. entries'[p] \in Seq(EntryShape)
    BY IndexShape
  <2>2. DOMAIN entries'[p] = 1..Len(entries'[p])
    BY <2>1
  <2> QED BY <1>4, <2>2 DEF Listed
<1>5. ASSUME is PROVE d \in claimed'[p]
  <2>1. CASE was
    <3>1. d \in claimed[p]
      BY <1>1, <2>1
    <3>2. ~\E w \in Workers : CopyFails(w) /\ CopyOf(worker[w], p, d)
      BY <1>2, <2>1
    <3> QED BY <1>4, <1>5, <3>1, <3>2, ClaimKept
  <2>2. CASE ~was
    <3>1. PICK w \in Workers, c \in Contents : CopyDone(w, c) /\ CopyOf(worker[w], p, d)
      BY <1>3, <1>5, <2>2
    <3>2. claimed' = claimed
      BY <3>1, CopyDoneFacts
    <3> QED BY <1>2, <3>1, <3>2
  <2> QED BY <2>1, <2>2
<1>6. ASSUME NEW w \in Workers, CopyOf(worker'[w], p, d), ~Claim(w)
      PROVE  /\ CopyOf(worker[w], p, d) /\ ~is /\ d \in claimed'[p]
  <2>1. CopyOf(worker[w], p, d)
    BY <1>6, WorkerSteps DEF Goes, StaysCopy, CopyOf
  <2>2. ~CopyFails(w) /\ ~\E c \in Contents : CopyDone(w, c)
    <3>1. ASSUME CopyFails(w) PROVE FALSE
      <4>1. MovesOn(w)
        BY <3>1, CopyFailsFacts
      <4> QED BY <1>6, <4>1 DEF MovesOn, CopyOf
    <3>2. ASSUME NEW c \in Contents, CopyDone(w, c) PROVE FALSE
      <4>1. MovesOn(w)
        BY <3>2, CopyDoneFacts
      <4> QED BY <1>6, <4>1 DEF MovesOn, CopyOf
    <3> QED BY <3>1, <3>2
  <2>3. ~is
    BY <1>2, <1>3, <2>1, <2>2
  <2>4. ~purge_expired
    <3>1. ASSUME purge_expired PROVE FALSE
      <4>1. w \in Copying /\ worker[w].prog = p /\ worker[w].doc = d
        BY <2>1 DEF Copying, CopyOf
      <4>2. <<p, d>> \in exposed'
        BY <3>1, <4>1, PurgeFacts
      <4> QED BY <4>2 DEF Clear
    <3> QED BY <3>1
  <2>5. d \in claimed'[p]
    BY <1>2, <2>1, <2>2, <2>4, ClaimKept
  <2> QED BY <2>1, <2>3, <2>5
<1>7. ASSUME NEW w \in Workers, Claim(w), CopyOf(worker'[w], p, d)
      PROVE  /\ ~is /\ d \in claimed'[p]
             /\ \A v \in Workers : CopyOf(worker'[v], p, d) => v = w
  <2>1. /\ Moves(w) /\ worker'[w].prog = worker[w].prog /\ worker'[w].doc = worker[w].doc
    BY <1>7, ClaimMoves
  <2>2. worker[w].prog = p /\ worker[w].doc = d
    BY <1>7, <2>1 DEF CopyOf
  <2>3. /\ Admits(p, d) /\ claimed' = [claimed EXCEPT ![p] = @ \cup {d}] /\ UNCHANGED entries
    BY <1>7, <2>2, ClaimFacts
  <2>4. d \notin claimed[p] /\ d \in claimed'[p]
    BY <2>3 DEF Admits, ShapeInv
  <2>5. ~is
    BY <1>1, <2>3, <2>4
  <2>6. ASSUME NEW v \in Workers, CopyOf(worker'[v], p, d), v # w PROVE FALSE
    <3>1. worker'[v] = worker[v]
      BY <2>1, <2>6 DEF Moves
    <3> QED BY <1>2, <2>4, <2>6, <3>1
  <2> QED BY <2>4, <2>5, <2>6
<1>8. ASSUME NEW w \in Workers, CopyOf(worker'[w], p, d)
      PROVE  /\ ~is /\ d \in claimed'[p]
             /\ \A v \in Workers : CopyOf(worker'[v], p, d) => v = w
  <2>1. CASE Claim(w)
    BY <1>7, <1>8, <2>1
  <2>2. CASE ~Claim(w)
    <3>1. CopyOf(worker[w], p, d) /\ ~is /\ d \in claimed'[p]
      BY <1>6, <1>8, <2>2
    <3>2. ASSUME NEW v \in Workers, CopyOf(worker'[v], p, d) PROVE v = w
      <4>1. CASE Claim(v)
        BY <1>7, <1>8, <3>2, <4>1
      <4>2. CASE ~Claim(v)
        BY <1>2, <1>6, <3>1, <3>2, <4>2
      <4> QED BY <4>1, <4>2
    <3> QED BY <3>1, <3>2
  <2> QED BY <2>1, <2>2
<1> HIDE DEF was, is
<1> QED BY <1>5, <1>8 DEF Making, is

-----------------------------------------------------------------------------
(* An undisturbed undo.                                                    *)

\* AloneInv, for one worker.
Alone(w) ==
  LET p == worker[w].prog IN
  /\ p \notin alive
  /\ \A o \in landing : o.prog # p
  /\ \A v \in Workers : worker[v].prog = p => v = w
  /\ \A i \in DOMAIN worker[w].todo :
       worker[w].todo[i].content = p => <<p, worker[w].todo[i].doc>> \in exposed
  /\ \A d \in worker[w].back : content[d] = p => <<p, d>> \in exposed

\* Programs end and do not come back.
LEMMA AliveShrinks ==
  ASSUME Next
  PROVE  alive' \subseteq alive
<1>1. ASSUME NEW w \in Workers, Handle(w) PROVE alive' \subseteq alive
  BY <1>1 DEF Handle, Claim, Skip, CopyFails, CopyDone, Observe, ReplyAllow, ReplyBlock,
     ReplyRefused,
     Terminate, TerminateRefused, RestoreTakes, RestoreOne, RestoreOneFails, RestoreEnds
<1>2. ASSUME NEW p \in Programs, NEW d \in Documents, NEW w \in Workers,
             PreWrite(p, d, w) \/ PreSetInformation(p, d, w)
      PROVE  UNCHANGED alive
  BY <1>2 DEF PreWrite, PreSetInformation
<1>3. ASSUME NEW p \in Programs, NEW d \in Documents, PreWriteThrottled(p, d) PROVE UNCHANGED alive
  BY <1>3 DEF PreWriteThrottled
<1>4. ASSUME NEW d \in Documents, SecondPasses(d) PROVE UNCHANGED alive
  BY <1>4 DEF SecondPasses
<1>5. ASSUME NEW w \in Workers, HoldTimesOut(w) PROVE UNCHANGED alive
  BY <1>5 DEF HoldTimesOut
<1>6. ASSUME NEW o \in landing, Land(o) PROVE UNCHANGED alive
  BY <1>6 DEF Land
<1>7. ASSUME NEW p \in Programs, WindowPasses(p) PROVE UNCHANGED alive
  BY <1>7 DEF WindowPasses
<1>8. CopiesAge \/ purge_expired => UNCHANGED alive
  BY DEF CopiesAge, purge_expired
<1> QED BY <1>1, <1>2, <1>3, <1>4, <1>5, <1>6, <1>7, <1>8 DEF Next

\* A document counts as put back because it did before and no other undo has
\* touched it, or because this undo has just put it back.
LEMMA BackSteps ==
  ASSUME ShapeInv, Next, NEW w \in Workers, worker[w].pc = "restoring",
         worker'[w].pc = "restoring",
         NEW d \in worker'[w].back
  PROVE  \/ \E i \in DOMAIN worker[w].todo : /\ worker[w].todo[i].doc = d
                                             /\ content'[d] = worker[w].todo[i].content
         \/ d \in worker[w].back /\ ~\E v \in Workers : RestoreOne(v) /\ worker[v].todo[1].doc = d
<1>1. worker' \in [Workers -> WorkerShape]
  BY WorkersKeepShape
<1>2. ASSUME NEW v \in Workers, RestoreOne(v)
      PROVE  IF v = w /\ worker[w].todo[1].doc = d
             THEN 1 \in DOMAIN worker[w].todo /\ content'[d] = worker[w].todo[1].content
             ELSE d \in worker[w].back /\ worker[v].todo[1].doc # d
  <2> DEFINE e == Head(worker[v].todo)
  <2>1. 1 \in DOMAIN worker[v].todo /\ e = worker[v].todo[1] /\ e.doc \in Documents
    BY <1>2, RestoreOneMoves
  <2>2. content' = [content EXCEPT ![e.doc] = e.content]
    BY <1>2 DEF RestoreOne
  <2>3. worker'[v].back = worker[v].back \cup {e.doc}
    BY <1>2, RestoreOneMoves
  <2>4. v # w => worker'[w].back = worker[w].back \ {e.doc}
    BY <1>2, RestoreOneMoves
  <2> HIDE DEF e
  <2>5. content \in [Documents -> Contents]
    BY DEF ShapeInv
  <2> QED BY <2>1, <2>2, <2>3, <2>4, <2>5
<1>3. CASE \E v \in Workers : RestoreOne(v)
  <2>1. PICK v \in Workers : RestoreOne(v)
    BY <1>3
  <2>2. \A u \in Workers : RestoreOne(u) => (u = w \/ worker[u].todo[1].doc # d)
    BY <1>2
  <2> QED BY <1>2, <2>1, <2>2
<1>4. CASE ~\E v \in Workers : RestoreOne(v)
  <2>1. ASSUME NEW v \in Workers, MovesOn(v) PROVE worker'[w] = worker[w]
    BY <2>1 DEF MovesOn, Moves
  <2>2. ASSUME NEW v \in Workers, Moves(v), worker[v].pc # "restoring" PROVE worker'[w] = worker[w]
    BY <2>2 DEF Moves
  <2>3. ASSUME NEW v \in Workers, RestoreOneFails(v) PROVE d \in worker[w].back
    <3>1. Moves(v) /\ worker'[v].back \subseteq worker[v].back
      BY <2>3, RestoreFailsMoves
    <3> QED BY <3>1 DEF Moves
  <2>4. ASSUME NEW v \in Workers, Handle(v) PROVE d \in worker[w].back
    <3>1. CASE Claim(v)
      BY <2>2, <3>1, ClaimMoves
    <3>2. CASE \/ Skip(v) \/ CopyFails(v) \/ (\E c \in Contents : CopyDone(v, c)) \/ Observe(v)
               \/ Terminate(v) \/ TerminateRefused(v)
      BY <2>1, <3>2, PlainMoves
    <3>3. CASE ReplyAllow(v) \/ ReplyRefused(v) \/ RestoreEnds(v)
      BY <2>1, <3>3, IdleMoves DEF ReplyAllow, ReplyRefused, RestoreEnds
    <3>4. CASE ReplyBlock(v)
      BY <2>1, <3>4, ConvictedMoves
    <3>5. CASE RestoreTakes(v)
      BY <2>2, <3>5, TakesMoves
    <3> QED BY <1>4, <2>3, <2>4, <3>1, <3>2, <3>3, <3>4, <3>5 DEF Handle
  <2>5. ASSUME NEW p \in Programs, NEW c \in Documents, NEW v \in Workers,
               PreWrite(p, c, v) \/ PreSetInformation(p, c, v)
        PROVE  worker'[w] = worker[w]
    BY <2>1, <2>5, AskedMoves DEF PreWrite, PreSetInformation, MayIssue
  <2>6. ASSUME NEW v \in Workers, HoldTimesOut(v) PROVE worker'[w] = worker[w]
    BY <2>2, <2>6, HoldMoves
  <2>7. ASSUME NEW p \in Programs, NEW c \in Documents, PreWriteThrottled(p, c) PROVE UNCHANGED worker
    BY <2>7 DEF PreWriteThrottled
  <2>8. ASSUME NEW c \in Documents, SecondPasses(c) PROVE UNCHANGED worker
    BY <2>8 DEF SecondPasses
  <2>9. ASSUME NEW o \in landing, Land(o) PROVE UNCHANGED worker
    BY <2>9 DEF Land
  <2>10. ASSUME NEW p \in Programs, WindowPasses(p) PROVE UNCHANGED worker
    BY <2>10 DEF WindowPasses
  <2>11. CopiesAge \/ purge_expired => UNCHANGED worker
    BY DEF CopiesAge, purge_expired
  <2>12. d \in worker[w].back
    BY <2>4, <2>5, <2>6, <2>7, <2>8, <2>9, <2>10, <2>11 DEF Next
  <2> QED BY <1>4, <2>12
<1> QED BY <1>3, <1>4

\* An undo that is undisturbed when it begins: the program's own work is in its
\* copies only where the record says so.
LEMMA AloneBegins ==
  ASSUME ShapeInv, TraceInv, NEW w \in Workers, RestoreTakes(w), worker'[w].alone = TRUE
  PROVE  Alone(w)'
<1> DEFINE p == worker[w].prog
<1>1. /\ Moves(w) /\ worker'[w].prog = p /\ p \in Programs /\ worker'[w].todo = entries[p]
      /\ worker'[w].back = {} /\ Undisturbed(w)
  BY TakesMoves
<1>2. UNCHANGED <<content, landing, exposed, alive>>
  BY TakesFacts
<1>3. p \notin alive /\ p \notin undone /\ \A o \in landing : o.prog # p
  BY <1>1 DEF Undisturbed
<1>4. \A v \in Workers : worker'[v].prog = p => v = w
  BY <1>1 DEF Undisturbed, Moves
<1>5. ASSUME NEW i \in DOMAIN entries[p], entries[p][i].content = p
      PROVE  <<p, entries[p][i].doc>> \in exposed
  <2>1. entries[p] \in Seq(EntryShape)
    BY <1>1 DEF ShapeInv
  <2>2. entries[p][i] \in EntryShape
    BY <2>1
  <2>3. entries[p][i].doc \in Documents
    BY <2>2 DEF EntryShape
  <2>4. ~Clear(p, entries[p][i].doc)
    BY <1>1, <1>5, <2>3 DEF TraceInv
  <2> QED BY <1>3, <2>4 DEF Clear
<1> HIDE DEF p
<1> QED BY <1>1, <1>2, <1>3, <1>4, <1>5 DEF Alone

\* No step disturbs it afterwards.
LEMMA AloneStays ==
  ASSUME ShapeInv, Next, NEW w \in Workers, Alone(w), worker[w].pc = "restoring",
         StaysUndo(worker'[w], worker[w]), worker'[w].pc = "restoring"
  PROVE  Alone(w)'
<1> DEFINE p == worker[w].prog
<1>1. worker'[w].prog = p /\ p \in Programs
  BY WorkerFacts DEF StaysUndo, Placed
<1>2. p # "gone" /\ p # "torn" /\ p # "none"
  BY <1>1, ProgramNames
<1>3. exposed \subseteq exposed' /\ alive' \subseteq alive
  BY RecordGrows, AliveShrinks
<1>4. p \notin alive /\ \A o \in landing : o.prog # p
  BY DEF Alone
<1>5. \A v \in Workers : worker[v].prog = p => v = w
  BY DEF Alone
<1>6. \A i \in DOMAIN worker[w].todo : worker[w].todo[i].content = p => <<p, worker[w].todo[i].doc>> \in exposed
  BY DEF Alone
<1>7. \A d \in worker[w].back : content[d] = p => <<p, d>> \in exposed
  BY DEF Alone
<1>8. p \notin alive'
  BY <1>3, <1>4
<1>9. \A o \in landing' : o.prog # p
  <2>1. purge_expired => landing' = landing
    BY DEF purge_expired
  <2>2. ASSUME NEW x \in landing, Land(x) PROVE landing' \subseteq landing
    BY <2>2 DEF Land
  <2>3. ASSUME NEW x \in OperationShape, LetThrough(x),
               x.prog \in alive \/ \E v \in Workers : worker[v].prog = x.prog /\ worker[v].pc # "restoring"
        PROVE  \A o \in landing' : o.prog # p
    <3>1. x.prog # p
      BY <1>4, <1>5, <2>3
    <3> QED BY <1>4, <2>3, <3>1 DEF LetThrough
  <2> QED BY <1>4, <2>1, <2>2, <2>3, LandingChanges
<1>10. \A v \in Workers : worker'[v].prog = p => v = w
  BY <1>2, <1>4, <1>5, WorkerSteps DEF Goes
<1>11. \A i \in DOMAIN worker'[w].todo :
         worker'[w].todo[i].content = p => <<p, worker'[w].todo[i].doc>> \in exposed'
  BY <1>3, <1>6 DEF StaysUndo
<1>12. ASSUME NEW d \in worker'[w].back, content'[d] = p PROVE <<p, d>> \in exposed'
  <2>1. d \in Documents
    <3>1. worker'[w] \in WorkerShape
      BY WorkersKeepShape
    <3> QED BY <3>1 DEF WorkerShape
  <2>2. CASE \E i \in DOMAIN worker[w].todo : /\ worker[w].todo[i].doc = d
                                              /\ content'[d] = worker[w].todo[i].content
    BY <1>3, <1>6, <1>12, <2>2
  <2>3. CASE d \in worker[w].back /\ ~\E v \in Workers : RestoreOne(v) /\ worker[v].todo[1].doc = d
    <3>1. content'[d] = content[d] \/ \E o \in landing : content'[d] \in {"gone", o.prog}
      BY <2>1, <2>3, ContentSteps
    <3>2. content[d] = p
      BY <1>2, <1>4, <1>12, <3>1
    <3> QED BY <1>3, <1>7, <2>3, <3>2
  <2> QED BY <2>2, <2>3, BackSteps
<1> HIDE DEF p
<1> QED BY <1>1, <1>8, <1>9, <1>10, <1>11, <1>12 DEF Alone

UndoInv == ShapeInv /\ TraceInv /\ MakingInv /\ AloneInv

\* Every step keeps the record.
LEMMA UndoStep == UndoInv /\ [Next]_vars => UndoInv'
<1> SUFFICES ASSUME UndoInv, [Next]_vars PROVE UndoInv'
  OBVIOUS
<1>1. ShapeInv'
  BY ShapeStep DEF UndoInv
<1>2. CASE UNCHANGED vars
  <2>1. TraceInv'
    BY <1>2 DEF UndoInv, TraceInv, Clear, Listed, vars
  <2>2. MakingInv'
    BY <1>2 DEF UndoInv, MakingInv, Clear, Listed, CopyOf, vars
  <2>3. AloneInv'
    BY <1>2 DEF UndoInv, AloneInv, vars
  <2> QED BY <1>1, <2>1, <2>2, <2>3 DEF UndoInv
<1>3. CASE Next
  <2>1. ShapeInv /\ TraceInv /\ MakingInv /\ AloneInv
    BY DEF UndoInv
  <2>2. ASSUME NEW p \in Programs, NEW d \in Documents, Clear(p, d)'
        PROVE  Trace(p, d)' /\ Making(p, d)'
    <3>1. Clear(p, d)
      BY <1>3, <2>1, <2>2, RecordGrows
    <3>2. Trace(p, d) /\ Making(p, d)
      BY <2>1, <3>1 DEF TraceInv, MakingInv, Trace, Making
    <3> QED BY <1>3, <2>1, <2>2, <3>2, TraceStep, MakingStep
  <2>3. TraceInv'
    BY <2>2 DEF TraceInv, Trace
  <2>4. MakingInv'
    BY <2>2 DEF MakingInv, Making
  <2>5. ASSUME NEW w \in Workers, worker'[w].pc = "restoring", worker'[w].alone = TRUE
        PROVE  Alone(w)'
    <3>1. RestoreTakes(w) \/ StaysUndo(worker'[w], worker[w])
      BY <1>3, <2>1, <2>5, WorkerSteps DEF Goes
    <3>2. CASE RestoreTakes(w)
      BY <2>1, <2>5, <3>2, AloneBegins
    <3>3. CASE StaysUndo(worker'[w], worker[w])
      <4>1. worker[w].pc = "restoring" /\ worker[w].alone = TRUE
        BY <2>5, <3>3 DEF StaysUndo
      <4>2. Alone(w)
        BY <2>1, <4>1 DEF AloneInv, Alone
      <4> QED BY <1>3, <2>1, <2>5, <3>3, <4>1, <4>2, AloneStays
    <3> QED BY <3>1, <3>2, <3>3
  <2>6. AloneInv'
    BY <2>5 DEF AloneInv, Alone
  <2> QED BY <1>1, <2>3, <2>4, <2>6 DEF UndoInv
<1> QED BY <1>2, <1>3

\* Nothing has been done at the start.
LEMMA UndoInit == Init => UndoInv
<1> SUFFICES ASSUME Init PROVE UndoInv
  OBVIOUS
<1>1. ShapeInv
  BY ShapeInit
<1>2. landing = {} /\ \A p \in Programs : entries[p] = << >>
  BY DEF Init
<1>3. \A w \in Workers : worker[w] = Idle
  BY DEF Init
<1>4. Idle.pc = "idle" /\ Idle.todo = << >>
  BY DEF Idle
<1>5. \A w \in Workers : /\ worker[w].pc # "copying" /\ worker[w].pc # "restoring"
                         /\ DOMAIN worker[w].todo = {}
  BY <1>3, <1>4
<1>6. \A p \in Programs : DOMAIN entries[p] = {}
  BY <1>2
<1>7. \A p \in Programs, d \in Documents : content[d] # p
  BY VaultAssumption DEF Init
<1>8. TraceInv
  BY <1>2, <1>5, <1>6, <1>7 DEF TraceInv
<1>9. MakingInv
  BY <1>5, <1>6 DEF MakingInv, Listed, CopyOf
<1>10. AloneInv
  BY <1>5 DEF AloneInv
<1> QED BY <1>1, <1>8, <1>9, <1>10 DEF UndoInv

\* When the first undo for an ended, otherwise idle program is over, no document
\* it put back holds what the program wrote, unless the driver let a change
\* through without a copy or a purge dropped the copy (restore, restore_one),
\* however many programs, documents and workers there are.
THEOREM UndoRestores == Spec => []UndoHolds
<1>1. Init => UndoInv
  BY UndoInit
<1>2. UndoInv /\ [Next]_vars => UndoInv'
  BY UndoStep
<1>3. UndoInv => UndoHolds
  <2> SUFFICES ASSUME UndoInv, NEW w \in Workers, worker[w].pc = "restoring", worker[w].alone,
                      NEW d \in worker[w].back
               PROVE  content[d] # worker[w].prog \/ <<worker[w].prog, d>> \in exposed
    BY DEF UndoHolds
  <2>1. worker[w] \in WorkerShape
    BY WorkerFacts DEF UndoInv
  <2>2. worker[w].alone \in BOOLEAN
    BY <2>1 DEF WorkerShape
  <2>3. worker[w].alone = TRUE
    BY <2>2
  <2> QED BY <2>3 DEF UndoInv, AloneInv
<1> QED BY <1>1, <1>2, <1>3, PTL DEF Spec
=============================================================================
