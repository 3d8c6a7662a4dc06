----------------------------- MODULE Quarantine -----------------------------
(***************************************************************************)
(* Isolating a convicted file (src/quarantine.rs).  The store is a folder  *)
(* with a payload and a JSON record for each isolation; nothing locks it.  *)
(* Real-time workers and scans quarantine, the service loop lists every    *)
(* few seconds, and IPC threads (src/ipc.rs) list, restore and delete, all *)
(* at once.  Listing is not a mere read: a record that still says the      *)
(* original is there is rewritten when it is gone.                         *)
(*                                                                         *)
(* One path is watched.  A file that another program puts there, or writes *)
(* over, holds "other" content; the convicted bytes are "threat".  The     *)
(* service may die between any two file operations.                        *)
(***************************************************************************)
EXTENDS Naturals, FiniteSets

CONSTANTS Isolations,   \* calls of quarantine_inner, each with its own Uuid
          Clients,      \* IPC threads
          Loop,         \* the service loop, which only lists
          MaxPathFiles,     \* bound on files ever created at the path
          MaxEdits,     \* bound on what other programs do to the path
          MaxFaults,    \* bound on service deaths and on looks at the path that fail
          MaxRequests   \* bound on restore and delete requests

ASSUME QuarantineAssumption ==
  /\ MaxPathFiles \in Nat \ {0}
  /\ MaxEdits \in Nat /\ MaxFaults \in Nat /\ MaxRequests \in Nat
  /\ Loop \notin Clients

VARIABLES
  path,       \* the file at the original path, 0 when there is none
  data,       \* the bytes of each file
  files,      \* files created so far
  autostart,  \* a startup entry launches the path
  payload,    \* <id>.payload: "none", "tmp" (its temporary name) or "data"
  record,     \* <id>.json, {} or {[state, autostarts]}
  temp,       \* ids whose decrypted temporary is in the restore folder
  q,          \* each quarantine_inner
  client,     \* each reader: what it does and the record it read
  erased,     \* observer: ids the user asked to erase, "asked" then "done"
  removedBy,  \* observer: isolations that deleted their file
  misled,     \* observer: ids found gone while their file was at the path
  edits, faults, requests

fileVars == <<path, data, files>>
bounds == <<edits, faults, requests>>
observers == <<erased, removedBy, misled>>
quarantineVars == <<path, data, files, autostart, payload, record, temp, q, client,
          erased, removedBy, misled, edits, faults, requests>>

Readers == Clients \cup {Loop}
Files == 1..MaxPathFiles
States == {"Isolated", "SourceStillPresent"}
Records == [state : States, autostarts : BOOLEAN]
Fresh == [state |-> "SourceStillPresent", autostarts |-> FALSE]
Waiting == [pc |-> "idle", file |-> 0, deleted |-> FALSE, rec |-> Fresh]
Free(pc) == [pc |-> pc, does |-> "list", ids |-> {}, rec |-> {}]

QuarantineInit ==
  /\ path = 1 /\ files = 1
  /\ data = [f \in Files |-> "threat"]
  /\ autostart = TRUE
  /\ payload = [i \in Isolations |-> "none"] /\ record = [i \in Isolations |-> {}]
  /\ temp = {}
  /\ q = [i \in Isolations |-> Waiting]
  /\ client = [c \in Readers |-> Free("idle")]
  /\ erased = [i \in Isolations |-> "no"] /\ removedBy = {} /\ misled = {}
  /\ edits = 0 /\ faults = 0 /\ requests = 0

-----------------------------------------------------------------------------
(* quarantine_inner                                                        *)

\* The source is opened for reading and deleting; others may still write to it,
\* rename it and put another file in its place.
OpenSource(i) ==
  /\ q[i].pc = "idle"
  /\ path # 0
  /\ q' = [q EXCEPT ![i].pc = "copy", ![i].file = path]
  /\ payload' = [payload EXCEPT ![i] = "tmp"]
  /\ UNCHANGED <<fileVars, autostart, record, temp, client, observers, bounds>>

\* Size, file id and digest of what was copied are those of the scan.
CopySource(i) ==
  /\ q[i].pc = "copy"
  /\ data[q[i].file] = "threat"
  /\ q' = [q EXCEPT ![i].pc = "publish"]
  /\ UNCHANGED <<fileVars, autostart, payload, record, temp, client, observers, bounds>>

\* The bytes are not those that were scanned, or a write or rename failed before
\* there is a record: nothing is kept.
Abort(i) ==
  /\ q[i].pc \in {"copy", "publish", "record"}
  /\ q' = [q EXCEPT ![i].pc = "failed"]
  /\ payload' = [payload EXCEPT ![i] = "none"]
  /\ UNCHANGED <<fileVars, autostart, record, temp, client, observers, bounds>>

PublishPayload(i) ==
  /\ q[i].pc = "publish"
  /\ payload' = [payload EXCEPT ![i] = "data"]
  /\ q' = [q EXCEPT ![i].pc = "record"]
  /\ UNCHANGED <<fileVars, autostart, record, temp, client, observers, bounds>>

\* Mutant of WriteFirstRecord: the record is left for the second write.
WriteFirstRecord_later(i) ==
  /\ q[i].pc = "record"
  /\ q' = [q EXCEPT ![i].pc = "delete"]
  /\ UNCHANGED <<fileVars, autostart, payload, record, temp, client, observers, bounds>>

\* The record with the key goes to disk before the original is touched.
WriteFirstRecord(i) ==
  /\ q[i].pc = "record"
  /\ record' = [record EXCEPT ![i] = {Fresh}]
  /\ q' = [q EXCEPT ![i].pc = "delete"]
  /\ UNCHANGED <<fileVars, autostart, payload, temp, client, observers, bounds>>

\* Mutant of DeleteSource: remove_file(original_path), as on other systems.
DeleteSource_by_path(i) ==
  /\ q[i].pc = "delete"
  /\ path' = 0
  /\ q' = [q EXCEPT ![i].pc = "cleanup", ![i].deleted = TRUE]
  /\ removedBy' = removedBy \cup {i}
  /\ UNCHANGED <<data, files, autostart, payload, record, temp, client, erased, misled, bounds>>

\* delete_open_file deletes the opened file, whatever the path names by now.
DeleteSource(i) ==
  /\ q[i].pc = "delete"
  /\ path' = IF path = q[i].file THEN 0 ELSE path
  /\ q' = [q EXCEPT ![i].pc = "cleanup", ![i].deleted = TRUE]
  /\ removedBy' = removedBy \cup {i}
  /\ UNCHANGED <<data, files, autostart, payload, record, temp, client, erased, misled, bounds>>

\* The file stays mapped although its processes were stopped.
DeleteFails(i) ==
  /\ q[i].pc = "delete"
  /\ q' = [q EXCEPT ![i].pc = "cleanup"]
  /\ UNCHANGED <<fileVars, autostart, payload, record, temp, client, observers, bounds>>

\* What !original_path.exists() says: that the path is free when it is, and also
\* when it cannot be looked at (a folder that denies it, a volume gone for now).
LooksGone(gone) ==
  \/ gone = (path = 0) /\ UNCHANGED faults
  \/ gone = TRUE /\ path # 0 /\ faults < MaxFaults /\ faults' = faults + 1

\* Mutant of Cleanup: a delete that failed counts as isolation.
Cleanup_optimistic(i) ==
  /\ q[i].pc = "cleanup"
  /\ q' = [q EXCEPT ![i].pc = "rewrite",
                    ![i].rec = [state |-> "Isolated", autostarts |-> autostart]]
  /\ autostart' = FALSE
  /\ UNCHANGED <<fileVars, payload, record, temp, client, observers, bounds>>

\* The handle is dropped, the path looked at, and what launches it removed.
Cleanup(i) ==
  /\ q[i].pc = "cleanup"
  /\ \E gone \in BOOLEAN :
       /\ LooksGone(gone)
       /\ q' = [q EXCEPT ![i].pc = "rewrite",
            ![i].rec = [state |-> IF q[i].deleted /\ gone THEN "Isolated" ELSE "SourceStillPresent",
                        autostarts |-> autostart]]
  /\ autostart' = FALSE
  /\ UNCHANGED <<fileVars, payload, record, temp, client, observers, edits, requests>>

\* The record is written again if there is anything to add.
RewriteRecord(i) ==
  /\ q[i].pc = "rewrite"
  /\ q[i].rec # Fresh
  /\ record' = [record EXCEPT ![i] = {q[i].rec}]
  /\ q' = [q EXCEPT ![i].pc = "done"]
  /\ UNCHANGED <<fileVars, autostart, payload, temp, client, observers, bounds>>

\* There is nothing to add, or the write failed, with the file gone already.
RewriteSkipped(i) ==
  /\ q[i].pc = "rewrite"
  /\ q' = [q EXCEPT ![i].pc = IF q[i].rec = Fresh THEN "done" ELSE "failed"]
  /\ UNCHANGED <<fileVars, autostart, payload, record, temp, client, observers, bounds>>

Isolate(i) ==
  \/ OpenSource(i) \/ CopySource(i) \/ PublishPayload(i) \/ WriteFirstRecord(i) \/ Abort(i)
  \/ DeleteSource(i) \/ DeleteFails(i) \/ Cleanup(i) \/ RewriteRecord(i) \/ RewriteSkipped(i)

-----------------------------------------------------------------------------
(* list, load, restore and delete                                          *)

\* list reads one record after another; load, and with it restore, reads one.
ReadRecord(c, i, does) ==
  /\ client[c].pc = "idle"
  /\ record[i] # {}
  /\ does = "restore" => c # Loop /\ requests < MaxRequests
  /\ requests' = IF does = "restore" THEN requests + 1 ELSE requests
  /\ client' = [client EXCEPT ![c] = [pc |-> "reconcile", does |-> does, ids |-> {i}, rec |-> record[i]]]
  /\ UNCHANGED <<fileVars, autostart, payload, record, temp, q, observers, edits, faults>>

\* What follows the reconciliation.
AfterLoad(c) == IF client[c].does = "restore" THEN [client[c] EXCEPT !.pc = "copy"] ELSE Free("idle")

\* Mutant of Gone: nobody looks whether the original is gone.
Gone_unchecked(r, gone) == FALSE

\* reconcile_state: a record that says the original is there, when it looks gone.
Gone(r, gone) == r.state = "SourceStillPresent" /\ gone

Settled(c) ==
  /\ client[c].pc = "reconcile"
  /\ \A r \in client[c].rec : ~Gone(r, path = 0)
  /\ client' = [client EXCEPT ![c] = AfterLoad(c)]
  /\ UNCHANGED <<fileVars, autostart, payload, record, temp, q, observers, bounds>>

FoundGone(c) ==
  /\ client[c].pc = "reconcile"
  /\ \E r \in client[c].rec, gone \in BOOLEAN :
       /\ LooksGone(gone) /\ Gone(r, gone)
       /\ client' = [client EXCEPT ![c].pc = "write", ![c].rec = {[r EXCEPT !.state = "Isolated"]}]
  /\ misled' = misled \cup {i \in client[c].ids : q[i].file = path}
  /\ UNCHANGED <<fileVars, autostart, payload, record, temp, q, erased, removedBy,
                 edits, requests>>

\* write_record puts the record that was read, with its new state, on disk,
\* over whatever is there by now.
Reconcile(c) ==
  /\ client[c].pc = "write"
  /\ \E i \in client[c].ids : record' = [record EXCEPT ![i] = client[c].rec]
  /\ client' = [client EXCEPT ![c] = AfterLoad(c)]
  /\ UNCHANGED <<fileVars, autostart, payload, temp, q, observers, bounds>>

\* A write that fails is ignored.
ReconcileFails(c) ==
  /\ client[c].pc = "write"
  /\ client' = [client EXCEPT ![c] = AfterLoad(c)]
  /\ UNCHANGED <<fileVars, autostart, payload, record, temp, q, observers, bounds>>

\* restore decrypts the payload beside its destination, which must look free.
RestoreCopy(c, i) ==
  /\ client[c].pc = "copy" /\ i \in client[c].ids
  /\ LooksGone(TRUE) /\ payload[i] = "data" /\ i \notin temp
  /\ temp' = temp \cup {i}
  /\ client' = [client EXCEPT ![c].pc = "place"]
  /\ UNCHANGED <<fileVars, autostart, payload, record, q, observers,
                 edits, requests>>

\* The destination exists, or its folder is refused.
RestoreRefused(c) ==
  /\ client[c].pc = "copy"
  /\ client' = [client EXCEPT ![c] = Free("idle")]
  /\ UNCHANGED <<fileVars, autostart, payload, record, temp, q, observers, bounds>>

\* The payload is gone or damaged, or the temporary exists already; the
\* temporary is removed, also when another restore is writing it.
RestoreFails(c, i) ==
  /\ client[c].pc = "copy" /\ i \in client[c].ids
  /\ LooksGone(TRUE) /\ temp' = temp \ {i}
  /\ client' = [client EXCEPT ![c] = Free("idle")]
  /\ UNCHANGED <<fileVars, autostart, payload, record, q, observers,
                 edits, requests>>

\* rename_no_replace: the path may have been taken since it was looked at.
RestorePlace(c, i) ==
  /\ client[c].pc = "place" /\ i \in client[c].ids
  /\ i \in temp /\ path = 0 /\ files < MaxPathFiles
  /\ path' = files + 1 /\ files' = files + 1 /\ data' = [data EXCEPT ![files + 1] = "threat"]
  /\ temp' = temp \ {i}
  /\ client' = [client EXCEPT ![c] = Free("idle")]
  /\ UNCHANGED <<autostart, payload, record, q, observers, bounds>>

\* A rename that fails leaves the temporary where it is.
RestorePlaceFails(c, i) ==
  /\ client[c].pc = "place" /\ i \in client[c].ids
  /\ i \notin temp \/ path # 0
  /\ client' = [client EXCEPT ![c] = Free("idle")]
  /\ UNCHANGED <<fileVars, autostart, payload, record, temp, q, observers, bounds>>

\* delete: the payload first, which stays if it is in use ...
DeletePayload(c, i) ==
  /\ client[c].pc = "idle" /\ c # Loop
  /\ record[i] # {} /\ requests < MaxRequests
  /\ requests' = requests + 1
  /\ payload' \in {payload, [payload EXCEPT ![i] = "none"]}
  /\ erased' = [erased EXCEPT ![i] = "asked"]
  /\ client' = [client EXCEPT ![c] = [pc |-> "erase", does |-> "delete", ids |-> {i}, rec |-> {}]]
  /\ UNCHANGED <<fileVars, autostart, record, temp, q, removedBy, misled, edits, faults>>

\* ... then, either way, the record; an error is reported if one of them stayed.
DeleteRecord(c, i) ==
  /\ client[c].pc = "erase" /\ i \in client[c].ids
  /\ \/ /\ record' = [record EXCEPT ![i] = {}]
        /\ erased' = [erased EXCEPT ![i] = IF payload[i] = "none" THEN "done" ELSE "asked"]
     \/ UNCHANGED <<record, erased>>
  /\ client' = [client EXCEPT ![c] = Free("idle")]
  /\ UNCHANGED <<fileVars, autostart, payload, temp, q, removedBy, misled, bounds>>

Serve(c) ==
  \/ Settled(c) \/ FoundGone(c) \/ Reconcile(c) \/ ReconcileFails(c) \/ RestoreRefused(c)
  \/ \E i \in Isolations :
       \/ \E does \in {"list", "restore"} : ReadRecord(c, i, does)
       \/ RestoreCopy(c, i) \/ RestoreFails(c, i) \/ RestorePlace(c, i) \/ RestorePlaceFails(c, i)
       \/ DeletePayload(c, i) \/ DeleteRecord(c, i)

-----------------------------------------------------------------------------
(* Other programs, and the end of the service.                             *)

\* Another program writes to the file, puts a file of its own in its place, or
\* deletes it.
Edit ==
  /\ edits < MaxEdits /\ edits' = edits + 1
  /\ \/ /\ path # 0 /\ data' = [data EXCEPT ![path] = "other"]
        /\ UNCHANGED <<path, files>>
     \/ /\ files < MaxPathFiles
        /\ path' = files + 1 /\ files' = files + 1
        /\ data' = [data EXCEPT ![files + 1] = "other"]
     \/ /\ path # 0 /\ path' = 0
        /\ UNCHANGED <<data, files>>
  /\ UNCHANGED <<autostart, payload, record, temp, q, client, observers, faults, requests>>

\* Only files survive; what was being isolated is not taken up again (its locals
\* stay here for the properties to look at).
Crash ==
  /\ faults < MaxFaults /\ faults' = faults + 1
  /\ q' = [i \in Isolations |-> IF q[i].pc = "idle" THEN q[i] ELSE [q[i] EXCEPT !.pc = "failed"]]
  /\ client' = [c \in Readers |-> Free("idle")]
  /\ UNCHANGED <<fileVars, autostart, payload, record, temp, observers, edits, requests>>

QuarantineNext ==
  \/ \E i \in Isolations : Isolate(i)
  \/ \E c \in Readers : Serve(c)
  \/ Edit
  \/ Crash

QuarantineSpec == QuarantineInit /\ [][QuarantineNext]_quarantineVars

\* The service loop runs, its list passes over every record, and a record it
\* tries to write again and again is written at last.
Fairness ==
  /\ \A i \in Isolations : SF_quarantineVars(ReadRecord(Loop, i, "list"))
  /\ WF_quarantineVars(Settled(Loop)) /\ WF_quarantineVars(FoundGone(Loop))
  /\ \A i \in Isolations : SF_quarantineVars(client[Loop].ids = {i} /\ Reconcile(Loop))
FairSpec == QuarantineSpec /\ Fairness

-----------------------------------------------------------------------------
IsolationType ==
  [pc : {"idle", "copy", "publish", "record", "delete", "cleanup", "rewrite", "done", "failed"},
   file : Nat, deleted : BOOLEAN, rec : Records]
ReaderType ==
  [pc : {"idle", "reconcile", "write", "copy", "place", "erase"},
   does : {"list", "restore", "delete"}, ids : SUBSET Isolations, rec : SUBSET Records]

\* The shape of the state: one record to an id at most, and no file named that
\* was not created.
QuarantineTypeOK ==
  /\ path \in 0..files /\ files \in Files
  /\ data \in [Files -> {"threat", "other"}]
  /\ autostart \in BOOLEAN
  /\ payload \in [Isolations -> {"none", "tmp", "data"}]
  /\ record \in [Isolations -> {{}} \cup {{r} : r \in Records}]
  /\ temp \subseteq Isolations
  /\ q \in [Isolations -> IsolationType] /\ \A i \in Isolations : q[i].file <= files
  /\ client \in [Readers -> ReaderType]
  /\ erased \in [Isolations -> {"no", "asked", "done"}]
  /\ removedBy \subseteq Isolations /\ misled \subseteq Isolations
  /\ edits \in 0..MaxEdits /\ faults \in 0..MaxFaults /\ requests \in 0..MaxRequests

\* Whatever the moment the service dies, a file that quarantine deleted can be
\* restored - its payload and the record with its key are on disk - until the
\* user has it erased.
NothingLost ==
  \A i \in removedBy : erased[i] = "no" => payload[i] = "data" /\ record[i] # {}

\* A record says Isolated only when the file it was made for has left the path,
\* whatever deletes, lists and restores wrote it and however old the record was
\* that they had read - unless one of them could not look at the path while the
\* file was there, and took that for its absence.
IsolatedIsGone ==
  \A i \in Isolations : \A r \in record[i] :
    r.state = "Isolated" /\ q[i].file # 0 => path # q[i].file \/ i \in misled

\* Neither quarantine nor restore ever removes or replaces a file another
\* program has put at the path, however late it appears.
OthersUntouched ==
  [][path # 0 /\ path' # path /\ edits' = edits =>
       \E i \in Isolations : q[i].file = path /\ i \in removedBy' \ removedBy]_quarantineVars

\* A record whose original is gone for good ends up saying so, even when the
\* service died between the deletion and the second write of the record.
SettlesIsolated ==
  \A i \in Isolations :
    <>[](path = 0) => <>[](\A r \in record[i] : r.state = "Isolated")
=============================================================================
