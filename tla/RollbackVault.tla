---------------------------- MODULE RollbackVault ----------------------------
(***************************************************************************)
(* Undoing ransomware: the filter asks before a program changes a document *)
(* (src/driver/blackshard_driver.c), a real-time worker saves the document *)
(* and judges the program (handle_protected_modification of                *)
(* src/realtime.rs), the vault keeps the copies (src/rollback.rs) and puts *)
(* them back when the program is convicted, and the service loop purges    *)
(* old copies (src/service.rs).  Workers share the vault's index through a *)
(* mutex that is not held while a file is copied or put back.              *)
(*                                                                         *)
(* Programs are unsigned or unknown ones: signed programs are not saved    *)
(* for.  A document's content is "original", "gone", the program that last *)
(* rewrote it, or "torn" for a copy that mixes two contents.               *)
(***************************************************************************)
EXTENDS Integers, Sequences, FiniteSets, FiniteSetsExt, SequencesExt

CONSTANTS Programs, Documents, Workers,
          OriginalSize,     \* bytes of an untouched document
          RewrittenSize,    \* bytes of a document a program rewrote
          MaxFileBytes, MaxFiles, MaxProgramBytes, MaxTotalBytes,  \* the vault's limits
          Threshold,        \* distinct documents that convict
          Overlapped,       \* a program may have several operations in flight
          MayRefuse,        \* termination_policy or Windows may spare a program
          MayTimeOut,       \* the filter may give up on an answer, after 100 ms
          MaxOps,           \* bound on operations
          MaxPurges         \* bound on purges

ASSUME VaultAssumption ==
  /\ IsFiniteSet(Programs) /\ IsFiniteSet(Documents) /\ IsFiniteSet(Workers)
  /\ {OriginalSize, RewrittenSize, MaxFileBytes, MaxFiles, MaxProgramBytes, MaxTotalBytes,
      MaxOps, MaxPurges} \subseteq Nat
  /\ Threshold \in Nat \ {0} /\ Overlapped \in BOOLEAN /\ {MayRefuse, MayTimeOut} \subseteq BOOLEAN
  /\ Programs \cap {"none", "original", "gone", "torn"} = {}

VARIABLES
  content,   \* the documents
  throttle,  \* LastWriteProcessId of each document's stream, while it is recent
  landing,   \* operations the filter let through that have not taken effect
  alive,     \* programs still running
  worker,    \* each worker's place in handle_protected_modification
  touched,   \* the monitor's distinct documents of each program
  entries, claimed, bytes, total,  \* the vault's Index; bytes is partial
  exposed,   \* observer: <<program, document>> let through with no copy listed, or
             \* whose copy or claim a purge dropped
  undone,    \* observer: programs an undo has begun for
  ops, purges

driver == <<content, throttle, landing, exposed>>
vault == <<entries, claimed, bytes, total, undone>>
vars == <<content, throttle, landing, alive, worker, touched, entries, claimed, bytes, total,
          exposed, undone, ops, purges>>

Contents == Programs \cup {"original", "gone", "torn"}
SizeOf(c) == IF c = "original" THEN OriginalSize ELSE IF c = "gone" THEN 0 ELSE RewrittenSize
Idle == [pc |-> "idle", prog |-> "none", doc |-> "none", kind |-> "write", size |-> 0,
         first |-> "original", late |-> FALSE, block |-> FALSE, todo |-> <<>>, back |-> {}, alone |-> FALSE, id |-> 0]
Asked(p, d, k) == [Idle EXCEPT !.pc = "preserve", !.prog = p, !.doc = d, !.kind = k, !.id = ops + 1]
Convicted(p) == [Idle EXCEPT !.pc = "terminate", !.prog = p]
Operation(i, p, d, k) == [id |-> i, prog |-> p, doc |-> d, kind |-> k]
\* The filter waits in FltSendMessage for this worker's reply.
Held(w) == worker[w].pc \in {"preserve", "copying", "observe", "reply"} /\ ~worker[w].late
Copying == {w \in Workers : worker[w].pc = "copying"}
\* The operations of p the filter or the file system still holds.
Pending(p) == {o \in landing : o.prog = p} \cup
              {w \in Workers : worker[w].prog = p /\ Held(w)}

Init ==
  /\ content = [d \in Documents |-> "original"]
  /\ throttle = [d \in Documents |-> "none"]
  /\ landing = {} /\ alive = Programs
  /\ worker = [w \in Workers |-> Idle]
  /\ touched = [p \in Programs |-> {}]
  /\ entries = [p \in Programs |-> <<>>] /\ claimed = [p \in Programs |-> {}]
  /\ bytes = <<>> /\ total = 0
  /\ exposed = {} /\ undone = {} /\ ops = 0 /\ purges = 0

-----------------------------------------------------------------------------
(* The filter.                                                             *)

MayIssue(p, d) ==
  /\ ops < MaxOps
  /\ p \in alive
  /\ content[d] # "gone"
  /\ Overlapped \/ Pending(p) = {}
  /\ ops' = ops + 1

\* The filter returns the operation to the file system.
LetThrough(o) ==
  /\ landing' = landing \cup {o}
  /\ exposed' = IF \E i \in DOMAIN entries[o.prog] : entries[o.prog][i].doc = o.doc
                THEN exposed ELSE exposed \cup {<<o.prog, o.doc>>}

\* BlackshardPreWrite: one notification per process, stream and second.  The
\* mark is set before the service has answered.
PreWrite(p, d, w) ==
  /\ MayIssue(p, d)
  /\ throttle[d] # p
  /\ worker[w].pc = "idle"
  /\ throttle' = [throttle EXCEPT ![d] = p]
  /\ worker' = [worker EXCEPT ![w] = Asked(p, d, "write")]
  /\ UNCHANGED <<content, landing, exposed, alive, touched, vault, purges>>

\* A further write within the second goes straight through.
PreWriteThrottled(p, d) ==
  /\ MayIssue(p, d)
  /\ throttle[d] = p
  /\ LetThrough(Operation(ops + 1, p, d, "write"))
  /\ UNCHANGED <<content, throttle, alive, worker, touched, vault, purges>>

\* BlackshardPreSetInformation: renames and deletions are always notified.
PreSetInformation(p, d, w) ==
  /\ MayIssue(p, d)
  /\ worker[w].pc = "idle"
  /\ worker' = [worker EXCEPT ![w] = Asked(p, d, "remove")]
  /\ UNCHANGED <<driver, alive, touched, vault, purges>>

\* FltSendMessage gives up: a write, rename or deletion is let through while the
\* worker goes on, and its reply will be refused.
HoldTimesOut(w) ==
  /\ MayTimeOut
  /\ Held(w)
  /\ LetThrough(Operation(worker[w].id, worker[w].prog, worker[w].doc, worker[w].kind))
  /\ worker' = [worker EXCEPT ![w].late = TRUE]
  /\ UNCHANGED <<content, throttle, alive, touched, vault, ops, purges>>

\* A second has passed since the last notification for this stream.
SecondPasses(d) ==
  /\ throttle[d] # "none"
  /\ throttle' = [throttle EXCEPT ![d] = "none"]
  /\ UNCHANGED <<content, landing, exposed, alive, worker, touched, vault, ops, purges>>

\* An operation that was let through takes effect.
Land(o) ==
  /\ o \in landing
  /\ landing' = landing \ {o}
  /\ content' = [content EXCEPT ![o.doc] = IF o.kind = "remove" \/ @ = "gone" THEN "gone" ELSE o.prog]
  /\ UNCHANGED <<throttle, exposed, alive, worker, touched, vault, ops, purges>>

-----------------------------------------------------------------------------
(* The worker: preserve.                                                   *)

BytesOf(p) == IF p \in DOMAIN bytes THEN bytes[p] ELSE 0
With(f, x, y) == [z \in DOMAIN f \cup {x} |-> IF z = x THEN y ELSE f[z]]
Without(f, S) == [z \in DOMAIN f \ S |-> f[z]]

\* The u64 counts have no overflow checks in a release build; a negative count
\* here is a wrapped one there, larger than any limit.
Fits(count, size, limit) == count >= 0 /\ count + size <= limit

\* Mutant of Admits: the total is not looked at.
Admits_beyond(p, d) ==
  /\ content[d] # "gone"
  /\ SizeOf(content[d]) <= MaxFileBytes
  /\ d \notin claimed[p]
  /\ Cardinality(claimed[p]) < MaxFiles
  /\ Fits(BytesOf(p), SizeOf(content[d]), MaxProgramBytes)

\* Whether preserve takes the document on, under the lock.
Admits(p, d) ==
  /\ content[d] # "gone"
  /\ SizeOf(content[d]) <= MaxFileBytes
  /\ d \notin claimed[p]
  /\ Cardinality(claimed[p]) < MaxFiles
  /\ Fits(BytesOf(p), SizeOf(content[d]), MaxProgramBytes)
  /\ Fits(total, SizeOf(content[d]), MaxTotalBytes)

Claim(w) ==
  LET p == worker[w].prog  d == worker[w].doc  size == SizeOf(content[d]) IN
  /\ worker[w].pc = "preserve"
  /\ Admits(p, d)
  /\ claimed' = [claimed EXCEPT ![p] = @ \cup {d}]
  /\ bytes' = With(bytes, p, BytesOf(p) + size)
  /\ total' = total + size
  /\ worker' = [worker EXCEPT ![w].pc = "copying", ![w].size = size, ![w].first = content[d]]
  /\ UNCHANGED <<driver, alive, touched, entries, undone, ops, purges>>

\* Already claimed, too large, over a quota or gone: the operation is not held.
Skip(w) ==
  /\ worker[w].pc = "preserve"
  /\ ~Admits(worker[w].prog, worker[w].doc)
  /\ worker' = [worker EXCEPT ![w].pc = "observe"]
  /\ UNCHANGED <<driver, alive, touched, vault, ops, purges>>

\* What a copy holds that began with one content and ended with another.
CopyOutcomes(first, last) ==
  IF first = last THEN {first} ELSE {first, "torn"} \cup ({last} \ {"gone"})

\* The copy is done; the sizes are settled and the entry is listed.
CopyDone(w, c) ==
  LET p == worker[w].prog  d == worker[w].doc  settled == SizeOf(c) - worker[w].size IN
  /\ worker[w].pc = "copying"
  /\ c \in CopyOutcomes(worker[w].first, content[d])
  /\ SizeOf(c) <= MaxFileBytes
  /\ total' = total + settled
  /\ bytes' = IF p \in DOMAIN bytes THEN With(bytes, p, bytes[p] + settled) ELSE bytes
  /\ entries' = [entries EXCEPT ![p] = Append(@, [doc |-> d, content |-> c, old |-> FALSE])]
  /\ worker' = [worker EXCEPT ![w].pc = "observe", ![w].size = 0, ![w].first = "original"]
  /\ UNCHANGED <<driver, alive, touched, claimed, undone, ops, purges>>

\* Mutant of CopyFails: the reservation in total_bytes is kept.
CopyFails_keeps(w) ==
  LET p == worker[w].prog IN
  /\ worker[w].pc = "copying"
  /\ claimed' = [claimed EXCEPT ![p] = @ \ {worker[w].doc}]
  /\ bytes' = Without(bytes, {p})
  /\ worker' = [worker EXCEPT ![w].pc = "observe", ![w].size = 0, ![w].first = "original"]
  /\ UNCHANGED <<driver, alive, touched, entries, total, undone, ops, purges>>

\* The copy failed; claim and reservation are given back (saturating_sub).
CopyFails(w) ==
  LET p == worker[w].prog IN
  /\ worker[w].pc = "copying"
  /\ claimed' = [claimed EXCEPT ![p] = @ \ {worker[w].doc}]
  /\ bytes' = IF p \in DOMAIN bytes
              THEN With(bytes, p, Max({0, bytes[p] - worker[w].size})) ELSE bytes
  /\ total' = Max({0, total - worker[w].size})
  /\ worker' = [worker EXCEPT ![w].pc = "observe", ![w].size = 0, ![w].first = "original"]
  /\ UNCHANGED <<driver, alive, touched, entries, undone, ops, purges>>

-----------------------------------------------------------------------------
(* The worker: judge, reply, undo.                                         *)

\* RansomwareMonitor::observe in block mode, reduced to its distinct files.
Observe(w) ==
  LET p == worker[w].prog  seen == touched[p] \cup {worker[w].doc} IN
  /\ worker[w].pc = "observe"
  /\ touched' = [touched EXCEPT ![p] = seen]
  /\ worker' = [worker EXCEPT ![w].pc = "reply", ![w].block = Cardinality(seen) >= Threshold]
  /\ UNCHANGED <<driver, alive, vault, ops, purges>>

ReplyAllow(w) ==
  /\ worker[w].pc = "reply" /\ ~worker[w].block /\ ~worker[w].late
  /\ LetThrough(Operation(worker[w].id, worker[w].prog, worker[w].doc, worker[w].kind))
  /\ worker' = [worker EXCEPT ![w] = Idle]
  /\ UNCHANGED <<content, throttle, alive, touched, vault, ops, purges>>

\* The operation is refused and the program is to be ended.
ReplyBlock(w) ==
  /\ worker[w].pc = "reply" /\ worker[w].block /\ ~worker[w].late
  /\ worker' = [worker EXCEPT ![w] = Convicted(@.prog)]
  /\ UNCHANGED <<driver, alive, touched, vault, ops, purges>>

\* A reply nobody waits for is not accepted: whatever it says, the program is
\* neither ended nor undone.
ReplyRefused(w) ==
  /\ worker[w].pc = "reply" /\ worker[w].late
  /\ worker' = [worker EXCEPT ![w] = Idle]
  /\ UNCHANGED <<driver, alive, touched, vault, ops, purges>>

\* terminate_ransomware_process waits for the exit, so what the file system
\* already had is done; an operation the filter still holds may outlive it.
Terminate(w) ==
  /\ worker[w].pc = "terminate"
  /\ \A o \in landing : o.prog # worker[w].prog
  /\ alive' = alive \ {worker[w].prog}
  /\ worker' = [worker EXCEPT ![w].pc = "restore"]
  /\ UNCHANGED <<driver, touched, vault, ops, purges>>

TerminateRefused(w) ==
  /\ worker[w].pc = "terminate"
  /\ MayRefuse
  /\ worker' = [worker EXCEPT ![w].pc = "restore"]
  /\ UNCHANGED <<driver, alive, touched, vault, ops, purges>>

EntrySize(e) == SizeOf(e.content)
BytesIn(s) == MapThenSumSet(LAMBDA i : EntrySize(s[i]), DOMAIN s)

\* restore, first part: everything the index knows of the program leaves it.
RestoreTakes(w) ==
  LET p == worker[w].prog IN
  /\ worker[w].pc = "restore"
  /\ claimed' = [claimed EXCEPT ![p] = {}]
  /\ bytes' = Without(bytes, {p})
  /\ entries' = [entries EXCEPT ![p] = <<>>]
  /\ total' = Max({0, total - BytesIn(entries[p])})
  /\ undone' = undone \cup {p}
  /\ worker' = [worker EXCEPT ![w].pc = "restoring", ![w].todo = entries[p],
       ![w].alone = /\ p \notin alive \cup undone
                    /\ \A v \in Workers \ {w} : worker[v].prog # p
                    /\ \A o \in landing : o.prog # p]
  /\ UNCHANGED <<driver, alive, touched, ops, purges>>

\* `back` holds what a worker has put back and no other worker has put back since:
\* two undone programs may each have a copy of one document.
PutBack(w, d) ==
  [v \in Workers |-> IF v = w
                     THEN [worker[v] EXCEPT !.todo = Tail(@), !.back = @ \cup {d}]
                     ELSE [worker[v] EXCEPT !.back = @ \ {d}]]

\* Mutant of RestoreOne: a document that is still there is taken for unchanged.
RestoreOne_missing(w) ==
  LET e == Head(worker[w].todo) IN
  /\ worker[w].pc = "restoring" /\ worker[w].todo # <<>>
  /\ content' = [content EXCEPT ![e.doc] = IF @ = "gone" THEN e.content ELSE @]
  /\ worker' = PutBack(w, e.doc)
  /\ UNCHANGED <<throttle, landing, exposed, alive, touched, entries, claimed, bytes, total, undone, ops, purges>>

\* restore_one: what the program left is kept as .replaced, the copy put back
\* and dropped; a document that is as it was saved is left alone.
RestoreOne(w) ==
  LET e == Head(worker[w].todo) IN
  /\ worker[w].pc = "restoring" /\ worker[w].todo # <<>>
  /\ content' = [content EXCEPT ![e.doc] = e.content]
  /\ worker' = PutBack(w, e.doc)
  /\ UNCHANGED <<throttle, landing, exposed, alive, touched, entries, claimed, bytes, total, undone, ops, purges>>

\* The folder was redirected, the path is no file or the write failed: the copy
\* stays in the vault folder, out of the index.
RestoreOneFails(w) ==
  LET e == Head(worker[w].todo) IN
  /\ worker[w].pc = "restoring" /\ worker[w].todo # <<>>
  /\ worker' = [worker EXCEPT ![w].todo = Tail(@), ![w].back = @ \ {e.doc}]
  /\ UNCHANGED <<driver, alive, touched, entries, claimed, bytes, total, undone, ops, purges>>

RestoreEnds(w) ==
  /\ worker[w].pc = "restoring" /\ worker[w].todo = <<>>
  /\ worker' = [worker EXCEPT ![w] = Idle]
  /\ UNCHANGED <<driver, alive, touched, vault, ops, purges>>

-----------------------------------------------------------------------------
(* The service loop and the clock.                                         *)

\* MAX_AGE passes for what is in the vault now.
CopiesAge ==
  /\ \E p \in Programs : \E i \in DOMAIN entries[p] : ~entries[p][i].old
  /\ purges < MaxPurges
  /\ entries' = [p \in Programs |-> [i \in DOMAIN entries[p] |-> [entries[p][i] EXCEPT !.old = TRUE]]]
  /\ UNCHANGED <<driver, alive, worker, touched, claimed, bytes, total, undone, ops, purges>>

\* The monitor's window passes a program by.
WindowPasses(p) ==
  /\ touched[p] # {}
  /\ purges < MaxPurges
  /\ touched' = [touched EXCEPT ![p] = {}]
  /\ UNCHANGED <<driver, alive, worker, vault, ops, purges>>

\* Vec::retain, which keeps the order of what stays.
retain(s) ==
  LET kept[i \in 0..Len(s)] ==
        IF i = 0 THEN <<>> ELSE IF s[i].old THEN kept[i - 1] ELSE Append(kept[i - 1], s[i])
  IN  kept[Len(s)]

\* purge_expired: old entries go, and with them the claims and counts of every
\* program that has no entry left, in-flight copies notwithstanding.
purge_expired ==
  LET kept == [p \in Programs |-> retain(entries[p])]
      live == {p \in Programs : kept[p] # <<>>} IN
  /\ purges < MaxPurges
  /\ purges' = purges + 1
  /\ entries' = kept
  /\ claimed' = [p \in Programs |-> IF p \in live THEN claimed[p] ELSE {}]
  /\ bytes' = Without(bytes, Programs \ live)
  /\ total' = Max({0, total - MapThenSumSet(LAMBDA p : BytesIn(entries[p]) - BytesIn(kept[p]), Programs)})
  /\ exposed' = exposed
       \cup {x \in Programs \X Documents :
               \E i \in DOMAIN entries[x[1]] : entries[x[1]][i].old /\ entries[x[1]][i].doc = x[2]}
       \cup {<<worker[w].prog, worker[w].doc>> : w \in Copying}
  /\ UNCHANGED <<content, throttle, landing, alive, worker, touched, undone, ops>>

Handle(w) ==
  \/ Claim(w) \/ Skip(w) \/ CopyFails(w)
  \/ \E c \in Contents : CopyDone(w, c)
  \/ Observe(w) \/ ReplyAllow(w) \/ ReplyBlock(w) \/ ReplyRefused(w)
  \/ Terminate(w) \/ TerminateRefused(w)
  \/ RestoreTakes(w) \/ RestoreOne(w) \/ RestoreOneFails(w) \/ RestoreEnds(w)

Next ==
  \/ \E p \in Programs, d \in Documents, w \in Workers : PreWrite(p, d, w)
  \/ \E p \in Programs, d \in Documents : PreWriteThrottled(p, d)
  \/ \E p \in Programs, d \in Documents, w \in Workers : PreSetInformation(p, d, w)
  \/ \E d \in Documents : SecondPasses(d)
  \/ \E w \in Workers : HoldTimesOut(w)
  \/ \E o \in landing : Land(o)
  \/ \E w \in Workers : Handle(w)
  \/ CopiesAge
  \/ \E p \in Programs : WindowPasses(p)
  \/ purge_expired

Spec == Init /\ [][Next]_vars

-----------------------------------------------------------------------------
PCs == {"idle", "preserve", "copying", "observe", "reply", "terminate", "restore", "restoring"}

\* The shape of the state.
TypeOK ==
  /\ content \in [Documents -> Contents]
  /\ throttle \in [Documents -> Programs \cup {"none"}]
  /\ \A o \in landing : o.prog \in Programs /\ o.doc \in Documents /\ o.id \in 1..MaxOps
  /\ alive \subseteq Programs
  /\ \A w \in Workers : /\ worker[w].pc \in PCs
                        /\ worker[w].pc # "idle" => worker[w].prog \in Programs
                        /\ Held(w) => worker[w].doc \in Documents
  /\ touched \in [Programs -> SUBSET Documents]
  /\ claimed \in [Programs -> SUBSET Documents]
  /\ DOMAIN bytes \subseteq Programs
  /\ \A p \in Programs : \A i \in DOMAIN entries[p] : entries[p][i].content \in Contents \ {"gone"}
  /\ total \in Nat /\ undone \subseteq Programs /\ ops \in 0..MaxOps /\ purges \in 0..MaxPurges

\* total_bytes is exactly what the listed copies and the copies in the making
\* take, however saves, failures, purges and restores interleave: a drift
\* either way would stop all saving or lift the limit.
TotalAccounted ==
  total = MapThenSumSet(LAMBDA p : BytesIn(entries[p]), Programs)
          + MapThenSumSet(LAMBDA w : worker[w].size, Copying)

\* How much a document may grow between its admission and its copy: a program
\* rewrites it, or the undo of another program puts a larger original back.
Growth == IF RewrittenSize >= OriginalSize THEN RewrittenSize - OriginalSize
          ELSE OriginalSize - RewrittenSize

\* A document that grows while it is copied takes the vault past its limit, but
\* by no more than one such growth for each worker; nor do restores and purges
\* that drop the claims of copies in the making let a program collect more copies.
QuotasHold ==
  /\ total <= MaxTotalBytes + Cardinality(Workers) * Growth
  /\ \A p \in Programs : Len(entries[p]) <= MaxFiles + Cardinality(Workers)

\* When the first undo for a program ends, the program was ended before it and no
\* operation of that program was in another worker's or the file system's hands,
\* no document that was put back, and not put back again by another program's
\* undo, holds what the program wrote, unless an operation on it was let through
\* without a copy (over a quota, a failed or late copy, a throttled write) or a
\* purge dropped its copy or its claim.
UndoHolds ==
  \A w \in Workers : worker[w].pc = "restoring" /\ worker[w].todo = <<>> /\ worker[w].alone =>
    \A d \in worker[w].back : content[d] # worker[w].prog \/ <<worker[w].prog, d>> \in exposed
=============================================================================
