# Formal models of blackshard

TLA+ models of blackshard: the on-access verdict, the verdict cache, the
definition updates, the ClamAV databases, the ransomware undo, the quarantine
store, the life of the service, on-demand scans, the control channel, and what
an analysis concludes. Every module is written from the source it names;
`PROJECT.json` maps each definition to its lines, and lists the hazards of the
code with the properties that would catch them.

Run a model with `tlc -config <X>.cfg <MCmodule>`, check proofs with
`tlapm <Component>_proofs.tla`.

## The system and its parts

blackshard is a Windows antivirus: a kernel minifilter, a service and a user
interface.

| Part | State | Operations | Talks to |
|---|---|---|---|
| Minifilter (`src/driver/blackshard_driver.c`) | operational phase, client port, a context for each file stream (content generation, last write notification), counters | PreCreate, PostCreate, PreWrite, PreSetInformation, PreAcquireForSection, port callbacks | the service, through FltSendMessage with a timeout |
| Connection supervisor (`connection_supervisor.rs`) | port handle, bounded queue, worker threads | connect, publish, receive, enqueue or answer, release, join, back off | minifilter, workers, the service loop through a bounded channel |
| Real-time workers (`realtime.rs`) | what they are scanning | screen, open, look up, scan, reply, quarantine; handle a protected write | cache, engine, vault, quarantine, events to the service loop |
| Verdict cache (`verdict_cache.rs`) | entries by key, keys by last use, tick | get, insert | workers, under one lock |
| Detection engine (`detection.rs`) | native index behind a lock, circuit breakers | scan a path, a handle, bytes, an AMSI submission; replace the index | static engine, index, rules, AMSI, containers |
| Static engine (`engine.rs`) | none | classify, collect evidence, score | detection engine |
| ClamAV index (`clamdb/native_index.rs`, `pattern.rs`, `logical.rs`) | digest tables, signatures; counters for each thread | load, look up, search | detection engine |
| Containers (`archive.rs`, `vba.rs`) | what a walk has used of its budgets | walk zip, OLE, gzip | detection engine, once for each entry |
| Ransomware monitor (`behavior.rs`) | distinct documents of each process in a window | observe | workers |
| Rollback vault (`rollback.rs`) | index of saved copies, claims, byte counts; a folder | preserve, restore, purge_expired | workers, service loop |
| Quarantine store (`quarantine.rs`) | a folder of payloads and records, no lock | quarantine, list, load, restore, delete | workers, scans, IPC threads, service loop |
| Update client and store (`update_client.rs`, `updater.rs`) | version directories, two pointer files, a channel of events | check, fetch, stage and activate | network, loader, service loop |
| Definition loader (`definitions.rs`) | circuit breaker | load with fallback | store, service |
| ClamAV downloader and scheduler (`clamdb/downloader.rs`, `scheduler.rs`) | generations on disk, a pointer, a cooldown | check, fetch or reuse, activate, prune, hand over | mirror, service loop |
| Service loop (`service.rs`), readiness (`readiness.rs`) | start phase, engine in use, generation, health streaks, snapshot | start, apply events, self-test, arm the driver, reload settings, purge, list, stop | everything above |
| Scan manager (`scan_manager.rs`) | one scan's progress, queue and threads | start, walk, scan, cancel, finish | engine, quarantine, control server |
| Control server (`ipc.rs`), settings (`config.rs`), history (`history.rs`) | pipe instances, sessions, a settings file, a log | serve a command, save, append, rotate, clear, stop | clients, service loop |
| Notification agent (`notification_agent.rs`) | a cursor in time | poll, show, save the cursor | control server |
| User interface, installers, Windows wrappers | | | not modelled |

What is hard about it, in order of how much harm it can do:

* a verdict is worked out on a file that other programs keep writing to, with
  definitions that are replaced meanwhile, for a caller that gives up after a
  while;
* an analysis works within budgets on a file that is made to break them, and what
  it did not read must not make the file clean for good;
* an undo races the program it undoes, other workers and a purge;
* files are moved into and out of quarantine by threads that share a folder and
  no lock, and the service may die between any two file operations;
* definitions are activated by several writes, and must neither be lost nor
  rolled back by a crash, a replay or a lagging mirror;
* the driver fails closed once it is armed, so it must be armed only by a service
  that works, and a stop must always come to an end.

## The modules

| Module | Models | Notes |
|---|---|---|
| `LruCache` | what the cache promises: a list, least recently used first | abstract specification; also the cache inside `RealtimeVerdict` |
| `VerdictCache` | `verdict_cache.rs` | one action for each way out of get and insert; its last section reads the two maps as one list, `ImplementsLru` is the refinement |
| `RealtimeVerdict` | minifilter + connection thread + workers + service loop | composes four components around one file |
| `DefinitionUpdates` | update worker, store, loader, service loop | a crash between any two writes |
| `RollbackVault` | minifilter's write path, workers, monitor, vault | the index lock is held for one action at a time |
| `Quarantine` | `quarantine.rs` with its readers | one action for each file operation |
| `ServiceLifecycle` | `service.rs`, `readiness.rs`, `connection_supervisor.rs` | the service thread beside the supervisor |
| `ScanManager` | `scan_manager.rs`, the scan commands of `ipc.rs` and their client | one action for each holding of the progress lock |
| `ClamDb` | `clamdb/downloader.rs`, `clamdb/scheduler.rs`, the service's loading | a crash between any two steps |
| `IpcServer` | `ipc.rs`, `config.rs`, `history.rs`, `notification_agent.rs` | listeners, clients, reload and agent |
| `PatternMatch` | `clamdb/pattern.rs`, `clamdb/logical.rs` | operators: from a line to a signature, and whether it fits; with a reference meaning |
| `NativeIndex` | `clamdb/native_index.rs`, `PatternSet` | extends `PatternMatch`; the search of one thread, a hit at a time |
| `StaticEngine` | `engine.rs` | operators over what a file is |
| `Evidence` | `rules.rs`, `similarity.rs`, `amsi.rs`, the cascade of `detection.rs` | operators from findings to a verdict |
| `Detection` | `detection.rs`, `archive.rs` | extends the three above: one analysis at a time, entry by entry |
| `MC*` | constants, symmetry | |
| `*_proofs` | theorems | see below |

Each module's `TypeOK` (`CacheTypeOK` in `VerdictCache`), where it has one,
documents the shape of its state. The
runs list the properties that say more; TLC finds `TypeOK` to hold on the same
instances when it is added to a cfg.

### VerdictCache

`entries` and `recency` are the two maps, `tick` the counter, `generation` the
service's definition generation, which a caller may have read a while ago.
`GetMiss`, `GetStale`, `GetHit`, `InsertRejected` and `InsertStored` are the
paths through the two methods. An entry is 24 hours old when `Age` says so.
A report is reduced to what `is_cacheable` looks at.

### RealtimeVerdict

One file is watched. `content` counts the writes that reached it and stands for
its bytes; each content has a change time of its own, which may be unreadable at
any time it is asked for (`ChangeTimes`). The key then carries `Unreadable`, the
code's 0, and a scan that could read it neither before nor after takes the file for
unchanged, whatever landed meanwhile (`ScanResults`): `None == None`. Length and
modification time are not told apart: a rewrite can keep them. `ctxGen` is the driver's
ContentGeneration, which moves when a write is admitted (`PreWrite`), before the
bytes land (`WriteLands`), not at all for mapped writes (`UntrackedWrite`), and
starts over with a new stream context (`ContextRebuilt`). A request goes through
`Evaluate` (message sent), the connection thread's `Receive`, and a worker's
`Take`, `CloneEngine`, `ReadKey`, `Lookup`, `BeginScan`, `FinishScan`,
`SendVerdict`; then `Decide` in the driver. Each of these is one step because
other threads can act between them. Failures take `ApplyFailurePolicy`, the
driver's table. `ReplaceEngine`, `ReplaceIndex` and `PublishGeneration` are
service.rs' two steps of putting definitions in place. What a scan finds is an
arbitrary relation of definitions and content here; `Detection` says what it is.

### DefinitionUpdates

A bundle is one signed envelope with its payload; bundles whose signature is
wrong never get past `verify_manifest` and are left out. The update worker's
`pc` walks through `perform_update` and `stage_and_activate`; `versions`,
`current` and `previous` are the disk. `Crash` keeps the disk only.
`DamageVersion` and `DamagePointer` are the damage the loader and the store guard
against. `emit` is `try_send`: an event may be lost. A load the service asks for
may fail (`load_fails`): the engine stays, or the built-in rules replace an expired
one.

### RollbackVault

`content` is each document's content: original, gone, rewritten by a program, or
torn (a copy made while it changed). `PreWrite`, `PreWriteThrottled`,
`PreSetInformation` and `HoldTimesOut` are the filter; the worker's `pc` walks
through `handle_protected_modification`. `entries`, `claimed`, `bytes` and
`total` are the vault's index. A count that wraps in the program is negative in
the model and fits no limit, as in the code, whose additions saturate. `exposed`
records documents of which an operation was let through with no copy listed, or
whose copy or claim a purge dropped; `undone` the programs an undo has begun for,
and a worker's `alone` that its undo is the first for a program that was ended
with nothing of it in anyone's hands. `UndoHolds` speaks of such undos only: the
others are the subject of the observations below. It speaks of the documents the
undo put back (`back`) as long as no other program's undo has put them back again
since (`PutBack`): with two programs on one document, each undo restores what its
own program found there, which may be what the other wrote. `Growth` is by how
much a document can change size, in either direction: a document that an undo
makes larger while another program's copy of it is in the making counts as much as
one that a program makes larger. In the `vault` run a program
waits for each operation, but one that timed out goes on in its worker, so two
workers still handle the same program and document at once.

### Quarantine

One path is watched; a file is its number, so a new file at the same path is
another file. Each isolation has its own id, payload and record. The source is
opened once and deleted through that handle. A reader's `rec` is the record it
holds in memory between reading and writing it back. `MaxPathFiles` bounds the files
ever created at the path. The code asks `!original_path.exists()`, which is also
true of a path that cannot be looked at: `LooksGone` may say so of a file that is
there, as one of `MaxFaults` faults beside the crashes, and `misled` remembers the
records that were told so. The initial states, the steps and the specification are
called `QuarantineInit`, `QuarantineNext` and `QuarantineSpec`, since the proofs
about the two stores stand in one module.

### ServiceLifecycle

`pc` walks the service thread through the start phases (`LoadSettings` to
`ReportRunning`, each with its failure exit), the loop (`Drain` the channels,
`Query` the driver, run the self-test, `Judge`), and the teardown (`StopRpc`,
`StopUpdater`, `StopProtection`, `Join`). `sup` walks the supervisor through
connecting, publishing its handle, receiving, releasing and waiting. `port` is
the published handle both sides exchange for zero; `closed` counts how often each
was closed. `events` is the bounded channel into which the workers' decisions
(`Traffic`) and the supervisor's announcements go by `try_send`. `streak`,
`selfTest` and `freshclam` are what `Judge` arms the driver on; `snapshot` is in
memory, `file` what `write_health` last wrote. Both protection tiers are initial
states. `ArmedOnlyWhenProven` is about what the driver may be armed on at all, its
evidence of any age: a passed self-test and a database are not asked for again, in
the model as in the code.

### ScanManager

`progress` is the record behind the lock; `main` the thread that starts and
joins the others, `walk` the enumerator, `wk` the workers, `holder` the worker
that holds the receiving end while it waits. `CancelScan` and `CancelPhase` are
the two steps of a cancellation, `PollAnswered` and `PollLost` the client's
polling. The enumerator may panic (`WalkPanics`), which the code reports as
Failed; a worker's analysis cannot, since `contain_panics` turns a panic into a
verdict.

### ClamDb

Two containers stand for ClamAV's. A check reads the pointer, asks for headers,
then reuses or fetches each container into staging (`Reuse`, `Fetch`), renames
staging to a generation, writes the pointer and prunes the rest one directory at
a time, and hands the generation to the service by a blocking send. Headers and
bodies are answered by nodes of any version. A container whose verification or
extraction fails is a failed request. `fallback` is the second source. Three
readers ask for the installed definitions with `active_database(..).ok()`: the
starting service (`Boot`), the scheduler's thread (`Start`) and each check (`Check`).
To all three, definitions that cannot be read are none (`ReadActive`), as one of the
faults; `unread` remembers it of a check while it lasts.

### IpcServer

`pc` walks a listener through waiting, reading, checking, serving and replying;
`call` walks a client through its own side with its deadlines. `SaveSettings` is
`Save`, `ReadBack`, `Install`, beside the service's `ReadStamp`, `LoadSettings`,
`InstallSettings`. An alert is stamped (`Stamp`) and appended (`AppendAlert`) in
two steps; the history rotates at `MaxLog`. An append may fail and leave nothing, or
part of an entry that the next one joins (`torn`); nobody looks at the result. The
agent fetches events and settings, shows (unless the settings in use are among
those of `Muted`, with notifications off) and saves its cursor, and may restart
between any two of these, from the cursor it saved or, if that cannot be read, from
the present. The settings file is known by the number of the write that made it,
where the code compares length and modification time: an edit that keeps both is
not seen by either reader and is not in the model.

### Detection and what it is built from

A byte is one of six representatives (zero, a letter in both cases, a digit, the
first byte of a program, and one that is neither), a signature line is a sequence
of tokens. `PatternMatch` builds parts, anchor and offset from a line as
`parse_line` and `parse_piece` do, verifies a candidate leftwards and rightwards
with the step budget of `verify`, and evaluates logical expressions. Its second
half is the reference: `Matches` says that some choice of gaps fits.
`NativeIndex` searches a sample hit by hit with the counters a thread keeps from
scan to scan (`scratch`), and may be cut short by a panic.

`StaticEngine` scores a file by what it is: sections, imports, marks at positions
in a script, streams of a PDF. Points are the code's. A kind of word has several
needles, and `near` looks at the first `MostPositions` places only, one needle after
the other. The sections of a program have digests only if it parses in the sample
(`Parses`), as for the analysis. `Evidence` resolves rule
matches, similarity, AMSI and index hits as `EvidenceCascade::resolve` does.
`Detection` takes a file from the open handle to the report and walks containers
with a stack of frames, each step one entry; `insp` holds what each walk has used
and found, with a second inspection for a compound file inside an archive, as in
the code. The index may be replaced whenever it is not locked. Macros are looked
for in streams that are named for them (`is_vba`), and found if they begin at one of
the first `MacroOffsets` places and grow to no more than `MaxMacroBytes`
(`decompresses`); otherwise the stream is passed over in silence.

## Runs

All passing runs exhaust their instance.

| Run | Instance | Properties |
|---|---|---|
| `verdict_cache` | 3 keys, capacity 2 | `Consistent`: both indexes agree. `EvictsLeastRecent`. `ImplementsLru`: refinement of `LruCache` |
| `realtime` | 2 requests, 2 workers, queue of 1, 1 write, failures, timeouts, disconnects, unreadable change times | `RaceNotJudgedByOldVerdict`, `BypassesCounted`, `CacheHitNotOutdated` |
| `realtime_live` | 2 requests, 1 worker, 2 versions of engine and index, fairness, disconnects, settings, failed opens | `CachedUnderCurrentIndex`, `EveryRequestDecided` |
| `realtime_engine` | 2 engine versions | **violated**: `CachedUnderCurrentEngine`, see findings |
| `updates` | 4 bundles, two of them in one directory and one that does not compile; channel of 1; one crash, one damage, one expiry, loads that fail | `PointersCommitted`, `HealthTruthful`, `RollbackProtected`, `NewestAdopted` |
| `vault` | 1 program with up to 3 operations on 2 documents, 2 workers, timeouts, refused terminations, a purge | `TotalAccounted`: byte counts exact. `QuotasHold`: limits hold up to one document's growth for each worker. `UndoHolds` |
| `quarantine` | 1 isolation, 2 clients and the loop, 2 requests, an edit, a crash or a failed look at the path | `NothingLost`, `IsolatedIsGone`, `OthersUntouched`, `SettlesIsolated` |
| `service` | both tiers, channel of 1, 2 connections, 1 fault, 2 checks, a database still to be downloaded | `ArmedOnlyWhenProven`, `QuietWhenStopped`, `StopCompletes`, `EndsUpReady` |
| `scans` | 2 scans of 4 files (one excluded, one unreadable), 2 workers, queue of 2, list of 1 finding | `CompletedIsComplete`, `CancelBounded`, `FinishedStays`, `ScanEnds` |
| `clamdb` | 2 containers, 3 versions, 2 generations, 1 fault, 1 damage, 1 crash | `PointerComplete`, `NeverOlder`, `IndexCatchesUp` |
| `ipc` | 1 listener, 4 clients (administrator, user, one that says nothing, the agent), 1 recorder, history of 2, 3 calls, alerts, edits or faults together, notifications off in one version of the settings | `CallsEnd`, `ListenersEnd`, `SettingsConverge`, `AlertsShown` |
| `detection` | 2 databases, 33 contents of which 26 are submitted as files, 2 analyses in a row, small limits | `ScanAgrees`, `HashesAgree`, `StaticAgrees`, `BudgetsHold`, `StrongestEntryDecides`, `NothingUnreadIsClean` |

Why the bounds are enough: every concurrent property involves one file,
document, id, bundle or handle and at most two actors at odds over it, so two of
each let the interesting orders happen; capacities of one or two put queues,
channels, cache, history and quotas at their limit; one crash and one fault at any
step, followed by a restart, meet every intermediate state of the disk. Two
analyses in a row let the second meet the counters the first left, of either
index. The contents of `MCDetection` are chosen so that every kind of evidence,
container, fault and limit occurs, alone and nested. Each property is also shown
to fail when the definition it guards is changed the way a plausible mistake would
change it (`mutants`).

Symmetry is used only for safety runs, over sets whose members are
interchangeable. Deadlock is checked except where a bound on the environment ends
a behaviour.

### Exceptions the properties name

Some promises hold only up to something the code does not do; the property names
it, and an observer variable in the model records it.

* `EndsUpReady`: unless a Connected event met a full channel (`dropped`), the
  service failed or was stopped, connections ran out (a bound), or the update
  client was lost with definitions in a failed state.
* `CacheHitNotOutdated`: unless the key's change time could not be read.
* `NewestAdopted`: unless the Installed event was lost or the load it asked for
  failed (`lost`), the bundle itself is damaged, or `current.json` is (nothing
  repairs that one).
* `IsolatedIsGone`: unless a look at the path failed while the file was there
  (`misled`).
* `NeverOlder`: unless the check could not read what is installed (`unread`).
* `IndexCatchesUp`: unless a generation did not load, or the service could not read
  the pointer when it started (`missed`).
* `SettingsConverge`: unless the file was edited during a save or could not be
  read (`mixed`).
* `AlertsShown`: unless the alert was not appended, joined part of an entry, was
  rotated or cleared away, cut off by the size of a poll, overtaken by a later
  event, fetched while notifications were off, or passed over when a cursor that
  cannot be read became the present (`lost`); or the agent ended, because it could
  not write its cursor at its start.
* `UndoHolds`: see `RollbackVault` above.
* `ScanAgrees`: within the step budget; completeness for bodies, and both directions
  for logical signatures, only where no match depends on which fit is taken first.
* `StaticAgrees`: words that are near are found where neither kind has more than
  `MostPositions` places; beyond them only what is found is true.
* `HashesAgree`: when the index was not replaced between the question whether an
  MD5 is wanted and the lookup; sections count where the sample parses.
* `NothingUnreadIsClean`: of what the walk opens (`Inside`). What it never opens or
  passes over in silence is listed among the observations.

### Fairness

* `realtime_live`: weak fairness of the connection thread, of each worker and of
  the driver thread once it has its answer: threads that can run do run. The
  driver's timeout is not assumed to fire.
* `updates`: scheduled checks come round and threads run (weak); a step of a
  check that keeps being tried succeeds at last, and the newest manifest is
  served again and again (strong). The network is what this assumes; the retry
  is the code's.
* `quarantine`: the service loop lists every few seconds for ever; its list
  visits every record, and a write that is tried again and again succeeds at last
  (strong).
* `service`: both threads run, checks and downloads come round (weak); a
  self-test that is repeated with a connected driver passes in the end (strong).
  That the channel has room, that the driver answers or that it stays is not
  assumed.
* `scans`: every thread of a scan runs (weak); a client that keeps polling is
  answered in the end, or gives up (strong).
* `clamdb`: scheduler, service and restart run (weak). Requests may fail up to
  the bound.
* `ipc`: listeners, recorders, reload and agent run (weak); among the other
  clients someone who can take a step again and again takes one (strong), since a
  pipe instance that is free again and again is not free only while nobody waits.
  A client's own deadlines end its call; the server's end the one that says
  nothing.

## Findings

`realtime_engine`: a clean verdict of the old engine is cached under the new
definition generation, because the worker takes the engine before it loads the
generation, while the cache's comment says that a clean result stays valid only
until the databases change. Loading the generation first would close it.

Observations that came up in the modelling and have no run of their own.

The verdict cache:

* A key whose change time could not be read carries 0, and the scan it leads to
  still succeeds (`realtime.rs:542`, `detection.rs:316`). A same-size rewrite that
  the driver did not see can then be served the old verdict, which the field is
  there to prevent (`verdict_cache.rs:21`).

Definitions and databases:

* A failed read of the installed ClamAV definitions counts as having none
  (`downloader.rs:171`). The check then compares with nothing, and a lagging
  mirror's older container replaces a newer one, although an older offer is never
  to be installed over a newer copy (`downloader.rs:149`). A service whose read at
  the start fails runs without the definitions until there is a new generation.
* An Installed event whose load of the store fails is spent: the old engine stays
  until the next event, expiry or start (`service.rs:973`).
* The last known good pointer is merely the previous one: two signed bundles in a
  row that do not compile push the good one out of both pointers
  (`updater.rs:540`).
* A corrupt `current.json` stops every later check at `installed_sequence`, and
  nothing repairs it.
* A ClamAV generation whose index fails to load is not offered again until there
  is a newer one (`scheduler.rs:48`); a clock that goes back could name two
  generations alike.

Undo and quarantine:

* A path that cannot be looked at passes for empty (`quarantine.rs:369`, `668`): a
  listing while a folder denies access or a volume is away makes a record say
  Isolated of a file that is still there, and nothing looks again. The list then
  shows it as isolated (`ui.rs:1249`).
* `restore` forgets the program's claims before it puts files back
  (`rollback.rs:171`); another worker that still holds an operation of the program
  then saves the program's output as if it were the original.
* A write can pass before its document is saved: a second write within the second
  of the throttle, or any write whose copy takes longer than the 100 ms the filter
  waits. A purge drops the claim of a copy in the making. The undo also runs when
  the program could not be ended. After a purge reset a count and the document
  shrank, `process_bytes` can wrap, and nothing more is saved for that program.
* What an undo sets aside in the vault folder is never counted or purged.
* An erased quarantine record can be written back by a reader or by the isolation
  itself (`quarantine.rs:670`, `385`); a reader that read a record before its
  second write puts it back without the list of removed startup entries.
* Bytes written to a source between its copy and its deletion are deleted unsaved;
  a restore that finds its path taken leaves the decrypted temporary behind.

Service, scans and control channel:

* A dropped Connected event is never made good: the driver stays disarmed until
  the next connection.
* A worker overwrites Cancelling with Scanning; the scan still ends as Cancelled.
* A settings reload that fails has already consumed the stamp; a hand edit between
  SaveSettings' read-back and its install is overwritten in memory until the next
  change.
* An alert that is appended after a later-stamped one was fetched is never shown;
  rotation, clearing and the size of a poll drop unseen alerts.
* A cursor that cannot be read becomes the present (`notification_agent.rs:31`), a
  failed save of it is ignored (line 69), and so is every failed append to the
  history: the alerts concerned are never shown. Alerts that arrive while
  notifications are off are not shown later either.

Analysis:

* `verify` takes the first fit and does not backtrack for an offset or a word
  boundary, so it can miss a match; its step budget is described for each
  candidate and counts over the whole scan (`pattern.rs:28`).
* A container takes the flags that allow quarantine from its strongest finding
  only; findings past the limit are dropped in order of entries, without marking
  the walk incomplete.
* `near` looks at the first 200 000 places of each kind, needle by needle
  (`engine.rs:1421`): in a script with more of them, a pair beyond those is not found.
* An entry whose rules timed out and that is clean otherwise leaves its container
  clean and complete. So do encrypted, malformed or rejected entries, and what is
  not opened: a container inside a gzip or a compound file, a gzip inside a zip.
* Macros are left unread, without a mark, in a stream not named for them, when they
  begin at none of the first 16 places that look like a beginning, or grow past
  4 MiB, or have no `Attribute VB_` (`archive.rs:179`).
* A compound file inside an archive counts its entries anew, so twice the limit is
  possible; a decompressed macro is in no budget.
* A malicious alert-only rule overrides an administrator's AMSI block.
* An index replaced between `wants_file_md5` and `evaluate` can convict a file
  that is allowlisted by MD5.
* UTF-8 text longer than the sample that is cut inside a character is taken for
  binary.

## Proofs

TLAPS proves the theorems of the `_proofs` modules for every value of the
constants: any number of files, requests, workers, programs, bundles or
connections, any contents and databases, any capacity, and any bound on crashes,
failures and steps. Every safety property of the passing runs is proved.

In each module one conjunction is shown to hold initially and to be kept by every
action, with one lemma for each action or one for each conjunct; the properties
follow from it.

**`RealtimeVerdict_proofs`.** `RaceSafety` rests on `RaceInv`: a request that was
raced and still waits remembers a generation smaller than the stream's, and the
stream context is not rebuilt while anyone waits. `HitsAreNotOutdated` and
`EntriesReflectIndex` rest on `CacheInv`, which follows a verdict from the worker's
locals into the cache: what a worker holds at each place (`WorkerSound`: a key no
newer than the content, a generation no later than the published one, a hit no
older than the key) and what an entry may be (`SoundEntries`: of the current
generation only with the index in force, except between the two steps of a
replacement). `CountersTellAll` counts
the requests that ended in each way (`CountInv`).

**`CacheAndUpdates_proofs`, the verdict cache.** `IInv` is `CacheTypeOK`, the
bijection between the two maps (`Consistent`), capacity and `NoPartialClean`. `Consistent` alone is not
inductive: an insert must know that the next tick is unused. Capacity needs it
too, since an eviction removes an entry only if the popped tick leads to one.
`LeastRecentGoesFirst` is an action property over the same invariant.
`ImplementsList` is the refinement of `LruCache`. The mapping reads the ticks in
use in ascending order; `OrderInv` says that such an order exists, and `OneOrder`
that there is only one, so that removing a place and appending the next tick yield
the order of the changed set (`OrderRemove`, `OrderAppend`). `PlaceFacts` finds a
key of the map at its tick's place in the list, `HeadIsOldest` identifies
pop_first with the head, `AsManyTicks` the sizes. Then each action is one step of
the list (`MissIsGet` to `AgeIsAge`).

**`CacheAndUpdates_proofs`, the update store.** Pointers name committed versions, versions are
unique for each directory, the offered bundle is newer than everything activated
before it is pointed to; from these follow crash safety, durability, rollback
protection and the truth of the health record.

**`ClamDb_proofs`.** `ClamInv`: the name a check builds under is new (`DiskInv`)
and its own until the pointer names it, the generation is in place before the
pointer is written (`PhaseInv`), and what the check remembers of the installed
versions stays right while it runs, if it could read them (`BasisInv`). `PointerComplete` needs the second
for the prune, `NeverOlder` the third for the reused containers.

**`VaultAndQuarantine_proofs`, the vault.** Three arguments over the shape of the state
(`ShapeInv`). `TotalIsAccounted`: the total is the sum over programs of what is
listed plus the sum over workers of what is in the making (`TotalInv`), an equality
that each of preserve, restore and purge moves on both sides. `QuotasAreKept`:
every copy listed or in the making has its claim, up to one for each worker
(`ClaimInv`), and room for one growth is left for every copy in the making
(`RoomInv`). `UndoRestores`: for a program and document with a clear record, the
program's work shows nowhere, in a document, a copy or a pending undo, unless the
document's copy is listed (`TraceInv`); a copy in the making is the only one and
holds the claim (`MakingInv`); nobody disturbs a first undo (`AloneInv`). Sums,
and what `retain` keeps, are shown by induction over finite sets: the claim is
given as a set of sets, which has a minimal counterexample by `WFMin`.

**`VaultAndQuarantine_proofs`, quarantine.** `QuarantineInv` says who may have a record
(`FileNamed`), that from the first record on payload and record exist until erased
(`PayloadKept`), and that every
record that is or is about to be written as Isolated is right, or was misled by a
failed look at the path (`GoneWhenSaid`, over readers' memory too). The three theorems follow.

**`ScanManager_proofs`.** `ScanInv`: who runs when (`StageInv`), every file is in
exactly one place, ahead of the walk, offered, queued or taken (`PlaceInv`), none
is lost (`Lossless`), the counters are the cardinalities of the sets of files
(`CountInv`), and a file taken late leads to the flag (`LateInv`).
`CompletedMeansComplete` follows from all but the last: a scan ends as Completed
only if its walk was not cut short, and by then no worker holds a file. `FinishedIsFinal` is the action property that a finished scan is left alone.

**`ServiceLifecycle_proofs`.** `HandleInv`: every handle but the live one has been
closed exactly once, whichever side exchanged the port for zero first.
`PartsInv`: what runs at which place of the service thread. `QuietWhenStopped`
needs both; `ArmedOnlyWhenProven` is the third conjunct of `LifeInv`.

**`Detection_proofs`.** Five invariants of an analysis, for every set of contents,
every nesting, every database and every budget. `ShapeHolds` is their common
ground: `TypeInv` gives every variable its type, `StageInv` says what each stage
may rely on (which leaf is being judged, and for which part of the file), and
`StackInv` what a stack of open containers can look like: archives inside archives,
a compound file only at the end, and then with an inspection of its own.

* `StaticAlwaysAgrees` looks at the operators: the points of a program's sections
  are compared section by section between the whole file and its sample, and `near`,
  which looks at the neighbour on either side of each place only, is shown to miss
  no pair among the places it is given, which are all of them where there are no more
  than `MostPositions`.
* `BudgetsAlwaysHold` rests on `BudgetInv`, in particular `Bounded`: the limit a
  compound file was opened with is what its archive had left, and an entry number
  bounds what was counted.
* `HashesAlwaysAgree` rests on `HashInv`: the sizes noted at loading are those of
  the index that is looked up, allowlist included, so an MD5 that was not computed
  would not have matched.
* `StrongestEntryAlwaysDecides` rests on `FindingInv`: no finding says more
  than something analysed bears out (`Sound`), the findings kept are at most those
  made, and, while they fit, a malicious one is among them once anything was
  malicious. `Strongest` is a choice from a finite set of ranks.
* `NothingUnreadIsEverClean` rests on `OwedInv`: as long as no inspection is marked
  as cut short, everything a complete walk looks at has been seen or is still owed
  by some frame on the stack (`Ledger`), and no compound file has more entries than
  are looked at; `Placed` ties the leaf in hand to the entry it was read from, so that
  the macros owed are those of a stream named for them. `Inside` is a recursion over depth; it is unfolded once for each
  container that is opened.
* `ScanAlwaysAgrees` rests on `SearchInv` and on what `Engines_proofs` says of the
  index; see there.

**`Engines_proofs`.** What the operators of the engines compute, and the search of the
index hit by hit. For `StaticEngine`: points, and what is lost by reading a program or a PDF
in part. For the index, from the bottom up:

* A signature that parses is well formed (`PatternsTyped`): its anchor lies in one of
  its parts and has bytes, so `AnchorFound` can say that wherever the signature
  matches its anchor occurs, and a search by anchors starts everywhere it has to.
* `VerifyAgrees`: `match_left` and `match_right`, which take gaps in ascending order
  and give up at the step limit, return a place only if some choice of gaps reaches
  it. Where the first fit is as good as any and the steps suffice they find one if
  there is one; this is where `FirstFitSuffices` is needed.
* `NothingHolds`: an expression that needs bytes (`required_bytes`) does not hold when
  all its counts are zero, by induction along the nodes, which only refer to earlier
  ones. So the search may look only at logical signatures that had a hit.
* `SearchInv` follows a search. At any time, also after a panic, every counter
  that is not noted as touched is zero (`ScratchOK`), which is all that `prepare`
  needs. While one runs (`Searching`) the hits left are places of anchors, and, as
  long as the steps last, the counter of a piece is the number of its matches among
  the hits done, and no body signature has matched yet (`SigDone`; both for
  signatures whose first fit is as good as any). `HitKeeps` is the step from hit to
  hit, `JudgeAgrees` the judgement of the logical signatures at the end,
  `ReplaceKeeps` another index between two searches.

The recursive functions of the models (`Within`, `near`, `match_left`, `holds`,
`required_bytes`, folds) are shown to exist first, by well-founded induction over a
set of bad arguments; their recursion equations are then facts that the steps use.

Assumptions are the named ASSUMEs of the modules: bounds are naturals,
distinguished values are distinct, and where something is counted the sets are
finite (requests, the files of a scan, programs, documents and workers). Bounds
are arbitrary, so the results hold for every finite history.

What the proofs found: three statements that the runs had passed were false in
larger instances, and TLC then showed a counterexample there. `UndoHolds` claimed a
document for the first undo even after another program's undo had put it back, and
`QuotasHold` measured growth only from original to rewritten, which fails when
originals are the larger (2 programs, 3 workers, an original of 2 bytes rewritten
to 1). Both now say what the code does, as described under `RollbackVault`.
`ScanAgrees` equated what is named and what holds for every logical signature, also
where a piece is matched through a gap up to a word boundary: `verify` takes the
first fit there and may count a piece less often than it occurs, so that a logical
signature which holds is not named, or one that bounds a count from above is named
and does not hold. The statement now excepts such logical signatures, and
`MCDetection` has one (`Loose`) with a content on which the earlier statement fails.

Only model-checked:

* liveness (`EveryRequestDecided`, `NewestAdopted`, `SettlesIsolated`,
  `StopCompletes`, `EndsUpReady`, `ScanEnds`, `IndexCatchesUp` and the four
  properties of `ipc`): fairness is beyond the prover.

`TypeOK` is a theorem in `VerdictCache`, `ClamDb` and `ScanManager`; elsewhere the
invariants state the types they need.

`CachedUnderCurrentEngine` is not proved because it is false; see the findings.

## Not modelled

Parsing of file formats (programs, zip, OLE, PDF, CVD), the matching of YARA
rules, cryptography, names and paths, the entropy of writes and the driver's name
filters, health counters other than the two about enforcement, velocity and
entropy in the ransomware monitor, the file of learned shards, the registry, task
and service traversal of remediation, Windows APIs, drawing, installers. The user
interface changes state only through the control server; the clients of
`IpcServer` and `ScanManager` stand for it. A machine that loses power while a
write is in the disk's cache is not modelled: the code syncs before it renames,
and the models take a renamed file as durable. Panics are modelled where the code
contains or reports them (analysis, search, supervisor, enumerator) and nowhere
else.

## Plan

1. Abstract specifications for the update store (one atomic activation) and for
   the quarantine store (a file is in one place), and their refinement.
2. The ransomware monitor in full, with an abstract specification of its window,
   and the store of learned shards.
