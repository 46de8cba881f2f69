# Verification of memory-write-ahead-vfs

TLA+ models of the shared-memory SQLite VFS in `src/`, checked with TLC and, for the
invariants that matter most, proved with TLAPS. Paths below are relative to `src/src/`;
`V` stands for `MemoryWriteAheadVFS.ts`, `R` for `memoryWriteAheadSharedRuntime.ts`, `W` for
`vendor/WriteAhead.js`.

## The system

| Component | State it keeps | Operations | Where | Modules |
|---|---|---|---|---|
| Write-ahead log | per connection: view (`#txId`, `#activeHeader`, `#activeOffset`, `#mapIdToTx`, `#waOverlay`), pending messages, transaction in progress, isolation state; shared: two WAL files, the database file | open, isolate, upgrade, rejoin, read, write, commit, rollback, swap files, backstop, checkpoint, close | W | `WriteAhead`, `SnapshotIsolation` |
| txId locks and messages | a Web Lock whose name is the view `<min:max>`; a BroadcastChannel | publish view, poll, wait; `tx`, `ckpt` | W 631-775 | `WriteAhead` |
| File lock | `lock`, `lockHeartbeatMs`, `lockOwner` in shared memory | acquire, refresh, release, recover | V 120-312 | `FileLock`, `RevocableLock` |
| VFS connection | per file: `opened`, `retryResult`, `lockState`, `lockingMode`, lazy read and write locks, handles | `jOpen`, `jClose`, `jLock`, `jUnlock`, pragmas, the retry operations | V 439-1341 | `VfsConnection` |
| Owner leases | 32 slots (owner, handle count, heartbeat), the open handle count | claim, retain, release, heartbeat, recover, reset | R 324-563, 984-1151 | `OwnerLease` |
| Attached-database lock | `transactionLock`, its runtime owner, `abandonedTransaction` | try, release, quarantine | V 1197-1266, R 406-426 | `AttachedLock`, `OwnerLease` |
| Segmented files, counters | size, active segments, the segments, saturating cells | read (no lock), write, truncate, grow, clear, count | R 290-322, 597-850, 1157-1362 | `SharedFile` |
| Local temporary files | a buffer and a size | read, write, truncate | V 92-102, 332-376 | `LocalFile` |
| Registry, options, logger | plain data of one context | | R, `logger.ts` | none |

Every worker has its own SQLite, VFS and `WriteAhead` instance. Workers share the segmented
files and the cells beside them, all mutations of a file going through its file lock and
reads through none. The log coordinates by Web Locks (`#write`, `#ckpt`, the txId locks) and
by broadcast messages, which arrive between two tasks of a worker's event loop. A worker may
be terminated at any point: its locks in the browser vanish, the bytes stay as they are, and
the file lock and the leases have to be recovered by age. An attached database has no log; its
rollback journal is in the memory of the worker, so the lock of a worker that died in a
transaction is never given away: the file is quarantined until the runtime is reset.

What is hard here: workers run in parallel on the same bytes with several Atomics calls for
one decision; a view is frozen while other connections commit, swap files, checkpoint and
truncate; a checkpoint polls lock names once and relies on the answer later; messages are late
relative to the file they describe, or never sent; opening is covered by no lock; a VFS call
cannot wait, so that what it asked for is granted between two calls. The hazards, each at its
line, are in `PROJECT.json`.

What makes each part correct:

- log: one sequence of commits, a frozen prefix of it per transaction, one writer on top of
  the whole sequence; a page read is the page of the snapshot; a commit reaches everybody; a
  checkpoint takes nothing away that is still read, and ends;
- file lock: exclusion, unless the holder made no progress for the stale period; an abandoned
  lock is recovered;
- connection: isolation stands on a lock that is really held, a writer has seen every commit
  (both unless a full checkpoint gave the lock away, see `VfsConnection`), what a statement that
  gave up had asked for is not kept, who waits is served;
- leases: a live worker that beats in time keeps its slot, the open handle count covers the
  handles of the live, a dead one's slot comes back;
- attached-database lock: one transaction at a time, quarantine when an owner died inside and
  only then, an answer to those who wait;
- segmented files: operations that nothing disturbs are those of a plain file; whatever happens,
  the size promises no bytes that no segment has, and readers without a lock find written bytes.

## Modules

| Module | Role |
|---|---|
| `RevocableLock` | abstract specification of the file lock: a holder loses it only by a revocation |
| `FileLock` | the file lock, one step per Atomics call and per reading of the clock; `Abstract` instantiates `RevocableLock` |
| `FileLock_proofs` | its invariant, exclusion and refinement, proved |
| `SnapshotIsolation` | abstract specification of the log: history, prefix seen, mode per connection |
| `WriteAhead` | the log in detail; `Promise` instantiates `SnapshotIsolation` under the refinement mapping `seen <- txId`, `mode <- Mode(c)` |
| `WriteAhead_lemmas`, `WriteAhead_proofs` | its types and what a checkpoint may rely on, proved |
| `WriteAhead_snapshot` | without checkpoints: reads, no fault and the refinement of `SnapshotIsolation`, proved |
| `AttachedLock` | the attached-database lock, the quarantine and the wipe of its cells |
| `OwnerLease` | extends `AttachedLock` with the leases that decide who is quarantined, and when; the composition |
| `OwnerLease_proofs` | exclusion of the attached lock, alone and composed; the types and who is quarantined, proved |
| `OwnerLease_slots` | who keeps its slot, and that the open handle count covers the living, proved |
| `VfsConnection` | `jOpen` ... `jUnlock` and their retry operations, with the lock manager of the browser |
| `VfsConnection_proofs` | its invariant and all its safety properties, proved |
| `LocalFile` | a file as functions: the reference for `SharedFile` |
| `SharedFile` | segments, cells, growth, unlocked reads, `jDelete`, counters |
| `SharedFile_proofs` | its invariants and all its properties, proved |
| `MCFileLock`, `MCWriteAhead` | instances for TLC; the other modules are checked as they are |

### FileLock

`word`, `heartbeat` and `lockOwner` are the three shared cells. `pc[o]` is the Atomics call
the owner `o` makes next; `seen`, `seenHb` and `stamp` are the local variables
`lockState`/`recoveryClaim`, `heartbeatMs` and the clock value about to be stored.
`Acquire(o)` has the steps of `acquireMemoryWriteAheadFileLock` and `waitForUnlock`,
`Recover(o)` those of `recoverAbandonedMemoryWriteAheadFileLock` and
`finishRecoveredFileLock`, `Hold(o)` those of the refresh and the release. `Tick` is the
clock, modulo `ClockMod`, with the value 0 read as 1. `evicted` is a history variable: the
owners whose lock was recovered while they were inside. `lag` counts the time since a holder
or acquirer stored its last heartbeat; with `Punctual` it stays within `MaxPause`, which is how
"makes progress" is said. `Crash` stops a worker before any of its steps.

### WriteAhead

A connection is one `WriteAhead` instance. `pc[c]` names the task that runs in its worker and
is `"ready"` between tasks; messages (`Receive`), the grant of a txId lock (`GrantTxIdLock`),
the timer (`Backstop`), calls of SQLite and the continuations of a checkpoint start only then.
Tasks that scan the log or copy pages are cut into steps, since other workers write meanwhile.

| Definitions | Code |
|---|---|
| `OpenLock`, `OpenLoad`, `OpenEmpty`, `OpenCreate` | the asynchronous part of the constructor |
| `SkipTx`, `ReadTx`, `FollowEnd`, `AtEnd`, `CaughtUp` | `#advanceTxId`, `#readAllTx`, `#readTx`, `#skipTx`, `#followFileChange` |
| `Receive`, `Backstop`, `GrantTxIdLock` | `#handleMessage`, `#backstop`, `#updateTxIdLock` |
| `BeginRead`, `BeginWrite`, `Upgrade`, `Rejoin` | `isolateForRead`, `isolateForWrite`, `tryUpgradeReadIsolationToWrite`, `rejoin` as `jLock` and `jUnlock` call them |
| `SwapEnd`, `SwapHeader`, `WritePage`, `Commit`, `Publish`, `Rollback` | `write`, `#swapActiveFile`, `commit`, `rollback` |
| `CkptPassive` ... `CkptTruncate` | `checkpoint` and `#pendingCheckpoint` |
| `Close`, `Crash` | `jClose`/`close`, termination of the worker |
| `ReadPage` | `jRead`, `read`, `#fetchPage` |

A task that throws ends in `pc = "fault"`: a short WAL read, `'invalid WAL file'`, a pending
transaction whose predecessor is not in the log.

Abstractions, and why they keep what the properties are about:

- a file is its header, a sequence of frames and a size in these units. Truncation lowers the
  size only, as `truncateMemoryWriteAheadFile` does, and a write over an old tail hides the
  rest of it, since the frames behind no longer line up with its checksums. A frame is there
  completely or not at all: `#readFrame` checks a checksum, and a frame of the wrong header
  does not match the salts;
- a page value is the number of the write transaction that wrote it, so that a stale, lost or
  mixed read is visible; a page is written once per transaction;
- salt1 is a natural number (2^32 file swaps are not reached), salt2, random in the code, is
  the connection that wrote the header;
- the reading of the two headers on opening is one step;
- the lock `#write` is granted to nobody while it is held; a lock kept lazily counts as
  released, because a request of another connection makes the keeper give it up
  (`VfsConnection` has the lazy locks themselves);
- `GrantTxIdLock` goes to the newest view in one step; intermediate names, whose bounds are
  smaller, would be held at most as long as the old one;
- a refused upgrade leaves the state as it was, so it is not an action;
- the size of the database is abstracted to whether the connection knows one (`sized`).

### AttachedLock and OwnerLease

A process is one local lease of the runtime, and its owner id, which is drawn at random and
never used again. `at[p]` is the next call of `#tryLockAttachedDatabase`,
`#retryLockAttachedDatabase` or `#releaseAttachedDatabaseLock`; `task[r]` that of a quarantine
or a wipe, which can run between two calls of SQLite in the same worker. The word is `-p` while
`p` claims or gives back the lock and `p` in between, with the owner cell stored under the
claim. Alone, `AttachedLock` lets anybody quarantine anybody and wipe the cells at any time;
what is proved of it holds under any use.

`OwnerLease` extends it. `slotId`, `slotHandles` and `slotAge` are the cells of a lease slot,
`open` is `openHandleCount`; `lease`, `count` and `timer` are the `LocalRuntimeLease`. `pc[p]` is
the next Atomics call, `why[p]` the function that makes it: `clearOwnerLeaseSlot`, for example,
is three steps that a release, three recoveries and a reset share.

| Definitions | Code |
|---|---|
| `Open`, `ClaimSlot` | `ensureLocalRuntimeLease`, `claimOwnerLeaseSlot` |
| `Retain`, `Release`, `Timer`, `Handle` | `retainMemoryWriteAheadRuntimeHandle`, `releaseMemoryWriteAheadRuntimeHandle`, `updateOwnerLeaseHeartbeat` |
| `Clear` | `clearOwnerLeaseSlot` |
| `Recover`, `RecoverTerminated` | `recoverAbandonedRuntimeOwnerLeases`, `recoverTerminatedMemoryWriteAheadRuntimeOwner` |
| `Reset`, `ResetStep`, `Wipe` | `resetMemoryWriteAheadRuntimeState` |
| `Ask`, `Lock`, `Quarantine` | `jLock`, `jUnlock` on an attached file; `quarantineTransactionLocksForRuntimeOwner` |

Abstractions: a heartbeat is its age, which `Tick` raises up to the first stale value, and
`same` holds the processes for which the heartbeat they loaded still stands: all the code asks
is whether it is stale and whether it is the same as before. The clock is read in the step that
stores it. There is one attached file and one connection to it per owner. `Punctual` restrains
time: no live owner's heartbeat becomes stale, nor the one it leaves in a slot it is claiming
or clearing. `overrun` tells that a reset, which checks the count first and clears afterwards,
ran while others were at work: they had a lease or a handle, or a call to finish; what follows
then is not explored (`NoOverrun`).

### VfsConnection

A connection is one VFS with the `MemoryWriteAheadOpenFile` of the primary database; the
variables have the names of its fields. `lock`, `lazy` and `queue` are the locks of the browser
as `LazyLock` uses them: a queue per name, one mode per connection, a lock kept lazily dropped
when another connection waits for it. `op[c]` is the retry operation that has been pushed to
`retryOps` or `pendingOps` and waits; its continuation (`ReadLockGranted` ... `CheckpointEnds`,
`LockTimesOut`) runs between two calls of SQLite. `asking` and `pc` are SQLite: it answers
SQLITE_BUSY with `jUnlock(NONE)` if the statement is not in a transaction, waits until the
operations have settled and calls again; the calls of one connection follow each other. `JOpen`,
`JLockShared`, `JLockReserved` and `JUnlock` are the handlers, each with all its branches; the
log is only whether its view is behind (`stale`): that its snapshots are right is the subject
of `WriteAhead`.

The environment assumed: SQLite retries as above, does not close a locked file, and keeps its
lock between transactions in exclusive locking mode.

A full checkpoint may be asked for between any two statements of a connection and inside a
transaction. `jFileControl` refuses it when a page has been written and not committed
(`isTransactionPending`, V 1034-1039; `End` stands for the writes and the commit), and accepts
it after BEGIN IMMEDIATE and in exclusive locking mode, where the connection is isolated for
writing already. There `#pendingCheckpoint` finds the write lock held and keeps it,
`isolateForWrite` throws (W 167), and the `finally` releases the lock (V 1147-1149): the
connection stays isolated for writing, and its lock is free for others. `surrendered` is a
history variable: the connections to which this has happened, until nobody is isolated for
writing any more. `IsolationHoldsLock`, `WriterSeesAll` and `ExclusiveIsAlone` except what these
lead to and nothing else; `OneWriter`, which no run checks, says that there is one writer at a
time and is violated (see the table of other behaviours). The copying of pages is two steps.

### SharedFile and LocalFile

The unit is a block. `meta` has the Int32 cells of a file, `alloc` the length of each growable
segment, `block` the data of all segments. A worker's operation takes the lock, which behaves
as `RevocableLock` allows (`Revoke` takes it away from a holder that does not notice), ensures
the capacity (`EnsureCapacity`, `GrowSegment`, `ExtendSegment`, `Activate`), copies block by block,
and stores the size, the peak and the counter. Reads load the size and copy, with no lock. `JDelete` stores
the cells one by one, the lock first, as `clearMemoryWriteAheadFile` does. `serial` is the
`LocalFile` that results from the same operations one after the other, and `disturbed` tells
that a lock was taken away or a delete met a writer. Operations start at or below the size, as
those of the log do, so no gap shows what a truncation left behind: in the code as in the
model, truncation and `jDelete` clear no bytes, and a file that is extended past its end shows
the old ones again. The peak of the capacity and the operation counters go through the same two
functions as those here and are left out.

## Runs

Bounds, named in the modules: `MaxAttempt` write transactions, `MaxQueue` messages waiting
when a full checkpoint begins, `OpenAtStart`, the connections that are open at first, `MaxOps`
operations on a file, `MaxCounter` for 2^31 - 1, `Clock0` and `ClockEnd`, between which the
clock of a run moves, and the sets of processes that may do this or that. A full checkpoint in
`WriteAhead` (`CkptFull`) also begins only when the connection's previous checkpoint is done;
the code has neither this guard nor that of `MaxQueue`. The bounds are enough because:

- two write transactions and a limit of one page per file (`SwapLimit = 1`) are the smallest
  instance in which a swap, a commit on the new file and a view left on the old one meet; three
  let the log come back to the first file over its own old frames. One page suffices: each
  commit writes it, so that the latest version is the only right one;
- three owners are the fewest for a contender to act between another's claim and what follows;
- with one lease slot and three owners every claim contends with a clear, a recovery or a
  claim; two slots are needed for a parent, an owner and a waiter to be there together;
- two segments of two blocks let an operation grow one, start the next, and fail at the end.

| Run | Question |
|---|---|
| `FileLockSafety` | types, `HolderHasWord`, `MutualExclusion`, the refinement of `RevocableLock` and `AbandonedIsRecovered` with three owners, one on the main thread, two mortal, a stale period of 0 (every lock may be recovered at the next tick), a clock that crosses the wrap |
| `WriteAheadCrash` | refinement, reads and no fault with two writers, one of them mortal, file swaps and a late opener |
| `WriteAheadCheckpoint` | refinement, reads, polling and truncation: passive, automatic and full checkpoints with file swaps |
| `WriteAheadFull` | refinement and reads with two writers, full checkpoints, empty files at first and a late opener |
| `WriteAheadEnds` | a checkpoint ends; a commit reaches the other connection although its message may be lost |
| `LeaseTransaction` | one transaction on the attached file, torn ones quarantined and no others, waiters answered: a parent that recovers and resets, a mortal owner, a waiter without time-out, a stale period of 0 |
| `LeaseRecovery` | one slot, three owners, one mortal: who keeps, covers and gets back |
| `VfsConnection` | two connections: a second open of the same VFS, locking modes, hints, lazy locks, one with time-outs and one without, full checkpoints of the connection that switches to exclusive mode |
| `SharedFile` | two writers, one that loses its lock, one that deletes, a reader |

With the stale period of 0 in `LeaseTransaction` a heartbeat is stale at the next tick, and as
heartbeats are on time no tick comes while an owner with a lease lives. The owner that dies in
a transaction can still be found in each way: by its parent at once, and by the age of its
heartbeat if it ticked before the other owner opened, also while that one already waits for the
lock. Ticks beside living owners are in `LeaseRecovery`, with a stale period of 1; of the
invariants of `LeaseTransaction` they are covered by the proofs, which are for any period.

All runs have `CHECK_DEADLOCK FALSE`: when the bounded attempts are used up, or the clock has
stopped, nobody has to do anything. `ClockEnd` stops the clock of the file lock before
it has gone round once: after a whole turn an age starts again from 0, in the code after 24
days (2^31 - 1 ms) without a heartbeat. `OpensFirst` says that the first connection opens the empty
files and that writers are open before transactions begin. The runs with both file swaps and
checkpoints have one writer that is open from the start, and the runs with several writers or
a late opener have swaps or checkpoints but not both. This is not for the size of the state
space: what follows shows what happens otherwise.

Runs that end in a violation, each of what a comment in the code or the README of the
repository says:

| Run | What TLC finds |
|---|---|
| `FileLockPunctual` | three owners, nobody terminated, everyone refreshes within the stale period: a contender that meets the claim of another finishes it without the recheck (V 201), and a holder that makes progress loses its lock (`README.md:131`: one that makes none for longer than `fileLockStaleMs` may lose it) |
| `WriteAheadFork` | a reader that still stands on the file a checkpoint truncated upgrades to write while the message of a newer commit is on its way: two transactions with the same number (comments at W 203 and W 164) |
| `LeaseStranded` | a claimer that has checked and stamped an empty slot wins it between the first and the third store of a clear, and is terminated: the clear takes away its heartbeat, and the slot is never released (comments at R 349 and R 507) |

Other behaviours TLC shows with the same modules, if a configuration is changed as given here:

| Change | Violated | Behaviour |
|---|---|---|
| `FileLockPunctual`, `Owner <- TwoOwners`, `Worker = {1, 2}`, `Clock0 = 7`, `Mortal = {1}` | `ProgressingHolderKeepsLock` | with one contender, across the wrap: the reserved 0 makes an age one tick too large, and the age is that of a late store of an acquirer, which replaced the heartbeat of the holder by an older one |
| `FileLockSafety` | `ContendersLeaveHeartbeat` | an acquirer that is overtaken between the load and the store refreshes the heartbeat of another owner (comment at V 138) |
| `WriteAheadFork`, `OpenAtStart = {a}`, `Reader = {}`, `Writer = {a}`, `AutoCheckpointer = {}`, `PassiveCheckpointer = {a}`; below: *late* | `SizeIsKnown` | a connection that opens when the active file has no transaction reports a database size of 0: `??` at V 769 never applies to 0 |
| *late*, `OpenAtStart = {}`, `Writer = {a, b}` | `ImplementsPromise` | two connections that open empty files at once each write a header |
| *late*, `Reader = {b}` | `ReadsSeeSnapshot` | a connection that opens while a checkpoint truncates keeps an old view over a newer database file |
| *late*, `FairSpec`, `SwapLimit = 9`, `FullCheckpointer = {a}`, `PassiveCheckpointer = {}`, `MaxQueue = 0`, `MaxAttempt = 1` | `CheckpointEnds` | a connection that opens while a full checkpoint copies misses the message; the checkpoint waits forever with the write lock |
| `WriteAheadCheckpoint`, `Mortal = {a}` | `ReadsSeeSnapshot` | a full checkpointer is terminated when it has posted its message; a connection that has not handled it starts a passive checkpoint of an older transaction and writes the older page over the newer one in the database file; then it handles the message, drops the transactions from its view and reads the older page |
| `WriteAheadFork`, `AutoCheckpointer = {}` | `RefusedOnlyWhenStale` | a deferred write with the latest snapshot is refused as stale, because of an end frame of a swap that was rolled back |
| `WriteAheadEnds`, `AutoCheckpointer = {a}`, `PassiveCheckpointer = {}`, `FullCheckpointer = {}` | `CommitReachesAll` | the connection of `WriteAheadFork`, on the truncated file, never hears of a commit whose message was lost |
| `LeaseRecovery`, no constraint, `NoOverrun` as an invariant | `NoOverrun` | a reset has seen no open handle and clears while a worker opens (R 1102) |
| `LeaseRecovery`, `Punctual = FALSE`, `Resetter = {}` | `OpenCoversHandles` | a releasing owner that pauses clears its slot late, while a recoverer has already rechecked it; the next owner claims the slot and the recoverer takes its handles off the count |
| `LeaseRecovery`, `SPECIFICATION Spec`, `Proc = {1, 2, 3, 4}`, `Mortal = {1, 2}`, `Slots = 2`, `Keeper = {}`, `Opener = {1, 2, 4}`, `Parent = {3, 4}`, `Resetter = {}` | `OpenCoversHandles` | the parent of a dead owner has stored 0 over the owner id of its slot and not yet cleared the handle count; another owner wins the slot and is terminated before it resets that count; its parent takes the handles of the first off the count a second time |
| `VfsConnection`, `SPECIFICATION Spec`, only `OneWriter` | `OneWriter` | a connection in exclusive mode runs a full checkpoint, which releases its write lock (V 1136, V 1147) while it stays isolated for writing; the other one, which has announced a write, takes the lock and is isolated for writing beside it |

Further behaviours of the leases and the attached lock that are visible in the models and that
their properties leave room for: a recoverer that is terminated after it has negated an owner id
leaves the slot negative for ever; the undo of a recovery is a plain store; a timer that fires
while the id is negated clears itself for good, so that the owner is recovered later although
the undo gave it back its slot; a worker that dies between the two counts of a retain or a
release leaves the open handle count too high, and reset is refused until the page is reloaded;
one that dies between the claim of the attached lock and the store of its owner, or after its
owner was cleared in a release, leaves a lock that is neither released nor quarantined.

### Fairness

`FileLock`: time passes; a worker that is not terminated executes its next instruction (weak
fairness of `Acquire`, `Recover` and `Hold`); a critical section ends (strong fairness of
`Release`, which `#withFileLock` calls in its `finally`). Nobody has to start.

`WriteAhead`: a task that runs goes on (weak fairness of `Running` and of an opening that has
begun); the event loop comes round to messages and granted locks, a transaction that SQLite has
begun ends, a checkpoint continues when it can (strong fairness, since other tasks of the same
worker disable these again and again); the backstop timer fires again and again, as it re-arms
itself and `rejoin` calls it. Nobody has to begin a transaction or a checkpoint.

`OwnerLease`: a synchronous function that has begun goes on (weak fairness of `Work`); a wait
for the attached lock polls every millisecond and a transaction ends (strong fairness, since the
timers of the same worker come in between). No timer has to fire and nobody has to recover: a
waiter is answered only where somebody has recovered the dead owner.

`VfsConnection`: SQLite calls again, and the first request of a queue is answered when it can
be (weak fairness: nothing takes these away for ever); a transaction ends, and a lazy lock that
others ask for is dropped (strong fairness: the holder may take it up again and again before
the message of the other arrives, but not always). Time-outs need not occur.

## Proofs

`FileLock_proofs` assumes only that owner ids are positive, that the modulus is above 1, that
the clock starts within it and that `StaleMs` is a natural number. `HolderHasWord` is not
inductive: the step that claims a lock negates the word it remembers, and the steps that undo
or finish compare with it, so the invariant needs `SeenByRecovery` (what is claimed is a
positive word, what is undone or finished a claim) and the types, which keep owners and claims
apart. `LockInv` is their conjunction; each of `Acquire`, `Recover`, `Hold`, `Crash` and `Tick`
keeps it. `Exclusion` follows: two holders cannot both have the word. `LockRefines` maps each
step to one of `RevocableLock`, with the absolute value of the word as holder: `CasWins` enters,
`Release` leaves, `Crash` dies, `Finish` revokes, a claim and its undo stutter because the
holder they stand for is the same. It needs the invariant for the last of these, and for the
fact that a finished claim evicts just the owner that is inside.

`OwnerLease_proofs` proves `OneTransaction` for any processes, slots
and stale periods. The inductive invariant, `LockFacts`, says that a process in its claim,
transaction or release finds its own id in the word, unless a reset wiped it (`wiped`, whose
members had the lock). Since it is proved of `AttachedLock` under any quarantine, wipe or
death, the composition needs only that every step of `OwnerLease` is a step of the lock or
leaves its word, calls and history alone (`HandlesAreAside`, `RecoveriesAreAside`).

`OwnerLease_proofs` then proves `TypeOK`, `TornIsQuarantined` and `QuarantineIsDeserved` for
any owners, slots and stale period, punctual or not. A quarantine reads the owner cell, the
word and writes the flag in three steps, each of which could be overtaken. `LeaseInv` says why
none is: from the moment a recovery goes through, its owner is dead, or noted as evicted
(`RecoveredIsLost`), so that nothing of it moves any more; the owner cell names whoever is
between its two stores (`OwnerIsNamed`); so what a quarantine has found stays so until it flags
the file (`FoundIsNamed`, `QuarantinedIsFlagged`), and the flag stays until the cells are wiped
(`BuriedIsFlagged`). A wipe would break each of these unless everybody else who is alive has
neither a handle nor a call (`WipeIsAlone`), and so no transaction; hence `~overrun`: the reset
checks the count of handles and clears afterwards, and the code does nothing against a worker
that opens in between. `CallOK` says per process what the call it stands at needs. A step
changes one process only (`OthersStay`, `OwnStep`, `CallHistory`).

`OwnerLease_slots` proves `PunctualKeepsSlot` and `OpenCoversHandles`, for any processes and
slots. The hypotheses are those under which they hold: heartbeats are on time (`Punctual`),
no reset has run over others (`~overrun`), and no owner has died between the claim of a slot
and the reset of its count if another owner can have left a count there (`CleanDeaths`); the
table of other behaviours shows what happens without each. The properties need each other: a reset
clears the slots of the living unless the count refuses it, and the count is right only if each
slot is recovered for one owner, once. `SlotsInv` therefore has all of it. `LeaseFits` says what
a process knows of its lease at each call. `SlotsAreOwned`: a live process owns the slot it
believes to have, and nobody has two. `LivingBeat`: its heartbeat is not stale, nor the one it
has stamped and is about to win a slot with. `RecoversDead`: a recovery that is about to negate
an id has found the id of a dead owner, or of one that has given the slot back, or the slot
still has the id so that the recheck of the heartbeat decides; one that has gone through has the
slot for itself until the id is cleared. `SlotsAreBacked`: a slot never has more handles than
its owner has added to the count, between the two counts of a retain or a release either.
`OpenCoversOwed`: what may still be taken off the count, for the living by their releases and for
the dead by the recoveries that can come or are on their way, is a set of handles (`Owed`), and
`open` is at least its size. A sum over processes would need induction; of a set the library's
theorems about finite sets tell what one handle more (`RetainOwesOne`), one less
(`ReleasePaysOne`) and a recovery that takes all of an owner (`RecoveryPaysAll`) do to the
size, and that other steps only make it smaller (`OwesSinks`, `OwedSinks`). TLC has checked
each part on three instances before it was proved.

`WriteAhead_proofs` proves, for any connections, pages, limits and bounds, the types,
`PublishedIsConservative` and `CheckpointRespectsViews`. That polling the lock names once is
enough rests on two facts: a view only moves forward (`lo` and `txId` never fall while a
connection lives), and a name is published after the view it names. The strengthening `ViewInv`
has them as `ViewsContiguous` (the map of transactions has no gap, so dropping a prefix raises
its lowest key), `WritersFrozen` (the view of a transaction in progress does not move),
`CheckpointsWithinView`, `HeadersStart` and `LocksMatchTasks` (a connection that is alive
advertises a view, so that it was polled, unless it opened later). Each part has a lemma with a
case for every action that touches it. `WriteAhead_lemmas` has the facts about the data, among
them that a bounded set of numbers has a maximum, by well-founded induction, and what the longer
actions do to a view. Its last
section has the types, one part per lemma.

`WriteAhead_snapshot` proves, for any connections, pages, limits and bounds, that what a
connection reads is its snapshot (`ReadsAreSnapshots`), that no task of the log throws
(`NoTaskThrows`) and that `WriteAhead` implements `SnapshotIsolation` (`LogIsSnapshotIsolation`),
with commits, roll-backs, file swaps, lost and late messages, terminations in the middle of a
transaction and connections that open late. The hypothesis is `NeverCheckpoints`: `autoCheckpoint`
is 0 and nobody asks for a checkpoint, and somebody has the files open at the start. It is what
the run `WriteAheadCrash` configures, and it is needed: the table of other behaviours has a
counterexample for connections that create the files at once, and three with checkpoints. The
invariant, `SnapshotInv`, says that there is a sequence `log` of transactions, one for each
commit of `hist`, and a number `border` of those that are in the first file, of which everything
else is a part (`LogFits`): each transaction is in its file at the place the log has
(`LogInFiles`); behind the last one a file has no commit, and the second has no header before the
swap (`FilesFit`), so that a file only grows and what has been read in it stays true; a view is a
prefix of the log, and stands in its file where that prefix ends (`ViewFits`); messages and
transactions kept for later are copies from the log, however late (`MailFits`); the view moves
only outside of transactions or before the first write (`TaskFits`); and a writer has all of the
log and writes behind it (`WriterFits`). A commit gives a longer `log` as witness, all other
steps the same, and a swap leaves `border` where it is. TLC has checked this invariant, with
`log` and `border` as history variables, before it was proved. For the refinement, `SkipTx` and
`ReadTx` map to `Advance`, the end of the scan before a write (`AtEnd`, `Upgrade`) to
`BeginWrite`, `BeginRead` and `Commit` to their namesakes, `Rejoin`, `Close` and `Crash` to
`End`, and the rest to stuttering steps.

`VfsConnection_proofs` proves every safety property of the connections, for any number of
them. None is inductive alone: that a connection is isolated only under a lock depends on what
the retry operation under way was pushed for, and that on where SQLite stands. `ConnInv` says
it per connection: the life of the file (`FileLife`), which result waits for whom
(`ResultIsAsked`, `OpIsAwaited`), what the lock level, the isolation, the locking mode and
the locks may be at each point (`LevelFits`, `IsolationFits`, `ModeFits`, `LocksFit`,
`RestsLazily`), and that a writer holds the write lock unless it has surrendered it
(`WriterFits`); the one fact about two connections is `LocksExclude`. A step changes one
connection only (`OthersStep`, `UntouchedOK`), so that each handler and each continuation is
a lemma about it. `WriterSeesAll` needs two connections: as long as nobody has surrendered the
write lock, who commits and who writes both hold it, and it is exclusive (`StaleStep`). That
`surrendered` does not shrink while somebody is isolated for writing (`SurrenderedStays`) keeps
the two exceptions in step.

`SharedFile_proofs` proves every property of the shared files, for any workers, capacities
and bounds, in two layers. `FileInv` holds whatever happens, also when locks are lost and
deletes run beside writers: segments never shrink (`grow()` refuses), so that a size that was
backed once stays backed, and each worker carries what it has ensured (`Ensured`) and reached
(`Reached`); `ActiveAreWhole` says that all active segments but the last are full, without
which a worker that starts to grow at the last active one would leave a hole. From it follow
`SizeIsBacked`, `AppendsReadWhole` and `CountsEveryWrite`. `SerialInv` is the correspondence
with a `LocalFile` as long as nothing disturbs the operations: a worker inside is the only
one, and the blocks are those of the history up to where it has stored them (`Midway`); a
delete that has cleared the size but is not done leaves the size 0 (`Between`, `Cleared`).
`SerialWhenUndisturbed` follows from both. What growing, writing and truncating a `LocalFile`
do to a block (`GrownFacts`, `WrittenFacts`, `TruncatedFacts`) and how sizes, segments and
blocks relate (`SegmentsFacts`, `SegmentsLeast`, `CapacityReaches`) are lemmas of their own.

Only model-checked: with checkpoints, the refinement `ImplementsPromise`, `ReadsSeeSnapshot` and
`TruncateIsSafe`, which do not hold without the restrictions the runs make. The liveness
properties are out of the prover's reach.

## Not modelled

- `truncate()` and a change of the page size (VACUUM);
- `close()` while a checkpoint of the same connection waits, and `jClose` (V 604-636) while a
  retry operation does: the application waits for these before it calls again;
- what a statement that gives up leaves in `retryResult` if SQLite does not call again (V 884);
- what happens after a reset has run over workers that opened meanwhile;
- segments of fixed size, the registration of files, diagnostics reports;
- registry, options, paths, logger: sequential data of one context. Tests, benchmarks and
  scripts are not part of the program.

## Plan

Done: `FileLock` with its abstract specification and proofs; `SnapshotIsolation` and
`WriteAhead` with proofs of what a checkpoint may rely on and, without checkpoints, of snapshot
isolation; `OwnerLease` and `AttachedLock` with
proofs of exclusion, of the types, of who is quarantined, of who keeps its slot and of the
handle count; `VfsConnection`, `SharedFile` and
`LocalFile` with proofs of all their safety properties. Left, in this order:

1. `TruncateIsSafe`, and snapshot isolation with checkpoints for connections that are open from
   the start;
2. `close()` during a checkpoint, and `truncate()`.
