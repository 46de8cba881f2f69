---------------------------- MODULE VfsConnection ----------------------------
(***************************************************************************)
(* The connections to the primary database: jOpen, jClose, jLock, jUnlock, *)
(* the locking pragmas and the asynchronous operations they leave behind   *)
(* in src/src/MemoryWriteAheadVFS.ts.                                      *)
(*                                                                         *)
(* Each connection is a worker with a VFS of its own.  A VFS method cannot *)
(* wait: it starts a retry operation, answers SQLITE_BUSY, and is called   *)
(* again when the operation has settled; what the operation obtained waits *)
(* for it in file.retryResult.  Between the two calls SQLite unlocks.      *)
(*                                                                         *)
(* Of the log a connection needs only how far its view is behind: that the *)
(* log itself keeps its promises is the subject of WriteAhead.  LazyLock,  *)
(* the lock manager of the browser and SQLite are external.                *)
(***************************************************************************)
EXTENDS Naturals, FiniteSets, SequencesExt

CONSTANTS
    Conn,           \* the connections, one worker each
    Doubled,        \* those whose VFS is asked for a second SQLite connection
    Exclusive,      \* those that switch PRAGMA locking_mode
    Tuner,          \* those that announce writes and set PRAGMA lazy_lock
    Checkpointer,   \* those that run a full checkpoint
    Patient,        \* those with no PRAGMA busy_timeout
    LazySettings    \* the values given to PRAGMA lazy_lock

ASSUME ConnAssumption ==
    /\ IsFiniteSet(Conn)
    /\ \A s \in {Doubled, Exclusive, Tuner, Checkpointer, Patient} : s \subseteq Conn
    /\ LazySettings \subseteq SUBSET {"read", "write"}

Locks == {"read", "write"}
Ids == {1, 2}                    \* two SQLite connections of one VFS

VARIABLES
    (* the MemoryWriteAheadOpenFile of a connection *)
    known,          \* mapPathToFile has the file
    opened,         \* file.opened
    owner,          \* the fileId that mapIdToFile maps to the file, 0: none
    retryResult,    \* null, {} ("ok") or an Error
    lockState,      \* file.lockState
    lockingMode,    \* file.lockingMode
    writeHint,      \* file.writeHint
    useLazyLock,    \* the locks that file.useLazyLock keeps lazily
    isolation,      \* file.writeAhead.isolationState
    handles,        \* shared handles that are open
    (* what runs between two calls *)
    op,             \* the retry or pending operation that waits or runs
    opening,        \* operations #retryOpen that are in flight
    (* the named locks *)
    lock,           \* the mode of a connection's hold on each lock
    lazy,           \* the locks that it holds only until another one asks
    queue,          \* the connections that wait for each lock
    (* SQLite and the application *)
    asking,         \* where the open of each SQLite connection stands
    pc,             \* where the statement of the connection stands
    want,           \* "read", "write", or "upgrade" in a deferred transaction
    stale,          \* a commit of another connection is not in its view
    surrendered     \* history: see Remember

fileVars == <<known, opened, owner, handles, opening, asking>>
lockVars == <<lock, lazy, queue>>
settings == <<lockingMode, writeHint, useLazyLock>>
callVars == <<pc, want>>
vars == <<fileVars, lockVars, settings, callVars,
          retryResult, lockState, isolation, op, stale, surrendered>>

Set(f, c, v) == [f EXCEPT ![c] = v]

TypeOK ==
    /\ known \in [Conn -> BOOLEAN] /\ opened \in [Conn -> BOOLEAN]
    /\ owner \in [Conn -> {0} \cup Ids]
    /\ handles \in [Conn -> {0, 3}]
    /\ opening \in [Conn -> 0 .. 1]
    /\ asking \in [Conn -> [Ids -> {"no", "busy", "open"}]]
    /\ retryResult \in [Conn -> {"null", "ok", "error"}]
    /\ lockState \in [Conn -> {"none", "shared", "reserved"}]
    /\ lockingMode \in [Conn -> {"normal", "exclusive"}]
    /\ writeHint \in [Conn -> BOOLEAN]
    /\ useLazyLock \in [Conn -> SUBSET Locks]
    /\ isolation \in [Conn -> {"null", "read", "write"}]
    /\ op \in [Conn -> {"none", "read", "exclusive", "exclusiveWrite", "write",
                        "upgrade", "checkpoint", "copy"}]
    /\ lock \in [Conn -> [Locks -> {"none", "shared", "exclusive"}]]
    /\ lazy \in [Conn -> SUBSET Locks]
    /\ queue \in [Locks -> Seq(Conn)]
    /\ pc \in [Conn -> {"idle", "lockShared", "lockReserved", "blocked", "inside",
                        "unlockBusy", "unlockEnd"}]
    /\ want \in [Conn -> {"read", "write", "upgrade"}]
    /\ stale \in [Conn -> BOOLEAN]
    /\ surrendered \subseteq Conn

Init ==
    /\ known = [c \in Conn |-> FALSE] /\ opened = [c \in Conn |-> FALSE]
    /\ owner = [c \in Conn |-> 0]
    /\ handles = [c \in Conn |-> 0]
    /\ opening = [c \in Conn |-> 0]
    /\ asking = [c \in Conn |-> [i \in Ids |-> "no"]]
    /\ retryResult = [c \in Conn |-> "null"]
    /\ lockState = [c \in Conn |-> "none"]
    /\ lockingMode = [c \in Conn |-> "normal"]
    /\ writeHint = [c \in Conn |-> FALSE]
    /\ useLazyLock = [c \in Conn |-> Locks]
    /\ isolation = [c \in Conn |-> "null"]
    /\ op = [c \in Conn |-> "none"]
    /\ lock = [c \in Conn |-> [l \in Locks |-> "none"]]
    /\ lazy = [c \in Conn |-> {}]
    /\ queue = [l \in Locks |-> <<>>]
    /\ pc = [c \in Conn |-> "idle"]
    /\ want = [c \in Conn |-> "read"]
    /\ stale = [c \in Conn |-> FALSE]
    /\ surrendered = {}

-----------------------------------------------------------------------------
(* Opening and closing *)

\* #retryOpen: three handles, then the log reads what there is.
RetryOpen(c) ==
    /\ opening' = [opening EXCEPT ![c] = @ + 1]
    /\ handles' = [handles EXCEPT ![c] = @ + 3]

\* Another SQLite connection of this VFS has the file or is opening it.
UnopenedOnly(c, i) ==            \* a mutant: two opens at once are allowed
    known[c] /\ opened[c] /\ owner[c] # i
Duplicate(c, i) ==
    /\ known[c]
    /\ opened[c] \/ retryResult[c] = "null"
    /\ owner[c] # i

\* The three handles are closed.
KeepHandles(c) == handles        \* a mutant
CloseHandles(c) == [handles EXCEPT ![c] = @ - 3]

\* The branch of jOpen for the primary database.  SQLITE_BUSY makes SQLite
\* call again when the operations in flight have settled.
JOpen(c, i) ==
    /\ asking[c][i] = "no"
    /\ i = 1 \/ c \in Doubled
    /\ \/ /\ Duplicate(c, i)                              \* SQLITE_CANTOPEN
          /\ asking' = [asking EXCEPT ![c][i] = "no"]
          /\ UNCHANGED <<known, opened, owner, handles, opening, settings,
                         retryResult, lockState>>
       \/ /\ ~Duplicate(c, i) /\ retryResult[c] = "null"  \* SQLITE_BUSY
          /\ RetryOpen(c)
          /\ known' = Set(known, c, TRUE)
          /\ asking' = [asking EXCEPT ![c][i] = "busy"]
          /\ UNCHANGED <<opened, owner, settings, retryResult, lockState>>
       \/ /\ ~Duplicate(c, i) /\ retryResult[c] = "error" \* SQLITE_CANTOPEN
          /\ retryResult' = Set(retryResult, c, "null")
          /\ known' = Set(known, c, FALSE)
          /\ asking' = [asking EXCEPT ![c][i] = "no"]
          /\ UNCHANGED <<opened, owner, handles, opening, settings, lockState>>
       \/ /\ ~Duplicate(c, i) /\ retryResult[c] = "ok"    \* SQLITE_OK
          /\ retryResult' = Set(retryResult, c, "null")
          /\ lockState' = Set(lockState, c, "none")
          /\ lockingMode' = Set(lockingMode, c, "normal")
          /\ useLazyLock' = Set(useLazyLock, c, Locks)
          /\ writeHint' = Set(writeHint, c, FALSE)
          /\ opened' = Set(opened, c, TRUE)
          /\ owner' = Set(owner, c, i)
          /\ asking' = [asking EXCEPT ![c][i] = "open"]
          /\ UNCHANGED <<known, handles, opening>>
    /\ UNCHANGED <<lockVars, callVars, isolation, op, stale, surrendered>>

\* The log is ready, or it failed and the handles are closed again.  Who was
\* told to wait may now call again.
OpenSettles(c) ==
    /\ opening[c] > 0
    /\ opening' = [opening EXCEPT ![c] = @ - 1]
    /\ asking' = [asking EXCEPT ![c] =
                     [i \in Ids |-> IF @[i] = "busy" THEN "no" ELSE @[i]]]
    /\ \/ /\ retryResult' = Set(retryResult, c, "ok")
          /\ UNCHANGED handles
       \/ /\ retryResult' = Set(retryResult, c, "error")
          /\ handles' = CloseHandles(c)
    /\ stale' = Set(stale, c, FALSE)
    /\ UNCHANGED <<known, opened, owner, lockVars, settings, callVars,
                   lockState, isolation, op, surrendered>>

\* jClose: SQLite closes a file it has unlocked.  The application awaits the
\* retry operations of a call before it makes another one, so none waits here.
JClose(c) ==
    /\ opened[c] /\ pc[c] = "idle" /\ op[c] = "none" /\ lockState[c] = "none"
    /\ handles' = CloseHandles(c)
    /\ lock' = Set(lock, c, [l \in Locks |-> "none"])
    /\ lazy' = Set(lazy, c, {})
    /\ opened' = Set(opened, c, FALSE)
    /\ known' = Set(known, c, FALSE)
    /\ asking' = [asking EXCEPT ![c][owner[c]] = "no"]
    /\ owner' = Set(owner, c, 0)
    /\ isolation' = Set(isolation, c, "null")      \* of the log that is dropped
    /\ retryResult' = Set(retryResult, c, "null")  \* and of the file
    /\ UNCHANGED <<opening, queue, settings, callVars, lockState, op, stale, surrendered>>

-----------------------------------------------------------------------------
(* LazyLock: a lock that is released lazily is held until another asks.    *)

LockOf(o) == IF o \in {"read", "exclusive"} THEN "read" ELSE "write"
ReadIsShared(o) ==               \* a mutant: exclusive mode locks out no reader
    IF LockOf(o) = "read" THEN "shared" ELSE "exclusive"
ModeOf(o) == IF o = "read" THEN "shared" ELSE "exclusive"
Compatible(m, n) == n = "none" \/ (m = "shared" /\ n = "shared")

\* acquire() by operation o: a lock held in this mode is kept, one held in
\* the other mode is given back, and the connection joins the queue.
Request(c, o) ==
    LET l == LockOf(o)
    IN  /\ op' = Set(op, c, o)
        /\ lazy' = Set(lazy, c, lazy[c] \ {l})
        /\ IF lock[c][l] = ModeOf(o) THEN UNCHANGED <<lock, queue>>
           ELSE /\ lock' = [lock EXCEPT ![c][l] = "none"]
                /\ queue' = [queue EXCEPT ![l] = Append(@, c)]

\* The lock manager can answer the request of c.
Available(c) ==
    LET l == LockOf(op[c]) m == ModeOf(op[c])
    IN  \/ lock[c][l] = m
        \/ /\ queue[l] # <<>> /\ Head(queue[l]) = c
           /\ \A d \in Conn \ {c} : Compatible(m, lock[d][l])

\* SQLite makes no further call while an operation of the connection is under way.
Ready(c) == opened[c] /\ op[c] = "none"

Waiting(c) == op[c] \notin {"none", "copy"}

LockAfterGrant(c) == [lock EXCEPT ![c][LockOf(op[c])] = ModeOf(op[c])]
QueueAfterGrant(c) ==
    IF lock[c][LockOf(op[c])] = ModeOf(op[c]) THEN queue
    ELSE [queue EXCEPT ![LockOf(op[c])] = Tail(@)]

StaysLazy(c, l, m) == lock[c][l] = m /\ UNCHANGED lockVars   \* a mutant
\* acquireIfHeld(): the lock is held in this mode, and no longer lazily.
AcquireIfHeld(c, l, m) ==
    /\ lock[c][l] = m
    /\ lazy' = Set(lazy, c, lazy[c] \ {l})
    /\ UNCHANGED <<lock, queue>>

\* release() of the locks in s.
ReleaseNothing(c, s) == UNCHANGED <<lock, lazy>>   \* a mutant
Release(c, s) ==
    /\ lock' = Set(lock, c, [l \in Locks |-> IF l \in s THEN "none" ELSE lock[c][l]])
    /\ lazy' = Set(lazy, c, lazy[c] \ s)

\* A lock kept lazily is dropped when another connection waits for it.
DropLazy(c, l) ==
    /\ l \in lazy[c]
    /\ \E d \in Conn \ {c} : Waiting(d) /\ LockOf(op[d]) = l
                             /\ ~Compatible(ModeOf(op[d]), lock[c][l])
    /\ Release(c, {l})
    /\ UNCHANGED <<fileVars, queue, settings, callVars, retryResult, lockState,
                   isolation, op, stale, surrendered>>

-----------------------------------------------------------------------------
(* jLock and jUnlock *)

\* What SQLite does with the answer to jLock.  When a statement that is not
\* in a transaction meets SQLITE_BUSY or an error, it unlocks the file, but
\* not in exclusive locking mode if it had not locked it.
AfterBusy(c) == pc' = Set(pc, c, IF lockingMode[c] = "exclusive" THEN "blocked"
                                 ELSE "unlockBusy")
AfterError(c) == pc' = Set(pc, c, IF lockingMode[c] = "exclusive" THEN "idle"
                                  ELSE "unlockEnd")
AfterShared(c) == pc' = Set(pc, c, IF want[c] = "read" THEN "inside"
                                   ELSE "lockReserved")

Busy(c, o) == Request(c, o) /\ AfterBusy(c)

\* isolateForRead and isolateForWrite throw in an isolated connection.
Isolate(c, how) ==
    /\ isolation[c] = "null"
    /\ isolation' = Set(isolation, c, how)
    /\ stale' = IF how = "write" THEN Set(stale, c, FALSE) ELSE stale

\* jLock(SHARED) from NONE.
JLockShared(c) ==
    /\ pc[c] = "lockShared"
    /\ \/ /\ retryResult[c] = "null" /\ lockingMode[c] = "exclusive"
          /\ retryResult' = Set(retryResult, c, "ok")
          /\ Busy(c, "exclusive")
          /\ UNCHANGED <<lockState, isolation, stale>>
       \/ /\ retryResult[c] = "null" /\ lockingMode[c] = "normal"
          /\ LET o == IF writeHint[c] THEN "write" ELSE "read"
             IN  \/ /\ lock[c][LockOf(o)] # ModeOf(o)
                    /\ Busy(c, o)
                    /\ UNCHANGED <<retryResult, lockState, isolation, stale>>
                 \/ /\ AcquireIfHeld(c, LockOf(o), ModeOf(o))
                    /\ Isolate(c, o)
                    /\ lockState' = Set(lockState, c, "shared")
                    /\ AfterShared(c)
                    /\ UNCHANGED <<retryResult, op>>
       \/ /\ retryResult[c] = "error"
          /\ retryResult' = Set(retryResult, c, "null")
          /\ AfterError(c)
          /\ UNCHANGED <<lockVars, lockState, isolation, op, stale>>
       \/ /\ retryResult[c] = "ok"
          /\ retryResult' = Set(retryResult, c, "null")
          /\ lockState' = Set(lockState, c, "shared")
          /\ AfterShared(c)
          /\ UNCHANGED <<lockVars, isolation, op, stale>>
    /\ UNCHANGED <<fileVars, settings, want, surrendered>>

\* tryUpgradeReadIsolationToWrite
IgnoreView(c) == isolation[c] = "read"   \* a mutant: the view is not compared
TryUpgrade(c) == isolation[c] = "read" /\ ~stale[c]

\* A refused statement of a deferred transaction leaves the transaction open.
StatementFails(c) ==
    IF want[c] = "upgrade"
    THEN pc' = Set(pc, c, "inside") /\ want' = Set(want, c, "read")
    ELSE AfterError(c) /\ UNCHANGED want

\* jLock(RESERVED), and jLock(EXCLUSIVE), which finds write isolation.
JLockReserved(c) ==
    /\ pc[c] = "lockReserved"
    /\ \/ /\ retryResult[c] = "error"
          /\ retryResult' = Set(retryResult, c, "null")
          /\ StatementFails(c)
          /\ UNCHANGED <<lockVars, lockState, isolation, op>>
       \/ /\ retryResult[c] # "error" /\ isolation[c] = "write"
          /\ retryResult' = Set(retryResult, c, "null")
          /\ lockState' = Set(lockState, c, "reserved")
          /\ pc' = Set(pc, c, "inside")
          /\ UNCHANGED <<lockVars, isolation, op, want>>
       \/ /\ retryResult[c] # "error" /\ isolation[c] = "read"
          /\ lock[c]["write"] = "exclusive"
          /\ IF TryUpgrade(c)
             THEN /\ AcquireIfHeld(c, "write", "exclusive")
                  /\ retryResult' = Set(retryResult, c, "null")
                  /\ isolation' = Set(isolation, c, "write")
                  /\ lockState' = Set(lockState, c, "reserved")
                  /\ pc' = Set(pc, c, "inside")
                  /\ UNCHANGED want
             ELSE /\ Release(c, {"write"})
                  /\ StatementFails(c)
                  /\ UNCHANGED <<queue, retryResult, lockState, isolation>>
          /\ UNCHANGED op
       \/ /\ retryResult[c] # "error" /\ isolation[c] # "write"
          /\ lock[c]["write"] # "exclusive"
          /\ retryResult' = Set(retryResult, c, "ok")
          /\ Request(c, "upgrade")
          /\ IF want[c] = "upgrade" THEN pc' = Set(pc, c, "blocked") ELSE AfterBusy(c)
          /\ UNCHANGED <<lockState, isolation, want>>
    /\ UNCHANGED <<fileVars, settings, stale, surrendered>>

\* The history: the connections whose own full checkpoint has given away the
\* write lock of their write isolation, until nobody is isolated for writing.
Surrenders(c) == op[c] = "checkpoint" /\ isolation[c] = "write"
Remember(c) ==
    surrendered' = IF \A d \in Conn : isolation'[d] # "write" THEN {}
                   ELSE surrendered \cup {d \in {c} : Surrenders(d)}

\* What the releases of jUnlock leave of a connection's locks.
KeepLazily(c) ==
    /\ lock' = Set(lock, c, [l \in Locks |->
                   IF l \in useLazyLock[c] THEN lock[c][l] ELSE "none"])
    /\ lazy' = Set(lazy, c, {l \in useLazyLock[c] : lock[c][l] # "none"})

\* jUnlock(NONE).  A lock that waits in retryResult is not released.  (On
\* the way SQLite calls jUnlock(SHARED), which only stores the level.)
NothingToRetry(c) == retryResult[c] = "null"
StaysIsolated(c) == isolation          \* a mutant: unlocked without rejoin()
Rejoin(c) == Set(isolation, c, "null")
JUnlock(c) ==
    /\ pc[c] \in {"unlockBusy", "unlockEnd"}
    /\ IF NothingToRetry(c)
       THEN /\ isolation' = Rejoin(c)
            /\ stale' = IF isolation[c] = "read" THEN Set(stale, c, FALSE) ELSE stale
            /\ KeepLazily(c)
            /\ writeHint' = Set(writeHint, c, FALSE)
       ELSE UNCHANGED <<isolation, stale, lock, lazy, writeHint>>
    /\ lockState' = Set(lockState, c, "none")
    /\ pc' = Set(pc, c, IF pc[c] = "unlockBusy" THEN "blocked" ELSE "idle")
    /\ want' = IF pc[c] = "unlockEnd" THEN Set(want, c, "read") ELSE want
    /\ Remember(c)
    /\ UNCHANGED <<fileVars, queue, lockingMode, useLazyLock, retryResult, op>>

-----------------------------------------------------------------------------
(* The operations that wait for a lock *)

Answered(c) ==                   \* not within the call that started it
    Waiting(c) /\ pc[c] \notin {"unlockBusy", "unlockEnd"}

\* #retryLockRead
ReadLockGranted(c) ==
    /\ Answered(c) /\ op[c] = "read" /\ Available(c)
    /\ lock' = LockAfterGrant(c) /\ queue' = QueueAfterGrant(c)
    /\ Isolate(c, "read")
    /\ retryResult' = Set(retryResult, c, "ok")
    /\ op' = Set(op, c, "none")
    /\ UNCHANGED <<fileVars, lazy, settings, callVars, lockState, surrendered>>

\* #retryLockWrite in exclusive mode takes the read lock first.
ExclusiveReadGranted(c) ==
    /\ Answered(c) /\ op[c] = "exclusive" /\ Available(c)
    /\ LET held == lock[c]["write"] = "exclusive"
       IN  /\ lock' = [LockAfterGrant(c) EXCEPT ![c]["write"] =
                          IF held THEN "exclusive" ELSE "none"]
           /\ queue' = [QueueAfterGrant(c) EXCEPT !["write"] =
                          IF held THEN @ ELSE Append(@, c)]
    /\ lazy' = Set(lazy, c, {})
    /\ op' = Set(op, c, "exclusiveWrite")
    /\ UNCHANGED <<fileVars, settings, callVars, retryResult, lockState,
                   isolation, stale, surrendered>>

\* #retryLockWrite
WriteLockGranted(c) ==
    /\ Answered(c) /\ op[c] \in {"write", "exclusiveWrite"} /\ Available(c)
    /\ lock' = LockAfterGrant(c) /\ queue' = QueueAfterGrant(c)
    /\ Isolate(c, "write")
    /\ retryResult' = Set(retryResult, c, "ok")
    /\ op' = Set(op, c, "none")
    /\ UNCHANGED <<fileVars, lazy, settings, callVars, lockState, surrendered>>

\* #retryUpgradeDeferredWrite
UpgradeGranted(c) ==
    /\ Answered(c) /\ op[c] = "upgrade" /\ Available(c)
    /\ queue' = QueueAfterGrant(c)
    /\ IF TryUpgrade(c)
       THEN /\ lock' = LockAfterGrant(c)
            /\ isolation' = Set(isolation, c, "write")
            /\ retryResult' = Set(retryResult, c, "ok")
       ELSE /\ lock' = [lock EXCEPT ![c]["write"] = "none"]
            /\ retryResult' = Set(retryResult, c, "error")
            /\ UNCHANGED isolation
    /\ op' = Set(op, c, "none")
    /\ UNCHANGED <<fileVars, lazy, settings, callVars, lockState, stale, surrendered>>

\* busy_timeout runs out.  What the operation took before is given back.
LockTimesOut(c) ==
    /\ Answered(c) /\ op[c] # "checkpoint" /\ c \notin Patient
    /\ lock[c][LockOf(op[c])] # ModeOf(op[c])
    /\ \E i \in DOMAIN queue[LockOf(op[c])] :
          /\ queue[LockOf(op[c])][i] = c
          /\ queue' = [queue EXCEPT ![LockOf(op[c])] = RemoveAt(@, i)]
    /\ IF op[c] = "exclusiveWrite" THEN Release(c, {"read"})
       ELSE IF op[c] = "upgrade" THEN Release(c, {"write"})
       ELSE UNCHANGED <<lock, lazy>>
    /\ retryResult' = Set(retryResult, c, "error")
    /\ op' = Set(op, c, "none")
    /\ UNCHANGED <<fileVars, settings, callVars, lockState, isolation, stale, surrendered>>

\* SQLite calls again when the operation has settled.
CallAgain(c) ==
    /\ pc[c] = "blocked" /\ op[c] = "none"
    /\ pc' = Set(pc, c, IF lockState[c] = "none" THEN "lockShared" ELSE "lockReserved")
    /\ UNCHANGED <<fileVars, lockVars, settings, want, retryResult, lockState,
                   isolation, op, stale, surrendered>>

\* PRAGMA wal_checkpoint in full mode, between two statements, and the start
\* of #pendingCheckpoint.  It is refused when the transaction has written a
\* page (isTransactionPending); nothing else is asked, so it may come in a
\* read transaction, after BEGIN IMMEDIATE, and in exclusive locking mode
\* while the connection keeps its locks.  A page counts as written at End.
Checkpoint(c) ==
    /\ c \in Checkpointer /\ Ready(c)
    /\ pc[c] \in {"idle", "inside"}
    /\ Request(c, "checkpoint")
    /\ UNCHANGED <<fileVars, settings, callVars, retryResult, lockState,
                   isolation, stale, surrendered>>

\* #pendingCheckpoint has waited for the lock for as long as it took.  In an
\* isolated connection isolateForWrite throws, and what is undone then is the
\* acquisition, whether the lock was the transaction's before or not.
CheckpointGranted(c) ==
    /\ op[c] = "checkpoint" /\ Available(c)
    /\ queue' = QueueAfterGrant(c)
    /\ \/ /\ Isolate(c, "write")
          /\ lock' = LockAfterGrant(c)
          /\ op' = Set(op, c, "copy")
       \/ /\ isolation[c] # "null"
          /\ lock' = [lock EXCEPT ![c]["write"] = "none"]
          /\ op' = Set(op, c, "none")
          /\ UNCHANGED <<isolation, stale>>
    /\ Remember(c)
    /\ UNCHANGED <<fileVars, lazy, settings, callVars, retryResult, lockState>>

CheckpointEnds(c) ==
    /\ op[c] = "copy"
    /\ isolation' = Rejoin(c)
    /\ Release(c, {"write"})
    /\ op' = Set(op, c, "none")
    /\ Remember(c)
    /\ UNCHANGED <<fileVars, queue, settings, callVars, retryResult, lockState, stale>>

-----------------------------------------------------------------------------
(* The application and SQLite; the calls of a connection follow each other *)

Begin(c, w) ==
    /\ Ready(c) /\ pc[c] = "idle"
    /\ want' = Set(want, c, w)
    /\ pc' = Set(pc, c, IF lockState[c] = "none" THEN "lockShared"
                        ELSE IF w = "read" THEN "inside" ELSE "lockReserved")
    /\ UNCHANGED <<fileVars, lockVars, settings, retryResult, lockState,
                   isolation, op, stale, surrendered>>

\* A deferred transaction that has read comes to its first write.
WriteDeferred(c) ==
    /\ Ready(c) /\ pc[c] = "inside" /\ lockState[c] = "shared"
    /\ want' = Set(want, c, "upgrade")
    /\ pc' = Set(pc, c, "lockReserved")
    /\ UNCHANGED <<fileVars, lockVars, settings, retryResult, lockState,
                   isolation, op, stale, surrendered>>

\* Commit or rollback.  A commit is in no other view yet.
End(c) ==
    /\ Ready(c) /\ pc[c] = "inside"
    /\ pc' = Set(pc, c, IF lockingMode[c] = "exclusive" THEN "idle" ELSE "unlockEnd")
    /\ stale' = IF lockState[c] = "reserved"
                THEN [d \in Conn |-> d # c \/ stale[d]] ELSE stale
    /\ UNCHANGED <<fileVars, lockVars, settings, want, retryResult, lockState,
                   isolation, op, surrendered>>

\* The message of a commit arrives.
CatchUp(c) ==
    /\ isolation[c] = "null" /\ stale[c]
    /\ stale' = Set(stale, c, FALSE)
    /\ UNCHANGED <<fileVars, lockVars, settings, callVars, retryResult, lockState,
                   isolation, op, surrendered>>

\* The pragmas of jFileControl that locking depends on.
Pragma(c) ==
    /\ Ready(c) /\ pc[c] = "idle"
    /\ \/ /\ c \in Exclusive
          /\ \E m \in {"normal", "exclusive"} : lockingMode' = Set(lockingMode, c, m)
          /\ UNCHANGED <<writeHint, useLazyLock>>
       \/ /\ c \in Tuner /\ writeHint' = Set(writeHint, c, TRUE)
          /\ UNCHANGED <<lockingMode, useLazyLock>>
       \/ /\ c \in Tuner /\ \E z \in LazySettings : useLazyLock' = Set(useLazyLock, c, z)
          /\ UNCHANGED <<lockingMode, writeHint>>
    /\ UNCHANGED <<fileVars, lockVars, callVars, retryResult, lockState,
                   isolation, op, stale, surrendered>>

Locking(c) ==
    \/ JLockShared(c) \/ JLockReserved(c) \/ JUnlock(c) \/ CallAgain(c)
Answers(c) ==
    \/ ReadLockGranted(c) \/ ExclusiveReadGranted(c) \/ WriteLockGranted(c)
    \/ UpgradeGranted(c) \/ CheckpointGranted(c) \/ CheckpointEnds(c)

Step(c) ==
    \/ \E i \in Ids : JOpen(c, i)
    \/ OpenSettles(c) \/ JClose(c)
    \/ Locking(c) \/ Answers(c)
    \/ LockTimesOut(c) \/ Checkpoint(c)
    \/ \E l \in Locks : DropLazy(c, l)
    \/ \E w \in {"read", "write"} : Begin(c, w)
    \/ WriteDeferred(c) \/ End(c) \/ CatchUp(c) \/ Pragma(c)

Next == \E c \in Conn : Step(c)

Spec == Init /\ [][Next]_vars

\* SQLite calls again, a transaction and a copy end, the browser answers
\* the first request of a queue, and a lock released lazily goes to another
\* that waits however often it is taken up again in between.
FairSpec ==
    /\ Spec
    /\ \A c \in Conn : /\ WF_vars(Locking(c)) /\ WF_vars(Answers(c)) /\ SF_vars(End(c))
                       /\ SF_vars(\E l \in Locks : DropLazy(c, l))

-----------------------------------------------------------------------------
(* Properties *)

\* A connection is isolated only while it really holds the lock that the
\* isolation stands for, not lazily: whoever asks next cannot take it away.
\* It spans jLock, jUnlock and the operations that run between two calls.
\* The one exception is a writer whose own full checkpoint gave the lock away.
Holds(c, l) == lock[c][l] # "none" /\ l \notin lazy[c]
IsolationHoldsLock ==
    \A c \in Conn :
        /\ isolation[c] = "write" /\ c \notin surrendered =>
              Holds(c, "write") /\ lock[c]["write"] = "exclusive"
        /\ isolation[c] = "read" => Holds(c, "read")

\* What SQLite believes to hold is what the log is isolated for, although a
\* lock may be obtained by one call and announced by a later one; and the log
\* is not asked to isolate itself twice, which would be an I/O error.
LevelIsIsolated ==
    \A c \in Conn :
        /\ lockState[c] = "shared" => isolation[c] # "null"
        /\ lockState[c] = "reserved" => isolation[c] = "write"
        /\ pc[c] = "lockShared" /\ retryResult[c] = "null" => isolation[c] = "null"

\* Between two statements outside a transaction a connection keeps nothing:
\* no isolation, no result of an operation, and locks only lazily.
NothingLeftBehind ==
    \A c \in Conn :
        pc[c] = "idle" /\ lockState[c] = "none" /\ op[c] = "none" /\ opened[c] =>
            /\ isolation[c] = "null"
            /\ retryResult[c] = "null"
            /\ \A l \in Locks : lock[c][l] # "none" => l \in lazy[c]

\* A connection that may write has every commit in its view, also when it
\* upgraded a snapshot: no update of another connection is lost, unless a
\* writer has surrendered its lock and another one came beside it.
WriterSeesAll ==
    surrendered = {} => \A c \in Conn : isolation[c] = "write" => ~stale[c]

\* In exclusive locking mode a transaction has the database for itself.  Nobody
\* else reads, whatever the connections do; and nobody else writes, unless one
\* of the two has surrendered the write lock.
ExclusiveIsAlone ==
    \A c, d \in Conn :
        c # d /\ lockingMode[c] = "exclusive" /\ lockState[c] # "none" =>
            /\ isolation[d] # "read"
            /\ isolation[d] = "write" => surrendered \cap {c, d} # {}

\* One connection at a time is isolated for writing.  It is not so: a full
\* checkpoint in a transaction that has not written yet, or in exclusive
\* locking mode, gives the transaction's write lock away.
OneWriter ==
    \A c, d \in Conn : isolation[c] = "write" /\ isolation[d] = "write" => c = d

\* The open handles are those of open files and of opens in flight.
HandlesAreOwned ==
    \A c \in Conn :
        LET sets == {x \in {"open", "settled"} :
                        IF x = "open" THEN opened[c]
                        ELSE ~opened[c] /\ retryResult[c] = "ok"}
        IN  handles[c] = 3 * (Cardinality(sets) + opening[c])

\* A statement that waits is answered, unless a connection keeps the database
\* between its transactions, in exclusive locking mode.
WaitersAreServed ==
    \A c \in Conn :
        pc[c] = "blocked" ~> \/ pc[c] # "blocked"
                             \/ \E d \in Conn : pc[d] = "idle" /\ lockState[d] # "none"
=============================================================================
