------------------------ MODULE VfsConnection_proofs ------------------------
(***************************************************************************)
(* Isolation, locks and handles of the connections, for any number of      *)
(* connections, whatever pragmas they use and whichever operations run     *)
(* between two calls of SQLite.                                            *)
(***************************************************************************)
EXTENDS VfsConnection, FiniteSetTheorems, TLAPS

-----------------------------------------------------------------------------
(* The inductive invariant *)

\* c holds the lock in this mode, and not lazily.
Keeps(c, l, m) == lock[c][l] = m /\ l \notin lazy[c]

\* An exclusive lock has one holder.
LocksExclude ==
    \A c, d \in Conn : \A l \in Locks :
        c # d /\ lock[c][l] = "exclusive" => lock[d][l] = "none"

\* The life of the file: unknown, being opened, answered, open.  Only an open
\* file is locked.
FileLife(c) ==
    /\ ~known[c] => ~opened[c] /\ opening[c] = 0 /\ retryResult[c] = "null"
    /\ opened[c] => known[c] /\ opening[c] = 0 /\ owner[c] # 0
    /\ ~opened[c] =>
         /\ owner[c] = 0
         /\ known[c] => (opening[c] = 0 <=> retryResult[c] # "null")
         /\ pc[c] = "idle" /\ op[c] = "none"
         /\ lockState[c] = "none" /\ isolation[c] = "null"
    /\ \A i \in Ids : asking[c][i] = "open" <=> opened[c] /\ owner[c] = i
    /\ handles[c] = IF opened[c] \/ opening[c] = 1 \/ retryResult[c] = "ok" THEN 3 ELSE 0

\* What an operation obtained waits in retryResult only while a statement is
\* blocked or asks again; deferred operations announce themselves there.
ResultIsAsked(c) ==
    /\ opened[c] /\ pc[c] \in {"idle", "inside", "unlockEnd"} => retryResult[c] = "null"
    /\ pc[c] = "blocked" /\ op[c] = "none" => retryResult[c] # "null"
    /\ pc[c] # "idle" /\ retryResult[c] = "error" => op[c] = "none" /\ isolation[c] # "write"
    /\ op[c] \in {"exclusive", "exclusiveWrite", "upgrade"} => retryResult[c] = "ok"
    /\ op[c] \in {"read", "write"} => retryResult[c] = "null"

\* Where a statement stands while an operation is under way.
OpIsAwaited(c) ==
    /\ pc[c] = "idle" => op[c] \in {"none", "checkpoint", "copy"}
    /\ pc[c] = "inside" => op[c] \in {"none", "checkpoint"}
    /\ pc[c] \in {"lockShared", "lockReserved", "unlockEnd"} => op[c] = "none"
    /\ pc[c] = "unlockBusy" => op[c] \in {"read", "write", "upgrade"}
    /\ pc[c] = "blocked" => op[c] \notin {"checkpoint", "copy"}

\* The lock level that SQLite believes in.
LevelFits(c) ==
    /\ lockState[c] = "shared" => isolation[c] # "null"
    /\ lockState[c] = "reserved" => isolation[c] = "write"
    /\ pc[c] = "lockShared" => lockState[c] = "none"
    /\ pc[c] \in {"lockReserved", "inside"} => lockState[c] # "none"
    /\ pc[c] = "blocked" => lockState[c] # "reserved"
    /\ op[c] \in {"read", "write", "exclusive", "exclusiveWrite", "copy"} => lockState[c] = "none"

\* The isolation of the log, by the operation and by the point reached.
IsolationFits(c) ==
    /\ op[c] \in {"read", "write", "exclusive", "exclusiveWrite"} => isolation[c] = "null"
    /\ op[c] = "upgrade" => isolation[c] = "read"
    /\ op[c] = "copy" => isolation[c] = "write"
    /\ pc[c] = "idle" /\ op[c] \in {"none", "checkpoint"} =>
          isolation[c] = IF lockState[c] = "none" THEN "null" ELSE "write"
    /\ pc[c] = "lockShared" /\ retryResult[c] = "null" => isolation[c] = "null"
    /\ pc[c] \in {"lockShared", "blocked"} /\ op[c] = "none" /\ retryResult[c] = "ok" =>
          /\ isolation[c] # "null"
          /\ lockState[c] # "none" => isolation[c] = "write"
    /\ pc[c] = "lockReserved" /\ retryResult[c] = "ok" => isolation[c] = "write"

\* What runs in which locking mode.
ModeFits(c) ==
    /\ op[c] \in {"exclusive", "exclusiveWrite"} => lockingMode[c] = "exclusive"
    /\ op[c] \in {"read", "write"} => lockingMode[c] = "normal"
    /\ pc[c] \in {"unlockBusy", "unlockEnd"} => lockingMode[c] = "normal"
    /\ lockingMode[c] = "exclusive" => isolation[c] # "read"

\* The locks behind read isolation, behind a waiting operation, and behind
\* exclusive locking mode.
LocksFit(c) ==
    /\ isolation[c] = "read" => Holds(c, "read")
    /\ Waiting(c) => /\ LockOf(op[c]) \notin lazy[c]
                     /\ lock[c][LockOf(op[c])] \in {"none", ModeOf(op[c])}
    /\ pc[c] = "unlockBusy" => lock[c][LockOf(op[c])] = "none"
    /\ op[c] = "exclusiveWrite" => Keeps(c, "read", "exclusive")
    /\ lockingMode[c] = "exclusive" /\ isolation[c] = "write" /\ op[c] # "copy" =>
          Keeps(c, "read", "exclusive")
    /\ pc[c] = "idle" /\ lockState[c] # "none" => Keeps(c, "read", "exclusive")

\* A connection that has locked nothing holds locks only lazily.
RestsLazily(c) ==
    /\ pc[c] = "idle" /\ lockState[c] = "none" =>
          /\ ~Holds(c, "read")
          /\ op[c] = "none" => ~Holds(c, "write")
    /\ pc[c] \in {"lockShared", "blocked"} /\ op[c] = "none" =>
          (lockingMode[c] = "exclusive" /\ isolation[c] = "null" =>
              ~Holds(c, "read") /\ ~Holds(c, "write"))
    /\ op[c] = "exclusive" => ~Holds(c, "write")

ConnOK(c) ==
    /\ FileLife(c) /\ ResultIsAsked(c) /\ OpIsAwaited(c) /\ LevelFits(c)
    /\ IsolationFits(c) /\ ModeFits(c) /\ LocksFit(c) /\ RestsLazily(c)

\* A writer holds the write lock, unless its own full checkpoint gave it away;
\* and as long as nobody's did, it has seen every commit.
WriterFits(c) ==
    isolation[c] = "write" =>
        /\ c \notin surrendered => Keeps(c, "write", "exclusive")
        /\ surrendered = {} => ~stale[c]

ConnInv == TypeOK /\ LocksExclude /\ \A c \in Conn : ConnOK(c) /\ WriterFits(c)

-----------------------------------------------------------------------------
(* The other connections *)

\* Nothing that the invariant says of d has changed.
Untouched(d) ==
    /\ known'[d] = known[d] /\ opened'[d] = opened[d] /\ owner'[d] = owner[d]
    /\ handles'[d] = handles[d] /\ opening'[d] = opening[d] /\ asking'[d] = asking[d]
    /\ retryResult'[d] = retryResult[d] /\ lockState'[d] = lockState[d]
    /\ lockingMode'[d] = lockingMode[d] /\ isolation'[d] = isolation[d]
    /\ op'[d] = op[d] /\ pc'[d] = pc[d]
    /\ lock'[d] = lock[d] /\ lazy'[d] = lazy[d]

\* The invariant of a connection survives a step that leaves it alone.
LEMMA UntouchedOK ==
  ASSUME NEW d \in Conn, ConnOK(d), Untouched(d)
  PROVE  ConnOK(d)'
BY DEF ConnOK, Untouched, FileLife, ResultIsAsked, OpIsAwaited, LevelFits, IsolationFits,
   ModeFits, LocksFit, RestsLazily, Keeps, Holds, Waiting

\* A step of one connection (a VFS method, or what an operation does when its
\* lock is granted) changes no field of another connection's file.
LEMMA OthersStep ==
  ASSUME TypeOK, NEW c \in Conn, NEW d \in Conn, c # d, Step(c)
  PROVE  Untouched(d)
<1> USE DEF TypeOK, Untouched, fileVars, lockVars, settings, callVars, Set
<1>1. CASE \E i \in Ids : JOpen(c, i)
  BY <1>1 DEF JOpen, RetryOpen
<1>2. CASE OpenSettles(c) \/ JClose(c)
  BY <1>2 DEF OpenSettles, JClose, CloseHandles
<1>3. CASE JLockShared(c)
  BY <1>3 DEF JLockShared, Busy, Request, AfterBusy, AfterError, AfterShared, AcquireIfHeld, Isolate
<1>4. CASE JLockReserved(c)
  BY <1>4 DEF JLockReserved, StatementFails, Request, AfterBusy, AfterError, AcquireIfHeld, Release
<1>5. CASE JUnlock(c)
  BY <1>5 DEF JUnlock, KeepLazily, Rejoin
<1>6. CASE CallAgain(c)
  BY <1>6 DEF CallAgain
<1>7. CASE Answers(c)
  BY <1>7 DEF Answers, ReadLockGranted, ExclusiveReadGranted, WriteLockGranted, UpgradeGranted,
     CheckpointGranted, CheckpointEnds, LockAfterGrant, Isolate, Release, Rejoin
<1>8. CASE LockTimesOut(c) \/ Checkpoint(c) \/ \E l \in Locks : DropLazy(c, l)
  BY <1>8 DEF LockTimesOut, Checkpoint, DropLazy, Release, Request
<1>9. CASE (\E w \in {"read", "write"} : Begin(c, w)) \/ WriteDeferred(c)
           \/ End(c) \/ CatchUp(c) \/ Pragma(c)
  BY <1>9 DEF Begin, WriteDeferred, End, CatchUp, Pragma
<1> QED BY <1>1, <1>2, <1>3, <1>4, <1>5, <1>6, <1>7, <1>8, <1>9 DEF Step, Locking

-----------------------------------------------------------------------------
(* The connection that takes the step *)

\* The types that the invariant of c is argued from.
Typed(c) ==
    /\ retryResult[c] \in {"null", "ok", "error"}
    /\ lockState[c] \in {"none", "shared", "reserved"}
    /\ lockingMode[c] \in {"normal", "exclusive"}
    /\ isolation[c] \in {"null", "read", "write"}
    /\ opening[c] \in {0, 1} /\ owner[c] \in {0} \cup Ids
    /\ op[c] \in {"none", "read", "exclusive", "exclusiveWrite", "write",
                  "upgrade", "checkpoint", "copy"}
    /\ pc[c] \in {"idle", "lockShared", "lockReserved", "blocked", "inside",
                  "unlockBusy", "unlockEnd"}
    /\ \A l \in Locks : lock[c][l] \in {"none", "shared", "exclusive"}

\* The type invariant, at one connection.
LEMMA TypedOK ==
  ASSUME TypeOK, NEW c \in Conn
  PROVE  Typed(c)
BY DEF TypeOK, Typed

\* What only opening and closing change, and the locking mode.
FileSame(c) ==
    /\ known'[c] = known[c] /\ opened'[c] = opened[c] /\ owner'[c] = owner[c]
    /\ handles'[c] = handles[c] /\ opening'[c] = opening[c] /\ asking'[c] = asking[c]
    /\ lockingMode'[c] = lockingMode[c]

\* jOpen keeps the invariant of its connection, with each of its four answers.
LEMMA JOpenOK ==
  ASSUME TypeOK, NEW c \in Conn, NEW i \in Ids, ConnOK(c), JOpen(c, i)
  PROVE  ConnOK(c)'
<1>1. Typed(c)
  BY TypedOK
<1>2. /\ isolation'[c] = isolation[c] /\ op'[c] = op[c] /\ pc'[c] = pc[c]
      /\ lock'[c] = lock[c] /\ lazy'[c] = lazy[c]
      /\ asking[c][i] # "open"
  BY DEF JOpen, lockVars, callVars
<1>3. CASE Duplicate(c, i)
  <2>1. /\ known'[c] = known[c] /\ opened'[c] = opened[c] /\ owner'[c] = owner[c]
        /\ handles'[c] = handles[c] /\ opening'[c] = opening[c]
        /\ lockingMode'[c] = lockingMode[c]
        /\ retryResult'[c] = retryResult[c] /\ lockState'[c] = lockState[c]
    BY <1>3 DEF JOpen, settings
  <2>2. \A j \in Ids : asking'[c][j] = "open" <=> asking[c][j] = "open"
    BY <1>2, <1>3 DEF JOpen, TypeOK
  <2> USE DEF ConnOK, FileLife, ResultIsAsked, OpIsAwaited, LevelFits, IsolationFits,
      ModeFits, LocksFit, RestsLazily, Keeps, Holds, Waiting, LockOf, ModeOf, Typed, Locks
  <2> QED BY <1>1, <1>2, <2>1, <2>2
<1>4. CASE ~Duplicate(c, i) /\ retryResult[c] = "null"
  <2>1. /\ known'[c] = TRUE /\ opened'[c] = opened[c] /\ owner'[c] = owner[c]
        /\ handles'[c] = handles[c] + 3 /\ opening'[c] = opening[c] + 1
        /\ lockingMode'[c] = lockingMode[c]
        /\ retryResult'[c] = retryResult[c] /\ lockState'[c] = lockState[c]
    BY <1>4 DEF JOpen, RetryOpen, settings, TypeOK, Set
  <2>2. \A j \in Ids : asking'[c][j] = "open" <=> asking[c][j] = "open"
    <3>1. asking' = [asking EXCEPT ![c][i] = "busy"]
      BY <1>4, Zenon DEF JOpen
    <3> QED BY <1>2, <3>1 DEF TypeOK
  <2>3. ~opened[c] /\ opening[c] = 0
    BY <1>1, <1>2, <1>4 DEF Duplicate, ConnOK, FileLife, Typed, Ids
  <2> USE DEF ConnOK, FileLife, ResultIsAsked, OpIsAwaited, LevelFits, IsolationFits,
      ModeFits, LocksFit, RestsLazily, Keeps, Holds, Waiting, LockOf, ModeOf, Typed, Locks
  <2> QED BY <1>1, <1>2, <1>4, <2>1, <2>2, <2>3
<1>5. CASE ~Duplicate(c, i) /\ retryResult[c] = "error"
  <2>1. /\ known'[c] = FALSE /\ opened'[c] = opened[c] /\ owner'[c] = owner[c]
        /\ handles'[c] = handles[c] /\ opening'[c] = opening[c]
        /\ lockingMode'[c] = lockingMode[c]
        /\ retryResult'[c] = "null" /\ lockState'[c] = lockState[c]
    BY <1>5 DEF JOpen, settings, TypeOK, Set
  <2>2. \A j \in Ids : asking'[c][j] = "open" <=> asking[c][j] = "open"
    <3>1. asking' = [asking EXCEPT ![c][i] = "no"]
      BY <1>5, Zenon DEF JOpen
    <3> QED BY <1>2, <3>1 DEF TypeOK
  <2>3. ~opened[c]
    BY <1>1, <1>2, <1>5 DEF Duplicate, ConnOK, FileLife, Typed, ResultIsAsked
  <2> USE DEF ConnOK, FileLife, ResultIsAsked, OpIsAwaited, LevelFits, IsolationFits,
      ModeFits, LocksFit, RestsLazily, Keeps, Holds, Waiting, LockOf, ModeOf, Typed, Locks
  <2> QED BY <1>1, <1>2, <1>5, <2>1, <2>2, <2>3
<1>6. CASE ~Duplicate(c, i) /\ retryResult[c] = "ok"
  <2>1. /\ known'[c] = known[c] /\ opened'[c] = TRUE /\ owner'[c] = i
        /\ handles'[c] = handles[c] /\ opening'[c] = opening[c]
        /\ lockingMode'[c] = "normal"
        /\ retryResult'[c] = "null" /\ lockState'[c] = "none"
    BY <1>6 DEF JOpen, TypeOK, Set
  <2>2. asking' = [asking EXCEPT ![c][i] = "open"]
    BY <1>6, Zenon DEF JOpen
  <2>3. ~opened[c]
    BY <1>1, <1>2, <1>6 DEF Duplicate, ConnOK, FileLife, Typed, ResultIsAsked
  <2>4. \A j \in Ids : asking'[c][j] = "open" <=> j = i
    BY <2>2, <2>3 DEF TypeOK, ConnOK, FileLife
  <2>5. i # 0
    BY DEF Ids
  <2> USE DEF ConnOK, FileLife, ResultIsAsked, OpIsAwaited, LevelFits, IsolationFits,
      ModeFits, LocksFit, RestsLazily, Keeps, Holds, Waiting, LockOf, ModeOf, Typed, Locks
  <2> QED BY <1>1, <1>2, <1>6, <2>1, <2>3, <2>4, <2>5
<1> QED BY <1>1, <1>3, <1>4, <1>5, <1>6 DEF Typed

\* The end of #retryOpen, with the log ready or with the handles closed.
LEMMA OpenSettlesOK ==
  ASSUME TypeOK, NEW c \in Conn, ConnOK(c), OpenSettles(c)
  PROVE  ConnOK(c)'
<1>1. Typed(c)
  BY TypedOK
<1>2. /\ known'[c] = known[c] /\ opened'[c] = opened[c] /\ owner'[c] = owner[c]
      /\ lockingMode'[c] = lockingMode[c]
      /\ isolation'[c] = isolation[c] /\ op'[c] = op[c] /\ pc'[c] = pc[c]
      /\ lock'[c] = lock[c] /\ lazy'[c] = lazy[c] /\ lockState'[c] = lockState[c]
  BY DEF OpenSettles, lockVars, callVars, settings
<1>3. opening[c] = 1 /\ opening'[c] = 0
  BY <1>1 DEF OpenSettles, TypeOK, Set, Typed
<1>4. \A j \in Ids : asking'[c][j] = "open" <=> asking[c][j] = "open"
  BY DEF OpenSettles, TypeOK
<1>5. \/ retryResult'[c] = "ok" /\ handles'[c] = handles[c]
      \/ retryResult'[c] = "error" /\ handles'[c] = handles[c] - 3
  BY DEF OpenSettles, TypeOK, Set, CloseHandles
<1> USE DEF ConnOK, FileLife, ResultIsAsked, OpIsAwaited, LevelFits, IsolationFits,
      ModeFits, LocksFit, RestsLazily, Keeps, Holds, Waiting, LockOf, ModeOf, Typed, Locks
<1> QED BY <1>1, <1>2, <1>3, <1>4, <1>5

\* jClose gives back everything that the file held.
LEMMA JCloseOK ==
  ASSUME TypeOK, NEW c \in Conn, ConnOK(c), JClose(c)
  PROVE  ConnOK(c)'
<1>1. Typed(c)
  BY TypedOK
<1>2. /\ known'[c] = FALSE /\ opened'[c] = FALSE /\ owner'[c] = 0
      /\ opening'[c] = opening[c] /\ lockingMode'[c] = lockingMode[c]
      /\ isolation'[c] = "null" /\ op'[c] = op[c] /\ pc'[c] = pc[c]
      /\ lockState'[c] = lockState[c] /\ retryResult'[c] = "null"
      /\ handles'[c] = handles[c] - 3
  BY DEF JClose, callVars, settings, TypeOK, Set, CloseHandles
<1>3. lock'[c]["read"] = "none" /\ lock'[c]["write"] = "none" /\ lazy'[c] = {}
  BY DEF JClose, TypeOK, Set, Locks
<1>4. opened[c] /\ pc[c] = "idle" /\ op[c] = "none" /\ lockState[c] = "none"
  BY DEF JClose
<1>5. \A j \in Ids : asking'[c][j] # "open"
  <2>1. asking'[c] = [asking[c] EXCEPT ![owner[c]] = "no"]
    BY DEF JClose, TypeOK
  <2> QED BY <2>1, <1>4 DEF ConnOK, FileLife, TypeOK
<1> USE DEF ConnOK, FileLife, ResultIsAsked, OpIsAwaited, LevelFits, IsolationFits,
      ModeFits, LocksFit, RestsLazily, Keeps, Holds, Waiting, LockOf, ModeOf, Typed, Locks
<1> QED BY <1>1, <1>2, <1>3, <1>4, <1>5

\* jLock(SHARED), whether it asks for a lock, finds it held, or is called again
\* with the result of an operation.
LEMMA JLockSharedOK ==
  ASSUME TypeOK, NEW c \in Conn, ConnOK(c), JLockShared(c)
  PROVE  ConnOK(c)'
<1>1. Typed(c)
  BY TypedOK
<1>2. FileSame(c) /\ pc[c] = "lockShared"
  BY DEF JLockShared, fileVars, settings, FileSame
<1>3. CASE retryResult[c] = "error"
  <2>1. /\ retryResult'[c] = "null" /\ lockState'[c] = lockState[c]
        /\ isolation'[c] = isolation[c]
        /\ op'[c] = op[c] /\ lock'[c] = lock[c] /\ lazy'[c] = lazy[c]
        /\ pc'[c] = IF lockingMode[c] = "exclusive" THEN "idle" ELSE "unlockEnd"
    BY <1>3 DEF JLockShared, TypeOK, lockVars, Set, AfterError
  <2> USE DEF ConnOK, FileLife, ResultIsAsked, OpIsAwaited, LevelFits, IsolationFits,
      ModeFits, LocksFit, RestsLazily, Keeps, Holds, Waiting, LockOf, ModeOf, Typed, Locks
  <2> QED BY <1>1, <1>2, <1>3, <2>1 DEF FileSame
<1>4. CASE retryResult[c] = "ok"
  <2>1. /\ retryResult'[c] = "null" /\ lockState'[c] = "shared"
        /\ isolation'[c] = isolation[c]
        /\ op'[c] = op[c] /\ lock'[c] = lock[c] /\ lazy'[c] = lazy[c]
        /\ pc'[c] \in {"inside", "lockReserved"}
    BY <1>4 DEF JLockShared, TypeOK, lockVars, Set, AfterShared
  <2> USE DEF ConnOK, FileLife, ResultIsAsked, OpIsAwaited, LevelFits, IsolationFits,
      ModeFits, LocksFit, RestsLazily, Keeps, Holds, Waiting, LockOf, ModeOf, Typed, Locks
  <2> QED BY <1>1, <1>2, <1>4, <2>1 DEF FileSame
<1>5. CASE retryResult[c] = "null" /\ lockingMode[c] = "exclusive"
  <2>1. /\ retryResult'[c] = "ok" /\ lockState'[c] = lockState[c]
        /\ isolation'[c] = isolation[c]
        /\ op'[c] = "exclusive" /\ pc'[c] = "blocked"
    BY <1>5 DEF JLockShared, TypeOK, Set, Busy, Request, AfterBusy
  <2>2. /\ lock'[c]["read"] \in {"none", "exclusive"}
        /\ lock'[c]["write"] = lock[c]["write"] /\ lazy'[c] = lazy[c] \ {"read"}
    BY <1>1, <1>5 DEF JLockShared, TypeOK, Set, Busy, Request, LockOf, ModeOf, Locks
  <2> USE DEF ConnOK, FileLife, ResultIsAsked, OpIsAwaited, LevelFits, IsolationFits,
      ModeFits, LocksFit, RestsLazily, Keeps, Holds, Waiting, LockOf, ModeOf, Typed, Locks
  <2> QED BY <1>1, <1>2, <1>5, <2>1, <2>2 DEF FileSame
<1>6. CASE retryResult[c] = "null" /\ lockingMode[c] = "normal"
  <2> DEFINE o == IF writeHint[c] THEN "write" ELSE "read"
  <2>1. o \in {"read", "write"} /\ LockOf(o) = o
    BY DEF LockOf
  <2>2. CASE Busy(c, o) /\ lock[c][o] # ModeOf(o)
                        /\ UNCHANGED <<retryResult, lockState, isolation, stale>>
    <3>1. /\ retryResult'[c] = "null" /\ lockState'[c] = lockState[c]
          /\ isolation'[c] = isolation[c]
          /\ op'[c] = o /\ pc'[c] = "unlockBusy"
      BY <1>6, <2>2 DEF TypeOK, Set, Busy, Request, AfterBusy
    <3>2. /\ lock'[c][o] = "none" /\ lazy'[c] = lazy[c] \ {o}
          /\ \A l \in Locks \ {o} : lock'[c][l] = lock[c][l]
      BY <2>1, <2>2 DEF TypeOK, Set, Busy, Request, Locks
    <3> HIDE DEF o
    <3> USE DEF ConnOK, FileLife, ResultIsAsked, OpIsAwaited, LevelFits, IsolationFits,
      ModeFits, LocksFit, RestsLazily, Keeps, Holds, Waiting, LockOf, ModeOf, Typed, Locks
    <3> QED BY <1>1, <1>2, <1>6, <2>1, <3>1, <3>2 DEF FileSame
  <2>3. CASE AcquireIfHeld(c, o, ModeOf(o)) /\ Isolate(c, o) /\ AfterShared(c)
             /\ lockState' = Set(lockState, c, "shared") /\ UNCHANGED <<retryResult, op>>
    <3>1. /\ retryResult'[c] = "null" /\ lockState'[c] = "shared"
          /\ isolation'[c] = o /\ isolation[c] = "null"
          /\ op'[c] = op[c] /\ pc'[c] \in {"inside", "lockReserved"}
      BY <1>6, <2>3 DEF TypeOK, Set, Isolate, AfterShared
    <3>2. lock'[c] = lock[c] /\ lock[c][o] = ModeOf(o) /\ lazy'[c] = lazy[c] \ {o}
      BY <2>1, <2>3 DEF TypeOK, Set, AcquireIfHeld
    <3> HIDE DEF o
    <3> USE DEF ConnOK, FileLife, ResultIsAsked, OpIsAwaited, LevelFits, IsolationFits,
      ModeFits, LocksFit, RestsLazily, Keeps, Holds, Waiting, LockOf, ModeOf, Typed, Locks
    <3> QED BY <1>1, <1>2, <1>6, <2>1, <3>1, <3>2 DEF FileSame
  <2> QED BY <1>6, <2>1, <2>2, <2>3 DEF JLockShared
<1> QED BY <1>1, <1>3, <1>4, <1>5, <1>6 DEF Typed

\* jLock(RESERVED): refused, already isolated, upgraded at once, or deferred.
LEMMA JLockReservedOK ==
  ASSUME TypeOK, NEW c \in Conn, ConnOK(c), JLockReserved(c)
  PROVE  ConnOK(c)'
<1>1. Typed(c)
  BY TypedOK
<1>2. FileSame(c) /\ pc[c] = "lockReserved"
  BY DEF JLockReserved, fileVars, settings, FileSame
<1>3. StatementFails(c) =>
        pc'[c] \in {"inside", IF lockingMode[c] = "exclusive" THEN "idle" ELSE "unlockEnd"}
  BY DEF StatementFails, AfterError, TypeOK, Set
<1>4. CASE retryResult[c] = "error"
  <2>1. /\ retryResult'[c] = "null" /\ lockState'[c] = lockState[c]
        /\ isolation'[c] = isolation[c] /\ op'[c] = op[c]
        /\ lock'[c] = lock[c] /\ lazy'[c] = lazy[c] /\ StatementFails(c)
    BY <1>4 DEF JLockReserved, TypeOK, lockVars, Set
  <2> USE DEF ConnOK, FileLife, ResultIsAsked, OpIsAwaited, LevelFits, IsolationFits,
      ModeFits, LocksFit, RestsLazily, Keeps, Holds, Waiting, LockOf, ModeOf, Typed, Locks
  <2> QED BY <1>1, <1>2, <1>3, <1>4, <2>1 DEF FileSame
<1>5. CASE retryResult[c] # "error" /\ isolation[c] = "write"
  <2>1. /\ retryResult'[c] = "null" /\ lockState'[c] = "reserved"
        /\ isolation'[c] = isolation[c] /\ op'[c] = op[c] /\ pc'[c] = "inside"
        /\ lock'[c] = lock[c] /\ lazy'[c] = lazy[c]
    BY <1>5 DEF JLockReserved, TypeOK, lockVars, Set
  <2> USE DEF ConnOK, FileLife, ResultIsAsked, OpIsAwaited, LevelFits, IsolationFits,
      ModeFits, LocksFit, RestsLazily, Keeps, Holds, Waiting, LockOf, ModeOf, Typed, Locks
  <2> QED BY <1>1, <1>2, <1>5, <2>1 DEF FileSame
<1>6. CASE retryResult[c] # "error" /\ isolation[c] = "read" /\ lock[c]["write"] = "exclusive"
  <2>1. CASE TryUpgrade(c)
    <3>1. /\ retryResult'[c] = "null" /\ lockState'[c] = "reserved"
          /\ isolation'[c] = "write" /\ op'[c] = op[c] /\ pc'[c] = "inside"
          /\ lock'[c] = lock[c] /\ lazy'[c] = lazy[c] \ {"write"} /\ ~stale[c]
      BY <1>6, <2>1 DEF JLockReserved, TypeOK, AcquireIfHeld, TryUpgrade, Set
    <3> USE DEF ConnOK, FileLife, ResultIsAsked, OpIsAwaited, LevelFits, IsolationFits,
      ModeFits, LocksFit, RestsLazily, Keeps, Holds, Waiting, LockOf, ModeOf, Typed, Locks
    <3> QED BY <1>1, <1>2, <1>6, <3>1 DEF FileSame
  <2>2. CASE ~TryUpgrade(c)
    <3>1. /\ retryResult'[c] = retryResult[c] /\ lockState'[c] = lockState[c]
          /\ isolation'[c] = isolation[c] /\ op'[c] = op[c] /\ StatementFails(c)
      BY <1>6, <2>2 DEF JLockReserved, TypeOK
    <3>2. /\ lock'[c]["read"] = lock[c]["read"] /\ lock'[c]["write"] = "none"
          /\ lazy'[c] = lazy[c] \ {"write"}
      BY <1>6, <2>2 DEF JLockReserved, TypeOK, Release, Set, Locks
    <3> USE DEF ConnOK, FileLife, ResultIsAsked, OpIsAwaited, LevelFits, IsolationFits,
      ModeFits, LocksFit, RestsLazily, Keeps, Holds, Waiting, LockOf, ModeOf, Typed, Locks
    <3> QED BY <1>1, <1>2, <1>3, <1>6, <3>1, <3>2 DEF FileSame
  <2> QED BY <2>1, <2>2
<1>7. CASE retryResult[c] # "error" /\ isolation[c] # "write" /\ lock[c]["write"] # "exclusive"
  <2>1. /\ retryResult'[c] = "ok" /\ lockState'[c] = lockState[c]
        /\ isolation'[c] = isolation[c] /\ op'[c] = "upgrade"
    BY <1>7 DEF JLockReserved, TypeOK, Request, Set
  <2>2. pc'[c] = "blocked" \/ (pc'[c] = "unlockBusy" /\ lockingMode[c] # "exclusive")
    BY <1>7 DEF JLockReserved, TypeOK, AfterBusy, Set
  <2>3. /\ lock'[c]["read"] = lock[c]["read"] /\ lock'[c]["write"] = "none"
        /\ lazy'[c] = lazy[c] \ {"write"}
    BY <1>7 DEF JLockReserved, TypeOK, Request, LockOf, ModeOf, Set, Locks
  <2> USE DEF ConnOK, FileLife, ResultIsAsked, OpIsAwaited, LevelFits, IsolationFits,
      ModeFits, LocksFit, RestsLazily, Keeps, Holds, Waiting, LockOf, ModeOf, Typed, Locks
  <2> QED BY <1>1, <1>2, <1>7, <2>1, <2>2, <2>3 DEF FileSame
<1> QED BY <1>4, <1>5, <1>6, <1>7 DEF JLockReserved

\* jUnlock(NONE), with and without a result that waits.
LEMMA JUnlockOK ==
  ASSUME TypeOK, NEW c \in Conn, ConnOK(c), JUnlock(c)
  PROVE  ConnOK(c)'
<1>1. Typed(c)
  BY TypedOK
<1>2. FileSame(c) /\ pc[c] \in {"unlockBusy", "unlockEnd"}
  BY DEF JUnlock, fileVars, FileSame
<1>3. /\ lockState'[c] = "none" /\ retryResult'[c] = retryResult[c] /\ op'[c] = op[c]
      /\ pc'[c] = IF pc[c] = "unlockBusy" THEN "blocked" ELSE "idle"
  BY DEF JUnlock, TypeOK, Set
<1>4. CASE NothingToRetry(c)
  <2>1. isolation'[c] = "null" /\ retryResult[c] = "null"
    BY <1>4 DEF JUnlock, NothingToRetry, Rejoin, TypeOK, Set
  <2>2. /\ \A l \in Locks : lock'[c][l] = IF l \in useLazyLock[c] THEN lock[c][l] ELSE "none"
        /\ lazy'[c] = {l \in useLazyLock[c] : lock[c][l] # "none"}
    BY <1>4 DEF JUnlock, KeepLazily, TypeOK, Set
  <2>3. \A l \in Locks : lock'[c][l] = "none" \/ l \in lazy'[c]
    BY <2>2 DEF Locks
  <2>4. \A l \in Locks : lock[c][l] = "none" => lock'[c][l] = "none" /\ l \notin lazy'[c]
    BY <2>2 DEF Locks
  <2> USE DEF ConnOK, FileLife, ResultIsAsked, OpIsAwaited, LevelFits, IsolationFits,
      ModeFits, LocksFit, RestsLazily, Keeps, Holds, Waiting, LockOf, ModeOf, Typed, Locks
  <2> QED BY <1>1, <1>2, <1>3, <2>1, <2>3, <2>4 DEF FileSame
<1>5. CASE ~NothingToRetry(c)
  <2>1. /\ isolation'[c] = isolation[c]
        /\ lock'[c] = lock[c] /\ lazy'[c] = lazy[c]
        /\ retryResult[c] # "null"
    BY <1>5 DEF JUnlock, NothingToRetry
  <2> USE DEF ConnOK, FileLife, ResultIsAsked, OpIsAwaited, LevelFits, IsolationFits,
      ModeFits, LocksFit, RestsLazily, Keeps, Holds, Waiting, LockOf, ModeOf, Typed, Locks
  <2> QED BY <1>1, <1>2, <1>3, <2>1 DEF FileSame
<1> QED BY <1>4, <1>5

\* SQLite calls jLock again at the level it still believes in.
LEMMA CallAgainOK ==
  ASSUME TypeOK, NEW c \in Conn, ConnOK(c), CallAgain(c)
  PROVE  ConnOK(c)'
<1>1. Typed(c)
  BY TypedOK
<1>2. /\ FileSame(c) /\ retryResult'[c] = retryResult[c] /\ lockState'[c] = lockState[c]
      /\ isolation'[c] = isolation[c] /\ op'[c] = op[c]
      /\ lock'[c] = lock[c] /\ lazy'[c] = lazy[c]
  BY DEF CallAgain, fileVars, lockVars, settings, FileSame
<1>3. /\ pc[c] = "blocked" /\ op[c] = "none"
      /\ pc'[c] = IF lockState[c] = "none" THEN "lockShared" ELSE "lockReserved"
  BY DEF CallAgain, TypeOK, Set
<1> USE DEF ConnOK, FileLife, ResultIsAsked, OpIsAwaited, LevelFits, IsolationFits,
      ModeFits, LocksFit, RestsLazily, Keeps, Holds, Waiting, LockOf, ModeOf, Typed, Locks
<1> QED BY <1>1, <1>2, <1>3 DEF FileSame

\* What the lock manager's answer does to the locks of the connection.
LEMMA GrantEffect ==
  ASSUME TypeOK, NEW c \in Conn, Waiting(c), lock' = LockAfterGrant(c)
  PROVE  /\ lock'[c][LockOf(op[c])] = ModeOf(op[c])
         /\ \A l \in Locks \ {LockOf(op[c])} : lock'[c][l] = lock[c][l]
         /\ LockOf(op[c]) \in Locks
BY DEF TypeOK, LockAfterGrant, LockOf, ModeOf, Locks

\* #retryLockRead when the read lock is granted.
LEMMA ReadLockGrantedOK ==
  ASSUME TypeOK, NEW c \in Conn, ConnOK(c), ReadLockGranted(c)
  PROVE  ConnOK(c)'
<1>1. Typed(c)
  BY TypedOK
<1>2. /\ FileSame(c) /\ lockState'[c] = lockState[c] /\ pc'[c] = pc[c] /\ lazy'[c] = lazy[c]
  BY DEF ReadLockGranted, fileVars, settings, callVars, FileSame
<1>3. op[c] = "read" /\ Waiting(c) /\ pc[c] # "unlockBusy" /\ pc[c] # "unlockEnd"
  BY DEF ReadLockGranted, Answered
<1>4. /\ retryResult'[c] = "ok" /\ isolation'[c] = "read" /\ op'[c] = "none"
      /\ isolation[c] = "null"
  BY DEF ReadLockGranted, Isolate, TypeOK, Set
<1>5. lock'[c]["read"] = "shared" /\ lock'[c]["write"] = lock[c]["write"]
  BY <1>3, GrantEffect DEF ReadLockGranted, LockOf, ModeOf, Locks
<1> USE DEF ConnOK, FileLife, ResultIsAsked, OpIsAwaited, LevelFits, IsolationFits,
      ModeFits, LocksFit, RestsLazily, Keeps, Holds, Waiting, LockOf, ModeOf, Typed, Locks
<1> QED BY <1>1, <1>2, <1>3, <1>4, <1>5 DEF FileSame

\* #retryLockWrite in exclusive mode, when the first of its two locks is granted.
LEMMA ExclusiveReadGrantedOK ==
  ASSUME TypeOK, NEW c \in Conn, ConnOK(c), ExclusiveReadGranted(c)
  PROVE  ConnOK(c)'
<1>1. Typed(c)
  BY TypedOK
<1>2. /\ FileSame(c) /\ retryResult'[c] = retryResult[c] /\ lockState'[c] = lockState[c]
      /\ isolation'[c] = isolation[c] /\ pc'[c] = pc[c]
  BY DEF ExclusiveReadGranted, fileVars, settings, callVars, FileSame
<1>3. op[c] = "exclusive" /\ pc[c] # "unlockBusy" /\ pc[c] # "unlockEnd"
  BY DEF ExclusiveReadGranted, Answered
<1>4. op'[c] = "exclusiveWrite" /\ lazy'[c] = {}
  BY DEF ExclusiveReadGranted, TypeOK, Set
<1>5. lock'[c]["read"] = "exclusive" /\ lock'[c]["write"] \in {"none", "exclusive"}
  BY <1>3 DEF ExclusiveReadGranted, LockAfterGrant, LockOf, ModeOf, TypeOK, Locks
<1> USE DEF ConnOK, FileLife, ResultIsAsked, OpIsAwaited, LevelFits, IsolationFits,
      ModeFits, LocksFit, RestsLazily, Keeps, Holds, Waiting, LockOf, ModeOf, Typed, Locks
<1> QED BY <1>1, <1>2, <1>3, <1>4, <1>5 DEF FileSame

\* #retryLockWrite when the write lock is granted.
LEMMA WriteLockGrantedOK ==
  ASSUME TypeOK, NEW c \in Conn, ConnOK(c), WriteLockGranted(c)
  PROVE  ConnOK(c)'
<1>1. Typed(c)
  BY TypedOK
<1>2. /\ FileSame(c) /\ lockState'[c] = lockState[c] /\ pc'[c] = pc[c] /\ lazy'[c] = lazy[c]
  BY DEF WriteLockGranted, fileVars, settings, callVars, FileSame
<1>3. /\ op[c] \in {"write", "exclusiveWrite"} /\ Waiting(c)
      /\ pc[c] # "unlockBusy" /\ pc[c] # "unlockEnd"
  BY DEF WriteLockGranted, Answered
<1>4. /\ retryResult'[c] = "ok" /\ isolation'[c] = "write" /\ op'[c] = "none"
      /\ isolation[c] = "null"
  BY DEF WriteLockGranted, Isolate, TypeOK, Set
<1>5. lock'[c]["write"] = "exclusive" /\ lock'[c]["read"] = lock[c]["read"]
  BY <1>3, GrantEffect DEF WriteLockGranted, LockOf, ModeOf, Locks
<1> USE DEF ConnOK, FileLife, ResultIsAsked, OpIsAwaited, LevelFits, IsolationFits,
      ModeFits, LocksFit, RestsLazily, Keeps, Holds, Waiting, LockOf, ModeOf, Typed, Locks
<1> QED BY <1>1, <1>2, <1>3, <1>4, <1>5 DEF FileSame

\* #retryUpgradeDeferredWrite, when the view is current and when it is not.
LEMMA UpgradeGrantedOK ==
  ASSUME TypeOK, NEW c \in Conn, ConnOK(c), UpgradeGranted(c)
  PROVE  ConnOK(c)'
<1>1. Typed(c)
  BY TypedOK
<1>2. /\ FileSame(c) /\ lockState'[c] = lockState[c] /\ pc'[c] = pc[c] /\ lazy'[c] = lazy[c]
  BY DEF UpgradeGranted, fileVars, settings, callVars, FileSame
<1>3. op[c] = "upgrade" /\ Waiting(c) /\ pc[c] # "unlockBusy" /\ pc[c] # "unlockEnd"
  BY DEF UpgradeGranted, Answered
<1>4. op'[c] = "none"
  BY DEF UpgradeGranted, TypeOK, Set
<1>5. CASE TryUpgrade(c)
  <2>1. retryResult'[c] = "ok" /\ isolation'[c] = "write" /\ ~stale[c]
    BY <1>5 DEF UpgradeGranted, TryUpgrade, TypeOK, Set
  <2>2. lock'[c]["write"] = "exclusive" /\ lock'[c]["read"] = lock[c]["read"]
    BY <1>3, <1>5, GrantEffect DEF UpgradeGranted, LockOf, ModeOf, Locks
  <2> USE DEF ConnOK, FileLife, ResultIsAsked, OpIsAwaited, LevelFits, IsolationFits,
      ModeFits, LocksFit, RestsLazily, Keeps, Holds, Waiting, LockOf, ModeOf, Typed, Locks
  <2> QED BY <1>1, <1>2, <1>3, <1>4, <2>1, <2>2 DEF FileSame
<1>6. CASE ~TryUpgrade(c)
  <2>1. retryResult'[c] = "error" /\ isolation'[c] = isolation[c]
    BY <1>6 DEF UpgradeGranted, TypeOK, Set
  <2>2. lock'[c]["write"] = "none" /\ lock'[c]["read"] = lock[c]["read"]
    BY <1>6 DEF UpgradeGranted, TypeOK, Locks
  <2> USE DEF ConnOK, FileLife, ResultIsAsked, OpIsAwaited, LevelFits, IsolationFits,
      ModeFits, LocksFit, RestsLazily, Keeps, Holds, Waiting, LockOf, ModeOf, Typed, Locks
  <2> QED BY <1>1, <1>2, <1>3, <1>4, <2>1, <2>2 DEF FileSame
<1> QED BY <1>5, <1>6

\* #pendingCheckpoint when the write lock is granted: the copy begins, or
\* isolateForWrite throws.
LEMMA CheckpointGrantedOK ==
  ASSUME TypeOK, NEW c \in Conn, ConnOK(c), CheckpointGranted(c)
  PROVE  ConnOK(c)'
<1>1. Typed(c)
  BY TypedOK
<1>2. /\ FileSame(c) /\ retryResult'[c] = retryResult[c] /\ lockState'[c] = lockState[c]
      /\ pc'[c] = pc[c] /\ lazy'[c] = lazy[c]
  BY DEF CheckpointGranted, fileVars, settings, callVars, FileSame
<1>3. op[c] = "checkpoint" /\ Waiting(c)
  BY DEF CheckpointGranted, Waiting
<1>4. CASE isolation[c] = "null"
  <2>1. isolation'[c] = "write" /\ op'[c] = "copy"
    BY <1>4 DEF CheckpointGranted, Isolate, TypeOK, Set
  <2>2. lock'[c]["write"] = "exclusive" /\ lock'[c]["read"] = lock[c]["read"]
    BY <1>3, <1>4, GrantEffect DEF CheckpointGranted, LockOf, ModeOf, Locks
  <2> USE DEF ConnOK, FileLife, ResultIsAsked, OpIsAwaited, LevelFits, IsolationFits,
      ModeFits, LocksFit, RestsLazily, Keeps, Holds, Waiting, LockOf, ModeOf, Typed, Locks
  <2> QED BY <1>1, <1>2, <1>3, <1>4, <2>1, <2>2 DEF FileSame
<1>5. CASE isolation[c] # "null"
  <2>1. /\ isolation'[c] = isolation[c] /\ op' = Set(op, c, "none")
        /\ lock' = [lock EXCEPT ![c]["write"] = "none"]
    BY <1>5, Zenon DEF CheckpointGranted, Isolate
  <2>2. op'[c] = "none"
    BY <2>1 DEF TypeOK, Set
  <2>3. lock'[c]["write"] = "none" /\ lock'[c]["read"] = lock[c]["read"]
    BY <2>1 DEF TypeOK, Locks
  <2> USE DEF ConnOK, FileLife, ResultIsAsked, OpIsAwaited, LevelFits, IsolationFits,
      ModeFits, LocksFit, RestsLazily, Keeps, Holds, Waiting, LockOf, ModeOf, Typed, Locks
  <2> QED BY <1>1, <1>2, <1>3, <1>5, <2>1, <2>2, <2>3 DEF FileSame
<1> QED BY <1>4, <1>5

\* The end of a full checkpoint.
LEMMA CheckpointEndsOK ==
  ASSUME TypeOK, NEW c \in Conn, ConnOK(c), CheckpointEnds(c)
  PROVE  ConnOK(c)'
<1>1. Typed(c)
  BY TypedOK
<1>2. /\ FileSame(c) /\ retryResult'[c] = retryResult[c] /\ lockState'[c] = lockState[c]
      /\ pc'[c] = pc[c]
  BY DEF CheckpointEnds, fileVars, settings, callVars, FileSame
<1>3. op[c] = "copy" /\ op'[c] = "none" /\ isolation'[c] = "null"
  BY DEF CheckpointEnds, Rejoin, TypeOK, Set
<1>4. /\ lock'[c]["write"] = "none" /\ lock'[c]["read"] = lock[c]["read"]
      /\ lazy'[c] = lazy[c] \ {"write"}
  BY DEF CheckpointEnds, Release, TypeOK, Set, Locks
<1> USE DEF ConnOK, FileLife, ResultIsAsked, OpIsAwaited, LevelFits, IsolationFits,
      ModeFits, LocksFit, RestsLazily, Keeps, Holds, Waiting, LockOf, ModeOf, Typed, Locks
<1> QED BY <1>1, <1>2, <1>3, <1>4 DEF FileSame

\* busy_timeout runs out: what the operation took before is given back.
LEMMA LockTimesOutOK ==
  ASSUME TypeOK, NEW c \in Conn, ConnOK(c), LockTimesOut(c)
  PROVE  ConnOK(c)'
<1>1. Typed(c)
  BY TypedOK
<1>2. /\ FileSame(c) /\ lockState'[c] = lockState[c] /\ pc'[c] = pc[c]
      /\ isolation'[c] = isolation[c]
  BY DEF LockTimesOut, fileVars, settings, callVars, FileSame
<1>3. /\ Waiting(c) /\ op[c] # "checkpoint"
      /\ pc[c] # "unlockBusy" /\ pc[c] # "unlockEnd"
      /\ lock[c][LockOf(op[c])] # ModeOf(op[c])
      /\ retryResult'[c] = "error" /\ op'[c] = "none"
  BY DEF LockTimesOut, Answered, TypeOK, Set
<1>4. CASE op[c] \in {"exclusiveWrite", "upgrade"}
  <2> DEFINE l == IF op[c] = "exclusiveWrite" THEN "read" ELSE "write"
  <2>1. Release(c, {l})
    BY <1>4 DEF LockTimesOut
  <2>2. /\ lock'[c][l] = "none" /\ \A k \in Locks \ {l} : lock'[c][k] = lock[c][k]
        /\ lazy'[c] = lazy[c] \ {l}
    BY <2>1 DEF Release, TypeOK, Set, Locks
  <2> USE DEF ConnOK, FileLife, ResultIsAsked, OpIsAwaited, LevelFits, IsolationFits,
      ModeFits, LocksFit, RestsLazily, Keeps, Holds, Waiting, LockOf, ModeOf, Typed, Locks
  <2> QED BY <1>1, <1>2, <1>3, <1>4, <2>2 DEF FileSame
<1>5. CASE op[c] \notin {"exclusiveWrite", "upgrade"}
  <2>1. lock'[c] = lock[c] /\ lazy'[c] = lazy[c]
    BY <1>5 DEF LockTimesOut
  <2> USE DEF ConnOK, FileLife, ResultIsAsked, OpIsAwaited, LevelFits, IsolationFits,
      ModeFits, LocksFit, RestsLazily, Keeps, Holds, Waiting, LockOf, ModeOf, Typed, Locks
  <2> QED BY <1>1, <1>2, <1>3, <1>5, <2>1 DEF FileSame
<1> QED BY <1>4, <1>5

\* A full checkpoint is requested.
LEMMA CheckpointOK ==
  ASSUME TypeOK, NEW c \in Conn, ConnOK(c), Checkpoint(c)
  PROVE  ConnOK(c)'
<1>1. Typed(c)
  BY TypedOK
<1>2. /\ FileSame(c) /\ retryResult'[c] = retryResult[c] /\ lockState'[c] = lockState[c]
      /\ isolation'[c] = isolation[c] /\ pc'[c] = pc[c]
  BY DEF Checkpoint, fileVars, settings, callVars, FileSame
<1>3. opened[c] /\ op[c] = "none"
  BY Zenon DEF Checkpoint, Ready
<1>4. pc[c] \in {"idle", "inside"}
  BY Zenon DEF Checkpoint
<1>5. op'[c] = "checkpoint"
  BY DEF Checkpoint, Request, TypeOK, Set
<1>6. /\ lock'[c]["write"] \in {"none", "exclusive"} /\ lock'[c]["read"] = lock[c]["read"]
      /\ lazy'[c] = lazy[c] \ {"write"}
  BY DEF Checkpoint, Request, LockOf, ModeOf, TypeOK, Set, Locks
<1> USE DEF ConnOK, FileLife, ResultIsAsked, OpIsAwaited, LevelFits, IsolationFits,
      ModeFits, LocksFit, RestsLazily, Keeps, Holds, Waiting, LockOf, ModeOf, Typed, Locks
<1> QED BY <1>1, <1>2, <1>3, <1>4, <1>5, <1>6 DEF FileSame

\* A lock kept lazily is dropped for another connection.
LEMMA DropLazyOK ==
  ASSUME TypeOK, NEW c \in Conn, ConnOK(c), NEW l \in Locks, DropLazy(c, l)
  PROVE  ConnOK(c)'
<1>1. Typed(c)
  BY TypedOK
<1>2. /\ FileSame(c) /\ retryResult'[c] = retryResult[c] /\ lockState'[c] = lockState[c]
      /\ isolation'[c] = isolation[c] /\ pc'[c] = pc[c]
      /\ op'[c] = op[c] /\ l \in lazy[c]
  BY DEF DropLazy, fileVars, settings, callVars, FileSame
<1>3. /\ lock'[c][l] = "none" /\ \A k \in Locks \ {l} : lock'[c][k] = lock[c][k]
      /\ lazy'[c] = lazy[c] \ {l}
  BY DEF DropLazy, Release, TypeOK, Set, Locks
<1> USE DEF ConnOK, FileLife, ResultIsAsked, OpIsAwaited, LevelFits, IsolationFits,
      ModeFits, LocksFit, RestsLazily, Keeps, Holds, Waiting, LockOf, ModeOf, Typed, Locks
<1> QED BY <1>1, <1>2, <1>3 DEF FileSame

\* A statement begins.
LEMMA BeginOK ==
  ASSUME TypeOK, NEW c \in Conn, NEW w \in {"read", "write"}, ConnOK(c), Begin(c, w)
  PROVE  ConnOK(c)'
<1>1. Typed(c)
  BY TypedOK
<1>2. /\ FileSame(c) /\ retryResult'[c] = retryResult[c] /\ lockState'[c] = lockState[c]
      /\ isolation'[c] = isolation[c] /\ op'[c] = op[c]
      /\ lock'[c] = lock[c] /\ lazy'[c] = lazy[c]
  BY DEF Begin, fileVars, lockVars, settings, FileSame
<1>3. opened[c] /\ op[c] = "none" /\ pc[c] = "idle"
  BY DEF Begin, Ready
<1>4. IF lockState[c] = "none" THEN pc'[c] = "lockShared" ELSE pc'[c] \in {"inside", "lockReserved"}
  BY DEF Begin, TypeOK, Set
<1> USE DEF ConnOK, FileLife, ResultIsAsked, OpIsAwaited, LevelFits, IsolationFits,
      ModeFits, LocksFit, RestsLazily, Keeps, Holds, Waiting, LockOf, ModeOf, Typed, Locks
<1> QED BY <1>1, <1>2, <1>3, <1>4 DEF FileSame

\* A deferred transaction comes to its first write.
LEMMA WriteDeferredOK ==
  ASSUME TypeOK, NEW c \in Conn, ConnOK(c), WriteDeferred(c)
  PROVE  ConnOK(c)'
<1>1. Typed(c)
  BY TypedOK
<1>2. /\ FileSame(c) /\ retryResult'[c] = retryResult[c] /\ lockState'[c] = lockState[c]
      /\ isolation'[c] = isolation[c] /\ op'[c] = op[c]
      /\ lock'[c] = lock[c] /\ lazy'[c] = lazy[c]
  BY DEF WriteDeferred, fileVars, lockVars, settings, FileSame
<1>3. opened[c] /\ op[c] = "none" /\ pc[c] = "inside"
  BY DEF WriteDeferred, Ready
<1>4. pc'[c] = "lockReserved"
  BY DEF WriteDeferred, TypeOK, Set
<1> USE DEF ConnOK, FileLife, ResultIsAsked, OpIsAwaited, LevelFits, IsolationFits,
      ModeFits, LocksFit, RestsLazily, Keeps, Holds, Waiting, LockOf, ModeOf, Typed, Locks
<1> QED BY <1>1, <1>2, <1>3, <1>4 DEF FileSame

\* A transaction ends.
LEMMA EndOK ==
  ASSUME TypeOK, NEW c \in Conn, ConnOK(c), End(c)
  PROVE  ConnOK(c)'
<1>1. Typed(c)
  BY TypedOK
<1>2. /\ FileSame(c) /\ retryResult'[c] = retryResult[c] /\ lockState'[c] = lockState[c]
      /\ isolation'[c] = isolation[c] /\ op'[c] = op[c]
      /\ lock'[c] = lock[c] /\ lazy'[c] = lazy[c]
  BY DEF End, fileVars, lockVars, settings, FileSame
<1>3. opened[c] /\ op[c] = "none" /\ pc[c] = "inside"
  BY DEF End, Ready
<1>4. pc'[c] = IF lockingMode[c] = "exclusive" THEN "idle" ELSE "unlockEnd"
  BY DEF End, TypeOK, Set
<1> USE DEF ConnOK, FileLife, ResultIsAsked, OpIsAwaited, LevelFits, IsolationFits,
      ModeFits, LocksFit, RestsLazily, Keeps, Holds, Waiting, LockOf, ModeOf, Typed, Locks
<1> QED BY <1>1, <1>2, <1>3, <1>4 DEF FileSame

\* The message of a commit arrives.
LEMMA CatchUpOK ==
  ASSUME TypeOK, NEW c \in Conn, ConnOK(c), CatchUp(c)
  PROVE  ConnOK(c)'
<1>1. /\ FileSame(c) /\ retryResult'[c] = retryResult[c] /\ lockState'[c] = lockState[c]
      /\ isolation'[c] = isolation[c] /\ op'[c] = op[c] /\ pc'[c] = pc[c]
      /\ lock'[c] = lock[c] /\ lazy'[c] = lazy[c]
  BY DEF CatchUp, fileVars, lockVars, settings, callVars, FileSame
<1>2. isolation[c] = "null"
  BY DEF CatchUp
<1> USE DEF ConnOK, FileLife, ResultIsAsked, OpIsAwaited, LevelFits, IsolationFits,
      ModeFits, LocksFit, RestsLazily, Keeps, Holds, Waiting, LockOf, ModeOf, Typed, Locks
<1> QED BY <1>1, <1>2 DEF FileSame

\* PRAGMA locking_mode, write_hint and lazy_lock are given between statements only,
\* so a change of mode finds nothing that contradicts it.
LEMMA PragmaOK ==
  ASSUME TypeOK, NEW c \in Conn, ConnOK(c), Pragma(c)
  PROVE  ConnOK(c)'
<1>1. Typed(c)
  BY TypedOK
<1>2. /\ known'[c] = known[c] /\ opened'[c] = opened[c] /\ owner'[c] = owner[c]
      /\ handles'[c] = handles[c] /\ opening'[c] = opening[c] /\ asking'[c] = asking[c]
      /\ retryResult'[c] = retryResult[c] /\ lockState'[c] = lockState[c]
      /\ isolation'[c] = isolation[c]
      /\ op'[c] = op[c] /\ pc'[c] = pc[c] /\ lock'[c] = lock[c] /\ lazy'[c] = lazy[c]
  BY DEF Pragma, fileVars, lockVars, callVars
<1>3. op[c] = "none" /\ pc[c] = "idle"
  BY DEF Pragma, Ready
<1> USE DEF ConnOK, FileLife, ResultIsAsked, OpIsAwaited, LevelFits, IsolationFits,
      ModeFits, LocksFit, RestsLazily, Keeps, Holds, Waiting, LockOf, ModeOf, Typed, Locks
<1> QED BY <1>1, <1>2, <1>3

\* Every step keeps the invariant of the connection that takes it.
LEMMA OwnStep ==
  ASSUME TypeOK, NEW c \in Conn, ConnOK(c), Step(c)
  PROVE  ConnOK(c)'
<1>1. CASE \E i \in Ids : JOpen(c, i)
  BY <1>1, JOpenOK
<1>2. CASE OpenSettles(c) \/ JClose(c)
  BY <1>2, OpenSettlesOK, JCloseOK
<1>3. CASE Locking(c)
  BY <1>3, JLockSharedOK, JLockReservedOK, JUnlockOK, CallAgainOK DEF Locking
<1>4. CASE Answers(c)
  BY <1>4, ReadLockGrantedOK, ExclusiveReadGrantedOK, WriteLockGrantedOK, UpgradeGrantedOK,
     CheckpointGrantedOK, CheckpointEndsOK DEF Answers
<1>5. CASE LockTimesOut(c) \/ Checkpoint(c) \/ \E l \in Locks : DropLazy(c, l)
  BY <1>5, LockTimesOutOK, CheckpointOK, DropLazyOK
<1>6. CASE \E w \in {"read", "write"} : Begin(c, w)
  BY <1>6, BeginOK
<1>7. CASE WriteDeferred(c) \/ End(c) \/ CatchUp(c) \/ Pragma(c)
  BY <1>7, WriteDeferredOK, EndOK, CatchUpOK, PragmaOK
<1> QED BY <1>1, <1>2, <1>3, <1>4, <1>5, <1>6, <1>7 DEF Step

-----------------------------------------------------------------------------
(* The locks *)

\* A lock is kept, given back, or taken in a mode that fits what others hold.
LockMoves(c) ==
    \A l \in Locks :
        \/ lock'[c][l] \in {"none", lock[c][l]}
        \/ \A d \in Conn \ {c} : Compatible(lock'[c][l], lock[d][l])

\* The browser grants a request only when no other hold excludes it.
LEMMA GrantMoves ==
  ASSUME TypeOK, NEW c \in Conn, Waiting(c), Available(c), lock' = LockAfterGrant(c)
  PROVE  LockMoves(c)
<1>1. CASE lock[c][LockOf(op[c])] = ModeOf(op[c])
  BY <1>1, GrantEffect DEF LockMoves
<1>2. CASE \A d \in Conn \ {c} : Compatible(ModeOf(op[c]), lock[d][LockOf(op[c])])
  BY <1>2, GrantEffect DEF LockMoves
<1> QED BY <1>1, <1>2 DEF Available

\* Every step moves the locks of its connection in one of those ways.
LEMMA OwnLocks ==
  ASSUME TypeOK, NEW c \in Conn, Step(c)
  PROVE  LockMoves(c)
<1>1. CASE UNCHANGED lock
  BY <1>1 DEF LockMoves
<1>2. CASE \E s \in SUBSET Locks : Release(c, s)
  BY <1>2 DEF LockMoves, Release, TypeOK, Set, Locks
<1>3. CASE \E o \in {"read", "exclusive", "write", "upgrade", "checkpoint"} : Request(c, o)
  BY <1>3 DEF LockMoves, Request, TypeOK
<1>4. CASE lock' = [lock EXCEPT ![c]["write"] = "none"]
  BY <1>4 DEF LockMoves, TypeOK, Locks
<1>5. CASE Waiting(c) /\ Available(c) /\ lock' = LockAfterGrant(c)
  BY <1>5, GrantMoves
<1>6. CASE (\E i \in Ids : JOpen(c, i)) \/ OpenSettles(c)
  BY <1>1, <1>6 DEF JOpen, OpenSettles, lockVars
<1>7. CASE JClose(c)
  BY <1>7 DEF JClose, LockMoves, TypeOK, Set
<1>8. CASE JLockShared(c)
  BY <1>1, <1>3, <1>8 DEF JLockShared, Busy, AcquireIfHeld, lockVars
<1>9. CASE JLockReserved(c)
  BY <1>1, <1>2, <1>3, <1>9 DEF JLockReserved, AcquireIfHeld, lockVars, Locks
<1>10. CASE JUnlock(c)
  BY <1>10 DEF JUnlock, KeepLazily, LockMoves, TypeOK, Set
<1>11. CASE ReadLockGranted(c) \/ WriteLockGranted(c)
  BY <1>5, <1>11 DEF ReadLockGranted, WriteLockGranted, Answered
<1>12. CASE ExclusiveReadGranted(c)
  <2>1. op[c] = "exclusive" /\ Available(c)
    BY <1>12 DEF ExclusiveReadGranted
  <2>2. /\ lock'[c]["read"] = "exclusive"
        /\ lock'[c]["write"] \in {"none", lock[c]["write"]}
    BY <1>12, <2>1 DEF ExclusiveReadGranted, LockAfterGrant, LockOf, ModeOf, TypeOK, Locks
  <2>3. lock[c]["read"] = "exclusive"
        \/ \A d \in Conn \ {c} : Compatible("exclusive", lock[d]["read"])
    BY <2>1 DEF Available, LockOf, ModeOf
  <2> QED BY <2>2, <2>3 DEF LockMoves, Locks
<1>13. CASE UpgradeGranted(c)
  BY <1>4, <1>5, <1>13 DEF UpgradeGranted, Answered
<1>14. CASE CheckpointGranted(c)
  BY <1>4, <1>5, <1>14 DEF CheckpointGranted, Waiting
<1>15. CASE CheckpointEnds(c)
  BY <1>2, <1>15 DEF CheckpointEnds, Locks
<1>16. CASE LockTimesOut(c)
  BY <1>1, <1>2, <1>16 DEF LockTimesOut, Locks
<1>17. CASE Checkpoint(c) \/ \E l \in Locks : DropLazy(c, l)
  BY <1>2, <1>3, <1>17 DEF Checkpoint, DropLazy
<1>18. CASE CallAgain(c) \/ (\E w \in {"read", "write"} : Begin(c, w))
            \/ WriteDeferred(c) \/ End(c) \/ CatchUp(c) \/ Pragma(c)
  BY <1>1, <1>18 DEF CallAgain, Begin, WriteDeferred, End, CatchUp, Pragma, lockVars
<1> QED BY <1>6, <1>7, <1>8, <1>9, <1>10, <1>11, <1>12, <1>13, <1>14, <1>15, <1>16, <1>17, <1>18
        DEF Step, Locking, Answers

\* An exclusive lock keeps its one holder: a step takes a lock only in a mode
\* that fits the holds of the others, and changes no hold of theirs.
LEMMA LocksExcludeStep ==
  ASSUME TypeOK, LocksExclude, NEW c \in Conn, Step(c)
  PROVE  LocksExclude'
<1>1. LockMoves(c)
  BY OwnLocks
<1>2. \A d \in Conn : d # c => lock'[d] = lock[d]
  BY OthersStep DEF Untouched
<1>3. ASSUME NEW d \in Conn, NEW e \in Conn, NEW l \in Locks, d # e, lock'[d][l] = "exclusive"
      PROVE  lock'[e][l] = "none"
  <2>1. CASE d # c /\ e # c
    BY <1>2, <1>3, <2>1 DEF LocksExclude
  <2>2. CASE d = c
    BY <1>1, <1>2, <1>3, <2>2 DEF LocksExclude, LockMoves, Compatible
  <2>3. CASE e = c
    BY <1>1, <1>2, <1>3, <2>3 DEF LocksExclude, LockMoves, Compatible
  <2> QED BY <2>1, <2>2, <2>3
<1> QED BY <1>3 DEF LocksExclude

-----------------------------------------------------------------------------
(* The writers *)

\* The history forgets nobody while there is a writer.
LEMMA SurrenderedStays ==
  ASSUME NEW c \in Conn, NEW d \in Conn, Step(c), isolation'[d] = "write"
  PROVE  surrendered \subseteq surrendered'
<1>1. CASE UNCHANGED surrendered
  BY <1>1
<1>2. CASE Remember(c)
  BY <1>2 DEF Remember
<1> QED BY <1>1, <1>2, Zenon DEF Step, Locking, Answers, JOpen, OpenSettles, JClose, JLockShared,
        JLockReserved, JUnlock, CallAgain, ReadLockGranted, ExclusiveReadGranted,
        WriteLockGranted, UpgradeGranted, CheckpointGranted, CheckpointEnds, LockTimesOut,
        Checkpoint, DropLazy, Begin, WriteDeferred, End, CatchUp, Pragma

\* What keeps a writer: its lock, unless its own checkpoint gave it away, and
\* a view that is not behind.
StaysWriter(c) ==
    /\ isolation[c] = "write"
    /\ stale'[c] => stale[c]
    /\ Keeps(c, "write", "exclusive") => Keeps(c, "write", "exclusive")' \/ c \in surrendered'

\* What makes a writer: the lock, and a view read to the end.
TurnsWriter(c) == ~stale'[c] /\ Keeps(c, "write", "exclusive")'

\* Whoever is isolated for writing after a step of its own was so before it or
\* has taken the write lock in it.
LEMMA OwnWriter ==
  ASSUME TypeOK, NEW c \in Conn, ConnOK(c), Step(c), isolation'[c] = "write"
  PROVE  StaysWriter(c) \/ TurnsWriter(c)
<1>1. Typed(c)
  BY TypedOK
<1>2. CASE /\ isolation'[c] = isolation[c] /\ stale'[c] = stale[c]
           /\ lock'[c] = lock[c] /\ lazy'[c] = lazy[c]
  BY <1>2 DEF StaysWriter, Keeps
<1>3. CASE (\E i \in Ids : JOpen(c, i)) \/ CallAgain(c) \/ WriteDeferred(c) \/ Pragma(c)
           \/ \E w \in {"read", "write"} : Begin(c, w)
  BY <1>2, <1>3 DEF JOpen, CallAgain, WriteDeferred, Pragma, Begin, lockVars
<1>4. CASE OpenSettles(c)
  BY <1>4 DEF OpenSettles, StaysWriter, Keeps, lockVars, TypeOK, Set
<1>5. CASE JClose(c) \/ CatchUp(c) \/ CheckpointEnds(c) \/ ReadLockGranted(c)
  BY <1>5 DEF JClose, CatchUp, CheckpointEnds, Rejoin, ReadLockGranted, Isolate, TypeOK, Set
<1>6. CASE JLockShared(c)
  <2> DEFINE o == IF writeHint[c] THEN "write" ELSE "read"
  <2>1. CASE retryResult[c] # "null"
    BY <1>2, <1>6, <2>1 DEF JLockShared, lockVars
  <2>2. CASE retryResult[c] = "null" /\ UNCHANGED isolation
    BY <1>6, <2>2 DEF JLockShared, ConnOK, IsolationFits
  <2>3. CASE AcquireIfHeld(c, LockOf(o), ModeOf(o)) /\ Isolate(c, o)
    <3>1. o = "write"
      BY <2>3 DEF Isolate, TypeOK, Set
    <3> QED BY <2>3, <3>1 DEF TurnsWriter, Keeps, AcquireIfHeld, Isolate, LockOf, ModeOf, TypeOK, Set
  <2> QED BY <1>6, <2>1, <2>2, <2>3 DEF JLockShared
<1>7. CASE JLockReserved(c)
  <2>1. CASE UNCHANGED <<lockVars, isolation>>
    BY <1>2, <1>7, <2>1 DEF JLockReserved, lockVars
  <2>2. CASE isolation[c] # "write" /\ UNCHANGED isolation
    BY <2>2
  <2>3. CASE TryUpgrade(c) /\ AcquireIfHeld(c, "write", "exclusive")
    BY <1>7, <2>3 DEF JLockReserved, TryUpgrade, AcquireIfHeld, TurnsWriter, Keeps, TypeOK, Set
  <2> QED BY <1>7, <2>1, <2>2, <2>3 DEF JLockReserved
<1>8. CASE JUnlock(c)
  BY <1>2, <1>8 DEF JUnlock, Rejoin, TypeOK, Set
<1>9. CASE ExclusiveReadGranted(c)
  BY <1>9 DEF ExclusiveReadGranted, ConnOK, IsolationFits
<1>10. CASE WriteLockGranted(c)
  <2>1. Waiting(c) /\ LockOf(op[c]) = "write" /\ ModeOf(op[c]) = "exclusive"
    BY <1>10 DEF WriteLockGranted, Answered, LockOf, ModeOf
  <2>2. lock'[c]["write"] = "exclusive" /\ lazy' = lazy /\ stale'[c] = FALSE
    BY <1>10, <2>1, GrantEffect DEF WriteLockGranted, Isolate, TypeOK, Set
  <2> QED BY <2>1, <2>2 DEF TurnsWriter, Keeps, ConnOK, LocksFit
<1>11. CASE UpgradeGranted(c)
  <2>1. TryUpgrade(c)
    BY <1>11 DEF UpgradeGranted, ConnOK, IsolationFits
  <2>2. Waiting(c) /\ LockOf(op[c]) = "write" /\ ModeOf(op[c]) = "exclusive"
    BY <1>11 DEF UpgradeGranted, Answered, LockOf, ModeOf
  <2>3. lock'[c]["write"] = "exclusive" /\ lazy' = lazy /\ stale'[c] = FALSE
    BY <1>11, <2>1, <2>2, GrantEffect DEF UpgradeGranted, TryUpgrade, TypeOK
  <2> QED BY <2>2, <2>3 DEF TurnsWriter, Keeps, ConnOK, LocksFit
<1>12. CASE CheckpointGranted(c)
  <2>1. Waiting(c) /\ LockOf(op[c]) = "write" /\ ModeOf(op[c]) = "exclusive"
    BY <1>12 DEF CheckpointGranted, Waiting, LockOf, ModeOf
  <2>2. CASE Isolate(c, "write") /\ lock' = LockAfterGrant(c)
    <3>1. lock'[c]["write"] = "exclusive" /\ lazy' = lazy /\ stale'[c] = FALSE
      BY <1>12, <2>1, <2>2, GrantEffect DEF CheckpointGranted, Isolate, TypeOK, Set
    <3> QED BY <2>1, <3>1 DEF TurnsWriter, Keeps, ConnOK, LocksFit
  <2>3. CASE UNCHANGED <<isolation, stale>>
    <3>1. Surrenders(c) /\ Remember(c)
      BY <1>12, <2>3 DEF CheckpointGranted, Surrenders
    <3>2. c \in surrendered'
      BY <3>1 DEF Remember
    <3> QED BY <2>3, <3>2 DEF StaysWriter
  <2> QED BY <1>12, <2>2, <2>3 DEF CheckpointGranted
<1>13. CASE LockTimesOut(c)
  BY <1>1, <1>13 DEF LockTimesOut, Answered, Waiting, Typed, ConnOK, IsolationFits
<1>14. CASE Checkpoint(c)
  BY <1>14 DEF Checkpoint, Request, LockOf, ModeOf, StaysWriter, Keeps, TypeOK, Set
<1>15. ASSUME NEW l \in Locks, DropLazy(c, l)
       PROVE  StaysWriter(c)
  BY <1>15 DEF DropLazy, Release, StaysWriter, Keeps, TypeOK, Set, Locks
<1>16. CASE End(c)
  <2>1. stale'[c] => stale[c]
    BY <1>16, Zenon DEF End
  <2> QED BY <1>16, <2>1 DEF End, StaysWriter, Keeps, lockVars
<1> QED BY <1>3, <1>4, <1>5, <1>6, <1>7, <1>8, <1>9, <1>10, <1>11, <1>12, <1>13, <1>14, <1>15, <1>16
        DEF Step, Locking, Answers

\* A commit puts out of date only the views of connections that do not write:
\* the one that commits holds the write lock exclusively.
LEMMA StaleStep ==
  ASSUME TypeOK, LocksExclude, NEW c \in Conn, NEW d \in Conn, c # d, ConnOK(c),
         WriterFits(c), WriterFits(d), Step(c), surrendered = {}, isolation[d] = "write"
  PROVE  ~stale'[d]
<1>1. ~stale[d] /\ Keeps(d, "write", "exclusive")
  BY DEF WriterFits
<1>2. CASE End(c) /\ lockState[c] = "reserved"
  <2>1. isolation[c] = "write"
    BY <1>2 DEF ConnOK, LevelFits
  <2>2. Keeps(c, "write", "exclusive")
    BY <2>1 DEF WriterFits
  <2> QED BY <1>1, <2>2 DEF LocksExclude, Keeps, Locks
<1>3. CASE End(c) /\ lockState[c] # "reserved"
  BY <1>1, <1>3 DEF End
<1>4. CASE ~End(c)
  <2>1. UNCHANGED stale \/ stale' = Set(stale, c, FALSE)
    BY <1>4, Zenon DEF Step, Locking, Answers, JOpen, OpenSettles, JClose, JLockShared, Isolate,
       JLockReserved, JUnlock, CallAgain, ReadLockGranted, ExclusiveReadGranted,
       WriteLockGranted, UpgradeGranted, CheckpointGranted, CheckpointEnds, LockTimesOut,
       Checkpoint, DropLazy, Begin, WriteDeferred, CatchUp, Pragma
  <2> QED BY <1>1, <2>1, Zenon DEF Set, TypeOK
<1> QED BY <1>2, <1>3, <1>4

\* Every step keeps what is said of the writers.
LEMMA WriterStep ==
  ASSUME TypeOK, LocksExclude, NEW c \in Conn, NEW d \in Conn, Step(c),
         ConnOK(c), WriterFits(c), WriterFits(d)
  PROVE  WriterFits(d)'
<1> SUFFICES ASSUME isolation'[d] = "write"
             PROVE  /\ d \notin surrendered' => Keeps(d, "write", "exclusive")'
                    /\ surrendered' = {} => ~stale'[d]
  BY DEF WriterFits
<1>1. surrendered \subseteq surrendered'
  BY SurrenderedStays
<1>2. CASE d = c
  <2>1. StaysWriter(c) \/ TurnsWriter(c)
    BY <1>2, OwnWriter
  <2> QED BY <1>1, <1>2, <2>1 DEF StaysWriter, TurnsWriter, WriterFits
<1>3. CASE d # c
  <2>1. isolation[d] = "write" /\ lock'[d] = lock[d] /\ lazy'[d] = lazy[d]
    BY <1>3, OthersStep DEF Untouched
  <2>2. surrendered = {} => ~stale'[d]
    BY <1>3, <2>1, StaleStep
  <2> QED BY <1>1, <2>1, <2>2 DEF WriterFits, Keeps
<1> QED BY <1>2, <1>3

-----------------------------------------------------------------------------
(* Types *)

\* TypeOK in parts: flags, words, the files, the locks.
FlagsTyped ==
    /\ known \in [Conn -> BOOLEAN] /\ opened \in [Conn -> BOOLEAN]
    /\ writeHint \in [Conn -> BOOLEAN]
    /\ stale \in [Conn -> BOOLEAN]
WordsTyped ==
    /\ retryResult \in [Conn -> {"null", "ok", "error"}]
    /\ lockState \in [Conn -> {"none", "shared", "reserved"}]
    /\ lockingMode \in [Conn -> {"normal", "exclusive"}]
    /\ useLazyLock \in [Conn -> SUBSET Locks]
    /\ isolation \in [Conn -> {"null", "read", "write"}]
    /\ op \in [Conn -> {"none", "read", "exclusive", "exclusiveWrite", "write",
                        "upgrade", "checkpoint", "copy"}]
    /\ pc \in [Conn -> {"idle", "lockShared", "lockReserved", "blocked", "inside",
                        "unlockBusy", "unlockEnd"}]
    /\ want \in [Conn -> {"read", "write", "upgrade"}]
FilesTyped ==
    /\ owner \in [Conn -> {0} \cup Ids]
    /\ handles \in [Conn -> {0, 3}]
    /\ opening \in [Conn -> 0 .. 1]
    /\ asking \in [Conn -> [Ids -> {"no", "busy", "open"}]]
LocksTyped ==
    /\ lock \in [Conn -> [Locks -> {"none", "shared", "exclusive"}]]
    /\ lazy \in [Conn -> SUBSET Locks]
    /\ queue \in [Locks -> Seq(Conn)]

\* One value of a function is replaced.
LEMMA SetTyped ==
  ASSUME NEW T, NEW f \in [Conn -> T], NEW c \in Conn, NEW v \in T
  PROVE  Set(f, c, v) \in [Conn -> T]
BY DEF Set

\* One lock of one connection is replaced.
LEMMA LockPut ==
  ASSUME LocksTyped, NEW c \in Conn, NEW l \in Locks, NEW m \in {"none", "shared", "exclusive"}
  PROVE  [lock EXCEPT ![c][l] = m] \in [Conn -> [Locks -> {"none", "shared", "exclusive"}]]
<1>1. lock \in [Conn -> [Locks -> {"none", "shared", "exclusive"}]]
  BY DEF LocksTyped
<1> QED BY <1>1

\* Every step keeps the flags Boolean.
LEMMA FlagsStep ==
  ASSUME FlagsTyped, NEW c \in Conn, Step(c)
  PROVE  FlagsTyped'
<1> USE DEF FlagsTyped, Set
<1>1. ASSUME NEW i \in Ids, JOpen(c, i)
      PROVE  FlagsTyped'
  <2>1. known' = known \/ \E b \in BOOLEAN : known' = Set(known, c, b)
    BY <1>1, Zenon DEF JOpen
  <2>2. opened' = opened \/ opened' = Set(opened, c, TRUE)
    BY <1>1, Zenon DEF JOpen
  <2>3. writeHint' = writeHint \/ writeHint' = Set(writeHint, c, FALSE)
    BY <1>1, Zenon DEF JOpen, settings
  <2>4. stale' = stale
    BY <1>1, Zenon DEF JOpen
  <2> QED BY <2>1, <2>2, <2>3, <2>4, Zenon
<1>2. CASE OpenSettles(c) \/ JClose(c)
  BY <1>2, Zenon DEF OpenSettles, JClose, settings
<1>3. CASE UNCHANGED <<known, opened, writeHint>>
           /\ \/ UNCHANGED stale \/ stale' = Set(stale, c, FALSE)
  BY <1>3, Zenon
<1>4. CASE JLockShared(c) \/ JLockReserved(c) \/ CallAgain(c)
  BY <1>3, <1>4, Zenon DEF JLockShared, JLockReserved, CallAgain, Isolate, fileVars, settings
<1>5. CASE JUnlock(c)
  BY <1>5, Zenon DEF JUnlock, fileVars
<1>6. CASE ReadLockGranted(c) \/ WriteLockGranted(c) \/ CheckpointGranted(c)
  BY <1>3, <1>6, Zenon DEF ReadLockGranted, WriteLockGranted, CheckpointGranted, Isolate,
     fileVars, settings
<1>7. CASE ExclusiveReadGranted(c) \/ UpgradeGranted(c) \/ CheckpointEnds(c)
           \/ LockTimesOut(c) \/ Checkpoint(c) \/ \E l \in Locks : DropLazy(c, l)
  BY <1>3, <1>7, Zenon DEF ExclusiveReadGranted, UpgradeGranted, CheckpointEnds, LockTimesOut,
     Checkpoint, DropLazy, fileVars, settings
<1>8. CASE (\E w \in {"read", "write"} : Begin(c, w)) \/ WriteDeferred(c) \/ CatchUp(c)
  BY <1>3, <1>8, Zenon DEF Begin, WriteDeferred, CatchUp, fileVars, settings
<1>9. CASE End(c)
  BY <1>9, Zenon DEF End, fileVars, settings
<1>10. CASE Pragma(c)
  <2>1. writeHint' = writeHint \/ writeHint' = Set(writeHint, c, TRUE)
    BY <1>10, Zenon DEF Pragma
  <2>2. UNCHANGED <<known, opened, stale>>
    BY <1>10, Zenon DEF Pragma, fileVars
  <2> QED BY <2>1, <2>2, Zenon
<1> QED BY <1>1, <1>2, <1>4, <1>5, <1>6, <1>7, <1>8, <1>9, <1>10, Zenon DEF Step, Locking, Answers

\* Every step keeps the states and settings within their values.
LEMMA WordsStep ==
  ASSUME WordsTyped, ConnAssumption, NEW c \in Conn, Step(c)
  PROVE  WordsTyped'
<1> USE DEF WordsTyped, settings, callVars, Set
<1>1. CASE (\E i \in Ids : JOpen(c, i)) \/ OpenSettles(c) \/ JClose(c)
  BY <1>1 DEF JOpen, OpenSettles, JClose
<1>2. CASE JLockShared(c)
  BY <1>2 DEF JLockShared, Busy, Request, AfterBusy, AfterError, AfterShared, Isolate
<1>3. CASE JLockReserved(c)
  BY <1>3 DEF JLockReserved, StatementFails, Request, AfterBusy, AfterError
<1>4. CASE JUnlock(c) \/ CallAgain(c)
  BY <1>4 DEF JUnlock, Rejoin, CallAgain
<1>5. CASE Answers(c)
  BY <1>5 DEF Answers, ReadLockGranted, ExclusiveReadGranted, WriteLockGranted, UpgradeGranted,
     CheckpointGranted, CheckpointEnds, Isolate, Rejoin
<1>6. CASE LockTimesOut(c)
  BY <1>6 DEF LockTimesOut
<1>7. CASE Checkpoint(c) \/ \E l \in Locks : DropLazy(c, l)
  BY <1>7, Zenon DEF Checkpoint, DropLazy, Request
<1>8. CASE (\E w \in {"read", "write"} : Begin(c, w)) \/ WriteDeferred(c) \/ End(c) \/ CatchUp(c)
  BY <1>8 DEF Begin, WriteDeferred, End, CatchUp
<1>9. CASE Pragma(c)
  <2>1. UNCHANGED <<retryResult, lockState, isolation, op, callVars>>
    BY <1>9 DEF Pragma
  <2>2. \/ lockingMode' = lockingMode
        \/ \E m \in {"normal", "exclusive"} : lockingMode' = Set(lockingMode, c, m)
    BY <1>9, Zenon DEF Pragma
  <2>3. useLazyLock' = useLazyLock \/ \E z \in LazySettings : useLazyLock' = Set(useLazyLock, c, z)
    BY <1>9, Zenon DEF Pragma
  <2>4. LazySettings \subseteq SUBSET Locks
    BY DEF ConnAssumption, Locks
  <2>5. useLazyLock' \in [Conn -> SUBSET Locks]
    <3>1. ASSUME NEW z \in LazySettings
          PROVE  Set(useLazyLock, c, z) \in [Conn -> SUBSET Locks]
      BY <2>4, SetTyped
    <3>2. useLazyLock \in [Conn -> SUBSET Locks]
      OBVIOUS
    <3> HIDE DEF WordsTyped
    <3> QED BY <2>3, <3>1, <3>2, Zenon
  <2>6. lockingMode' \in [Conn -> {"normal", "exclusive"}]
    <3>1. ASSUME NEW m \in {"normal", "exclusive"}
          PROVE  Set(lockingMode, c, m) \in [Conn -> {"normal", "exclusive"}]
      BY SetTyped
    <3> QED BY <2>2, <3>1, Zenon
  <2> QED BY <2>1, <2>5, <2>6
<1> QED BY <1>1, <1>2, <1>3, <1>4, <1>5, <1>6, <1>7, <1>8, <1>9 DEF Step, Locking

\* Every step keeps the owner, the handles and the opens in flight typed: jOpen
\* starts a second #retryOpen only when nothing is open or on its way.
LEMMA FilesStep ==
  ASSUME TypeOK, NEW c \in Conn, ConnOK(c), Step(c)
  PROVE  FilesTyped'
<1>1. FilesTyped
  BY DEF TypeOK, FilesTyped
<1>2. CASE UNCHANGED fileVars
  BY <1>1, <1>2 DEF FilesTyped, fileVars
<1>3. ASSUME NEW i \in Ids, JOpen(c, i)
      PROVE  FilesTyped'
  <2>1. owner' = owner \/ owner' = Set(owner, c, i)
    BY <1>3, Zenon DEF JOpen
  <2>2. \E a \in {"no", "busy", "open"} : asking' = [asking EXCEPT ![c][i] = a]
    BY <1>3, Zenon DEF JOpen
  <2>3. \/ UNCHANGED <<handles, opening>>
        \/ RetryOpen(c) /\ ~Duplicate(c, i) /\ retryResult[c] = "null" /\ asking[c][i] # "open"
    BY <1>3, Zenon DEF JOpen
  <2>4. owner' \in [Conn -> {0} \cup Ids]
    BY <1>1, <2>1 DEF FilesTyped, Set
  <2>5. asking' \in [Conn -> [Ids -> {"no", "busy", "open"}]]
    BY <1>1, <2>2 DEF FilesTyped
  <2>6. CASE UNCHANGED <<handles, opening>>
    BY <1>1, <2>4, <2>5, <2>6 DEF FilesTyped
  <2>7. CASE ~Duplicate(c, i) /\ retryResult[c] = "null" /\ asking[c][i] # "open" /\ RetryOpen(c)
    <3>1. opening[c] = 0 /\ handles[c] = 0
      BY <2>7 DEF Duplicate, ConnOK, FileLife, Ids, TypeOK
    <3>2. handles' \in [Conn -> {0, 3}] /\ opening' \in [Conn -> 0 .. 1]
      BY <1>1, <2>7, <3>1 DEF FilesTyped, RetryOpen
    <3> QED BY <2>4, <2>5, <3>2 DEF FilesTyped
  <2> QED BY <2>3, <2>6, <2>7
<1>4. CASE OpenSettles(c)
  <2>1. opening[c] = 1 /\ handles[c] = 3
    BY <1>4 DEF OpenSettles, ConnOK, FileLife, TypeOK
  <2>2. /\ opening' = [opening EXCEPT ![c] = @ - 1] /\ owner' = owner
        /\ (handles' = handles \/ handles' = CloseHandles(c))
    BY <1>4 DEF OpenSettles
  <2>3. asking' \in [Conn -> [Ids -> {"no", "busy", "open"}]]
    BY <1>1, <1>4 DEF OpenSettles, FilesTyped
  <2>4. opening' \in [Conn -> 0 .. 1] /\ handles' \in [Conn -> {0, 3}]
    BY <1>1, <2>1, <2>2 DEF FilesTyped, CloseHandles
  <2>5. owner' \in [Conn -> {0} \cup Ids]
    BY <1>1, <2>2 DEF FilesTyped
  <2> QED BY <2>3, <2>4, <2>5 DEF FilesTyped
<1>5. CASE JClose(c)
  <2>1. opened[c] /\ owner[c] \in Ids /\ handles[c] = 3
    BY <1>5 DEF JClose, ConnOK, FileLife, TypeOK
  <2>2. /\ handles' = CloseHandles(c) /\ owner' = Set(owner, c, 0)
        /\ asking' = [asking EXCEPT ![c][owner[c]] = "no"] /\ UNCHANGED opening
    BY <1>5 DEF JClose
  <2> QED BY <1>1, <2>1, <2>2 DEF FilesTyped, CloseHandles, Set
<1>6. CASE Locking(c) \/ Answers(c)
  BY <1>2, <1>6, Zenon DEF Locking, JLockShared, JLockReserved, JUnlock, CallAgain, Answers,
     ReadLockGranted, ExclusiveReadGranted, WriteLockGranted, UpgradeGranted,
     CheckpointGranted, CheckpointEnds
<1>7. CASE LockTimesOut(c) \/ Checkpoint(c) \/ (\E l \in Locks : DropLazy(c, l))
           \/ (\E w \in {"read", "write"} : Begin(c, w))
           \/ WriteDeferred(c) \/ End(c) \/ CatchUp(c) \/ Pragma(c)
  BY <1>2, <1>7, Zenon DEF LockTimesOut, Checkpoint, DropLazy, Begin, WriteDeferred, End,
     CatchUp, Pragma
<1> QED BY <1>3, <1>4, <1>5, <1>6, <1>7 DEF Step

\* Every step keeps locks and queues typed: a request enters the queue of its
\* lock once and leaves it from where it stands.
LEMMA LocksStep ==
  ASSUME TypeOK, NEW c \in Conn, Step(c)
  PROVE  LocksTyped'
<1>1. LocksTyped
  BY DEF TypeOK, LocksTyped
<1>2. \A o : LockOf(o) \in Locks /\ ModeOf(o) \in {"none", "shared", "exclusive"}
  BY DEF LockOf, ModeOf, Locks
<1>3. CASE UNCHANGED lockVars
  BY <1>1, <1>3 DEF LocksTyped, lockVars
<1>4. ASSUME NEW o, Request(c, o)
      PROVE  LocksTyped'
  <2>1. LockOf(o) \in Locks /\ Append(queue[LockOf(o)], c) \in Seq(Conn)
    BY <1>1, <1>2 DEF LocksTyped
  <2>2. \/ UNCHANGED <<lock, queue>>
        \/ /\ lock' = [lock EXCEPT ![c][LockOf(o)] = "none"]
           /\ queue' = [queue EXCEPT ![LockOf(o)] = Append(@, c)]
    BY <1>4 DEF Request
  <2>3. lazy' \in [Conn -> SUBSET Locks]
    BY <1>1, <1>4 DEF Request, LocksTyped, Set
  <2>4. lock' \in [Conn -> [Locks -> {"none", "shared", "exclusive"}]]
    <3>1. [lock EXCEPT ![c][LockOf(o)] = "none"]
             \in [Conn -> [Locks -> {"none", "shared", "exclusive"}]]
      BY <1>1, <2>1, LockPut
    <3>2. lock \in [Conn -> [Locks -> {"none", "shared", "exclusive"}]]
      BY <1>1 DEF LocksTyped
    <3> QED BY <2>2, <3>1, <3>2, Zenon
  <2>5. queue' \in [Locks -> Seq(Conn)]
    BY <1>1, <2>1, <2>2 DEF LocksTyped
  <2> QED BY <2>3, <2>4, <2>5 DEF LocksTyped
<1>5. ASSUME NEW s, Release(c, s), UNCHANGED queue
      PROVE  LocksTyped'
  BY <1>1, <1>5 DEF LocksTyped, Release, Set
<1>6. ASSUME NEW l, NEW m, AcquireIfHeld(c, l, m)
      PROVE  LocksTyped'
  BY <1>1, <1>6 DEF LocksTyped, AcquireIfHeld, Set
<1>7. Available(c) => QueueAfterGrant(c) \in [Locks -> Seq(Conn)]
  BY <1>1, <1>2 DEF LocksTyped, QueueAfterGrant, Available
<1>8. LockAfterGrant(c) \in [Conn -> [Locks -> {"none", "shared", "exclusive"}]]
  BY <1>1, <1>2 DEF LocksTyped, LockAfterGrant
<1>9. \A l \in Locks : \A i \in DOMAIN queue[l] : RemoveAt(queue[l], i) \in Seq(Conn)
  BY <1>1 DEF LocksTyped, RemoveAt
<1>10. CASE (\E i \in Ids : JOpen(c, i)) \/ OpenSettles(c)
  BY <1>3, <1>10, Zenon DEF JOpen, OpenSettles
<1>11. CASE JClose(c)
  BY <1>1, <1>11 DEF JClose, LocksTyped, Set
<1>12. CASE JLockShared(c)
  BY <1>3, <1>4, <1>6, <1>12, Zenon DEF JLockShared, Busy
<1>13. CASE JLockReserved(c)
  BY <1>3, <1>4, <1>5, <1>6, <1>13, Zenon DEF JLockReserved
<1>14. CASE JUnlock(c)
  <2>1. useLazyLock[c] \subseteq Locks
    BY DEF TypeOK
  <2>2. UNCHANGED <<lock, lazy, queue>> \/ (KeepLazily(c) /\ UNCHANGED queue)
    BY <1>14 DEF JUnlock
  <2>3. lock' \in [Conn -> [Locks -> {"none", "shared", "exclusive"}]]
    BY <1>1, <2>2 DEF KeepLazily, LocksTyped, Set
  <2>4. lazy' \in [Conn -> SUBSET Locks]
    BY <1>1, <2>1, <2>2, Zenon DEF KeepLazily, LocksTyped, Set
  <2> QED BY <1>1, <2>2, <2>3, <2>4 DEF LocksTyped
<1>15. CASE ReadLockGranted(c) \/ WriteLockGranted(c)
  BY <1>1, <1>7, <1>8, <1>15 DEF ReadLockGranted, WriteLockGranted, LocksTyped
<1>16. CASE ExclusiveReadGranted(c)
  BY <1>1, <1>7, <1>8, <1>16 DEF ExclusiveReadGranted, LocksTyped, Set, Locks
<1>17. CASE UpgradeGranted(c) \/ CheckpointGranted(c)
  <2>1. lock' = LockAfterGrant(c) \/ lock' = [lock EXCEPT ![c]["write"] = "none"]
    BY <1>17, Zenon DEF UpgradeGranted, CheckpointGranted
  <2>2. queue' = QueueAfterGrant(c) /\ Available(c) /\ lazy' = lazy
    BY <1>17, Zenon DEF UpgradeGranted, CheckpointGranted
  <2>3. lock' \in [Conn -> [Locks -> {"none", "shared", "exclusive"}]]
    BY <1>1, <1>8, <2>1, LockPut DEF Locks
  <2> QED BY <1>1, <1>7, <2>2, <2>3 DEF LocksTyped
<1>18. CASE CheckpointEnds(c)
  BY <1>5, <1>18 DEF CheckpointEnds
<1>19. CASE LockTimesOut(c)
  <2>1. queue' \in [Locks -> Seq(Conn)]
    BY <1>1, <1>2, <1>9, <1>19 DEF LockTimesOut, LocksTyped
  <2>2. CASE UNCHANGED <<lock, lazy>>
    BY <1>1, <2>1, <2>2 DEF LocksTyped
  <2>3. ASSUME NEW s, Release(c, s)
        PROVE  LocksTyped'
    <3>1. lock' \in [Conn -> [Locks -> {"none", "shared", "exclusive"}]]
      BY <1>1, <2>3 DEF LocksTyped, Release, Set
    <3>2. lazy' \in [Conn -> SUBSET Locks]
      BY <1>1, <2>3 DEF LocksTyped, Release, Set
    <3> QED BY <2>1, <3>1, <3>2 DEF LocksTyped
  <2> QED BY <1>19, <2>2, <2>3 DEF LockTimesOut
<1>20. CASE Checkpoint(c) \/ (\E l \in Locks : DropLazy(c, l))
  BY <1>4, <1>5, <1>20, Zenon DEF Checkpoint, DropLazy
<1>21. CASE CallAgain(c) \/ (\E w \in {"read", "write"} : Begin(c, w))
           \/ WriteDeferred(c) \/ End(c) \/ CatchUp(c) \/ Pragma(c)
  BY <1>3, <1>21, Zenon DEF CallAgain, Begin, WriteDeferred, End, CatchUp, Pragma
<1> QED BY <1>10, <1>11, <1>12, <1>13, <1>14, <1>15, <1>16, <1>17, <1>18, <1>19, <1>20, <1>21
        DEF Step, Locking, Answers

\* Only connections are remembered.
LEMMA SurrenderedStep ==
  ASSUME surrendered \subseteq Conn, NEW c \in Conn, Step(c)
  PROVE  surrendered' \subseteq Conn
<1>1. CASE UNCHANGED surrendered
  BY <1>1
<1>2. CASE Remember(c)
  BY <1>2 DEF Remember
<1> QED BY <1>1, <1>2, Zenon DEF Step, Locking, Answers, JOpen, OpenSettles, JClose, JLockShared,
        JLockReserved, JUnlock, CallAgain, ReadLockGranted, ExclusiveReadGranted,
        WriteLockGranted, UpgradeGranted, CheckpointGranted, CheckpointEnds, LockTimesOut,
        Checkpoint, DropLazy, Begin, WriteDeferred, End, CatchUp, Pragma

\* Every step keeps the types.
LEMMA TypeOKStep ==
  ASSUME TypeOK, ConnAssumption, NEW c \in Conn, ConnOK(c), Step(c)
  PROVE  TypeOK'
<1>1. FlagsTyped'
  BY FlagsStep DEF TypeOK, FlagsTyped
<1>2. WordsTyped'
  BY WordsStep DEF TypeOK, WordsTyped
<1>3. FilesTyped' /\ LocksTyped'
  BY FilesStep, LocksStep
<1>4. surrendered' \subseteq Conn
  BY SurrenderedStep DEF TypeOK
<1> QED BY <1>1, <1>2, <1>3, <1>4 DEF TypeOK, FlagsTyped, WordsTyped, FilesTyped, LocksTyped

-----------------------------------------------------------------------------
(* The invariant *)

\* The invariant holds before any worker has opened the database.
LEMMA ConnInit == ConnAssumption /\ Init => ConnInv
<1> SUFFICES ASSUME Init PROVE ConnInv
  OBVIOUS
<1>1. TypeOK
  <2>1. queue \in [Locks -> Seq(Conn)] /\ lazy \in [Conn -> SUBSET Locks]
    BY DEF Init
  <2>2. FlagsTyped
    BY Zenon DEF Init, FlagsTyped
  <2>3. WordsTyped
    BY DEF Init, WordsTyped
  <2>4. FilesTyped
    BY DEF Init, FilesTyped
  <2>5. lock \in [Conn -> [Locks -> {"none", "shared", "exclusive"}]]
    BY DEF Init
  <2>6. surrendered \subseteq Conn
    BY DEF Init
  <2> QED BY <2>1, <2>2, <2>3, <2>4, <2>5, <2>6 DEF TypeOK, FlagsTyped, WordsTyped, FilesTyped
<1>2. LocksExclude
  BY DEF Init, LocksExclude
<1>3. ASSUME NEW c \in Conn
      PROVE  ConnOK(c) /\ WriterFits(c)
  <2>1. /\ known[c] = FALSE /\ opened[c] = FALSE /\ owner[c] = 0 /\ handles[c] = 0
        /\ opening[c] = 0 /\ retryResult[c] = "null" /\ lockState[c] = "none"
        /\ lockingMode[c] = "normal" /\ isolation[c] = "null" /\ op[c] = "none"
        /\ pc[c] = "idle" /\ \A i \in Ids : asking[c][i] = "no"
    BY DEF Init
  <2>2. lock[c]["read"] = "none" /\ lock[c]["write"] = "none"
    BY DEF Init, Locks
  <2> USE DEF ConnOK, FileLife, ResultIsAsked, OpIsAwaited, LevelFits, IsolationFits,
      ModeFits, LocksFit, RestsLazily, WriterFits, Keeps, Holds, Waiting, LockOf, ModeOf, Locks
  <2> QED BY <2>1, <2>2
<1> QED BY <1>1, <1>2, <1>3 DEF ConnInv

\* Every step keeps the invariant, of the connection that takes it and of the
\* others.
LEMMA ConnStep == ConnAssumption /\ ConnInv /\ [Next]_vars => ConnInv'
<1> SUFFICES ASSUME ConnAssumption, ConnInv, [Next]_vars
             PROVE  ConnInv'
  OBVIOUS
<1>1. CASE UNCHANGED vars
  <2>1. TypeOK' /\ LocksExclude'
    BY <1>1 DEF ConnInv, TypeOK, LocksExclude, vars, fileVars, lockVars, settings, callVars
  <2>2. ASSUME NEW d \in Conn
        PROVE  ConnOK(d)' /\ WriterFits(d)'
    <3>1. Untouched(d) /\ stale' = stale /\ surrendered' = surrendered
      BY <1>1 DEF Untouched, vars, fileVars, lockVars, settings, callVars
    <3>2. ConnOK(d)'
      BY <3>1, UntouchedOK DEF ConnInv
    <3>3. WriterFits(d)'
      BY <3>1 DEF ConnInv, WriterFits, Keeps, Untouched
    <3> QED BY <3>2, <3>3
  <2> QED BY <2>1, <2>2 DEF ConnInv
<1>2. ASSUME NEW c \in Conn, Step(c)
      PROVE  ConnInv'
  <2>1. TypeOK /\ LocksExclude /\ \A d \in Conn : ConnOK(d) /\ WriterFits(d)
    BY DEF ConnInv
  <2>2. TypeOK'
    BY <1>2, <2>1, TypeOKStep
  <2>3. LocksExclude'
    BY <1>2, <2>1, LocksExcludeStep
  <2>4. ASSUME NEW d \in Conn
        PROVE  ConnOK(d)'
    <3>1. CASE d = c
      BY <1>2, <2>1, <3>1, OwnStep
    <3>2. CASE d # c
      <4>1. Untouched(d)
        BY <1>2, <2>1, <3>2, OthersStep
      <4> QED BY <2>1, <4>1, UntouchedOK
    <3> QED BY <3>1, <3>2
  <2>5. ASSUME NEW d \in Conn
        PROVE  WriterFits(d)'
    BY <1>2, <2>1, WriterStep
  <2> QED BY <2>2, <2>3, <2>4, <2>5 DEF ConnInv
<1> QED BY <1>1, <1>2 DEF Next

\* The inductive invariant holds in every behaviour of jOpen, jClose, jLock,
\* jUnlock, the pragmas and the operations they leave behind.
THEOREM ConnInvariant == Spec => []ConnInv
BY ConnAssumption, ConnInit, ConnStep, PTL DEF Spec

\* Every field of a MemoryWriteAheadOpenFile keeps to its values.
THEOREM ConnTypeCorrect == Spec => []TypeOK
<1>1. ConnInv => TypeOK
  BY DEF ConnInv
<1> QED BY <1>1, ConnInvariant, PTL

\* isolateForRead and isolateForWrite hold only while the connection really has
\* the lock, and not lazily, through jLock, jUnlock, time-outs and upgrades; only
\* the connection's own full checkpoint, run in its transaction or in exclusive
\* locking mode, can take the write lock from under its isolation.
THEOREM IsolationIsBacked == Spec => []IsolationHoldsLock
<1>1. ConnInv => IsolationHoldsLock
  BY DEF ConnInv, ConnOK, LocksFit, WriterFits, IsolationHoldsLock, Keeps, Holds
<1> QED BY <1>1, ConnInvariant, PTL

\* The lock level that jLock announced is the isolation of the log, and the log
\* is not asked to isolate itself a second time.
THEOREM LevelIsBacked == Spec => []LevelIsIsolated
<1>1. ConnInv => LevelIsIsolated
  BY DEF ConnInv, ConnOK, LevelFits, IsolationFits, LevelIsIsolated
<1> QED BY <1>1, ConnInvariant, PTL

\* Between two statements outside a transaction jUnlock and the operations have
\* left no isolation, no result and no lock that is not lazy.
THEOREM RestLeavesNothing == Spec => []NothingLeftBehind
<1>1. ConnInv => NothingLeftBehind
  BY DEF ConnInv, ConnOK, ResultIsAsked, IsolationFits, RestsLazily, NothingLeftBehind, Holds, Locks
<1> QED BY <1>1, ConnInvariant, PTL

\* Who is isolated for writing has every commit in its view, whether it took the
\* write lock first or upgraded a snapshot (tryUpgradeReadIsolationToWrite), as
\* long as no writer's own full checkpoint has given its lock away.
THEOREM WriterIsCurrent == Spec => []WriterSeesAll
<1>1. ConnInv => WriterSeesAll
  BY Zenon DEF ConnInv, WriterFits, WriterSeesAll
<1> QED BY <1>1, ConnInvariant, PTL

\* A transaction in exclusive locking mode leaves no other connection isolated for
\* reading, since #retryLockWrite has taken the read lock exclusively and jUnlock
\* did not run since; nor for writing, unless the full checkpoint of one of the two
\* has given the write lock away.
THEOREM ExclusiveHasAll == Spec => []ExclusiveIsAlone
<1>1. ASSUME ConnInv, NEW c \in Conn, NEW d \in Conn, c # d,
             lockingMode[c] = "exclusive", lockState[c] # "none"
      PROVE  /\ isolation[d] # "read"
             /\ isolation[d] = "write" => surrendered \cap {c, d} # {}
  <2>1. /\ Typed(c) /\ LocksExclude
        /\ ConnOK(c) /\ ConnOK(d) /\ WriterFits(c) /\ WriterFits(d)
    BY <1>1, TypedOK DEF ConnInv
  <2>2. isolation[c] = "write" /\ op[c] # "copy"
    BY <1>1, <2>1 DEF ConnOK, LevelFits, ModeFits, Typed
  <2>3. lock[c]["read"] = "exclusive"
    BY <1>1, <2>1, <2>2 DEF ConnOK, LocksFit, Keeps
  <2>4. isolation[d] # "read"
    BY <1>1, <2>1, <2>3 DEF LocksExclude, Locks, ConnOK, LocksFit, Holds
  <2>5. ASSUME isolation[d] = "write", c \notin surrendered, d \notin surrendered
        PROVE  FALSE
    BY <1>1, <2>1, <2>2, <2>5 DEF WriterFits, Keeps, LocksExclude, Locks
  <2> QED BY <2>4, <2>5
<1>2. ConnInv => ExclusiveIsAlone
  BY <1>1 DEF ExclusiveIsAlone
<1> QED BY <1>2, ConnInvariant, PTL

\* The three shared handles are open exactly for an open file, a settled open, or
\* a #retryOpen in flight: none leaks and none is closed twice.
THEOREM HandlesCounted == Spec => []HandlesAreOwned
<1>1. ASSUME ConnInv, NEW c \in Conn
      PROVE  LET sets == {x \in {"open", "settled"} :
                        IF x = "open" THEN opened[c]
                        ELSE ~opened[c] /\ retryResult[c] = "ok"}
             IN  handles[c] = 3 * (Cardinality(sets) + opening[c])
  <2> DEFINE sets == {x \in {"open", "settled"} :
                        IF x = "open" THEN opened[c]
                        ELSE ~opened[c] /\ retryResult[c] = "ok"}
  <2>1. Typed(c) /\ FileLife(c)
    BY <1>1, TypedOK DEF ConnInv, ConnOK
  <2>2. CASE opened[c]
    <3>1. sets = {"open"}
      BY <2>2
    <3>2. Cardinality(sets) = 1
      BY <3>1, FS_Singleton
    <3> QED BY <2>1, <2>2, <3>2 DEF FileLife
  <2>3. CASE ~opened[c] /\ retryResult[c] = "ok"
    <3>1. sets = {"settled"}
      BY <2>3
    <3>2. Cardinality(sets) = 1
      BY <3>1, FS_Singleton
    <3>3. opening[c] = 0 /\ handles[c] = 3
      BY <2>1, <2>3 DEF FileLife, Typed
    <3> QED BY <3>2, <3>3
  <2>4. CASE ~opened[c] /\ retryResult[c] # "ok"
    <3>1. sets = {}
      BY <2>4
    <3>2. Cardinality(sets) = 0
      BY <3>1, FS_EmptySet
    <3> QED BY <2>1, <2>4, <3>2 DEF FileLife, Typed
  <2> QED BY <2>2, <2>3, <2>4
<1>2. ConnInv => HandlesAreOwned
  BY <1>1 DEF HandlesAreOwned
<1> QED BY <1>2, ConnInvariant, PTL

=============================================================================
