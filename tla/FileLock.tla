------------------------------ MODULE FileLock ------------------------------
(***************************************************************************)
(* The cooperative lock that guards the shared bytes of one file:          *)
(* src/src/MemoryWriteAheadVFS.ts, lines 120-258 and #withFileLock.        *)
(*                                                                         *)
(* The lock lives in three Int32 cells of shared memory that every worker  *)
(* reads and writes with Atomics: the lock word (0, +owner while held,     *)
(* -owner while a contender recovers it), the heartbeat of the holder and  *)
(* the diagnostic owner cell.  Each Atomics call is one step here, and so  *)
(* is each reading of the clock: everything a worker does between two of   *)
(* them can be overtaken by the others.  A worker can be terminated, or    *)
(* stall, before any of its steps.                                         *)
(***************************************************************************)
EXTENDS Integers

CONSTANTS
  Owner,        \* ids of the access handles, createFileLockOwnerId()
  Worker,       \* those that run in a dedicated worker and may block
  StaleMs,      \* fileLockStaleMs
  ClockMod,     \* LOCK_CLOCK_MODULO_MS
  Clock0,       \* the time at which a behaviour starts
  ClockEnd,     \* bound: the time at which the clock stops, ClockMod if never
  Punctual,     \* TRUE: time never runs MaxPause ahead of an acquirer/holder
  MaxPause,     \* the longest pause of one, when Punctual
  Mortal        \* bound: the owners that may be terminated

ASSUME OwnerAssumption == Owner \subseteq Nat \ {0}
ASSUME ClockAssumption == ClockMod \in Nat \ {0, 1} /\ StaleMs \in Nat
ASSUME StartAssumption == Clock0 \in 0 .. ClockMod - 1 /\ ClockEnd \in 0 .. ClockMod
ASSUME BoundAssumption == /\ Worker \subseteq Owner
                          /\ Punctual \in BOOLEAN
                          /\ MaxPause \in Nat /\ Mortal \subseteq Owner

VARIABLES
  word,         \* MEMORY_WRITE_AHEAD_FILE_META.lock
  heartbeat,    \* .lockHeartbeatMs, 0 until first stored
  lockOwner,    \* .lockOwner
  clock,        \* the time, modulo ClockMod
  pc,           \* per owner: the Atomics call it is about to make
  seen,         \* per owner: the lock word its recovery attempt loaded
  seenHb,       \* per owner: the heartbeat its recovery attempt loaded
  stamp,        \* per owner: the clock value it is about to store
  lag,          \* per owner: age of its last heartbeat, or of its attempt at one
  evicted       \* history: owners whose lock was recovered under them

vars == <<word, heartbeat, lockOwner, clock, pc, seen, seenHb, stamp, lag, evicted>>
cells == <<word, heartbeat, lockOwner>>

Unlocked == 0

Acquiring == {"readClock", "stamp", "cas"}
Recovering == {"loadLock", "loadHeartbeat", "judge", "claim", "recheck", "finish", "undo"}
Critical == {"name", "held", "refreshOwner", "refreshClock", "refreshStore"}
Location == {"idle", "load", "contended", "blocked", "dead"}
              \cup Acquiring \cup Recovering \cup Critical

InCritical(o) == pc[o] \in Critical

-----------------------------------------------------------------------------

\* getMemoryWriteAheadLockClockMs: 0 is reserved for "never stored".
ClockMs == IF clock = 0 THEN 1 ELSE clock

\* getMemoryWriteAheadLockAgeMs of a heartbeat that was stored at least once.
AgeMs(hb) == IF ClockMs >= hb THEN ClockMs - hb ELSE ClockMs + (ClockMod - hb)

IsStale(hb) == hb = 0 \/ AgeMs(hb) > StaleMs

Init ==
  /\ word = Unlocked /\ heartbeat = 0 /\ lockOwner = 0
  /\ clock = Clock0
  /\ pc = [o \in Owner |-> "idle"]
  /\ seen = [o \in Owner |-> 0]
  /\ seenHb = [o \in Owner |-> 0]
  /\ stamp = [o \in Owner |-> 0]
  /\ lag = [o \in Owner |-> 0]
  /\ evicted = {}

Goto(o, from, to) == pc[o] = from /\ pc' = [pc EXCEPT ![o] = to]

\* What a punctual run counts: the time since an acquirer loaded 0, then the
\* age of the heartbeat it stored last, as long as it holds the lock.
NoLag(o) == lag' = [lag EXCEPT ![o] = 0]
StampLag(o) == lag' = [lag EXCEPT ![o] = IF Punctual THEN AgeMs(stamp[o]) ELSE 0]

-----------------------------------------------------------------------------
(* acquireMemoryWriteAheadFileLock *)

\* A write or truncate enters #withFileLock.
Start(o) ==
  /\ Goto(o, "idle", "load")
  /\ UNCHANGED <<cells, clock, seen, seenHb, stamp, lag, evicted>>

LoadUnlocked(o) ==
  /\ word = Unlocked
  /\ Goto(o, "load", "readClock")
  /\ NoLag(o)
  /\ UNCHANGED <<cells, clock, seen, seenHb, stamp, evicted>>

LoadLocked(o) ==
  /\ word # Unlocked
  /\ Goto(o, "load", "loadLock")
  /\ UNCHANGED <<cells, clock, seen, seenHb, stamp, lag, evicted>>

ReadClock(o) ==
  /\ Goto(o, "readClock", "stamp")
  /\ stamp' = [stamp EXCEPT ![o] = ClockMs]
  /\ UNCHANGED <<cells, clock, seen, seenHb, lag, evicted>>

\* The heartbeat is stored before the lock is won, whoever holds it by then.
StoreStamp(o) ==
  /\ Goto(o, "stamp", "cas")
  /\ heartbeat' = stamp[o]
  /\ stamp' = [stamp EXCEPT ![o] = 0]
  /\ StampLag(o)
  /\ UNCHANGED <<word, lockOwner, clock, seen, seenHb, evicted>>

CasWins(o) ==
  /\ word = Unlocked
  /\ Goto(o, "cas", "name")
  /\ word' = o
  /\ UNCHANGED <<heartbeat, lockOwner, clock, seen, seenHb, stamp, lag, evicted>>

CasLoses(o) ==
  /\ word # Unlocked
  /\ Goto(o, "cas", "loadLock")
  /\ NoLag(o)
  /\ UNCHANGED <<cells, clock, seen, seenHb, stamp, evicted>>

StoreOwner(o) ==
  /\ Goto(o, "name", "held")
  /\ lockOwner' = o
  /\ UNCHANGED <<word, heartbeat, clock, seen, seenHb, stamp, lag, evicted>>

\* After an attempt at recovery: try again at once, or wait for the unlock.
Contend(o) ==
  /\ Goto(o, "contended", IF word = Unlocked THEN "load" ELSE "blocked")
  /\ UNCHANGED <<cells, clock, seen, seenHb, stamp, lag, evicted>>

\* waitForUnlock: Atomics.wait returns when notified, when the word is another
\* one, or after FILE_LOCK_WAIT_TIMEOUT_MS, so it may return at any time.
WaitReturns(o) ==
  /\ o \in Worker \/ word = Unlocked
  /\ Goto(o, "blocked", "load")
  /\ UNCHANGED <<cells, clock, seen, seenHb, stamp, lag, evicted>>

\* Outside a dedicated worker a contended lock throws.
WaitThrows(o) ==
  /\ o \notin Worker /\ word # Unlocked
  /\ Goto(o, "blocked", "idle")
  /\ UNCHANGED <<cells, clock, seen, seenHb, stamp, lag, evicted>>

-----------------------------------------------------------------------------
(* recoverAbandonedMemoryWriteAheadFileLock, as a contender calls it *)

Forget(o) == seen' = [seen EXCEPT ![o] = 0] /\ seenHb' = [seenHb EXCEPT ![o] = 0]

LoadLock(o) ==
  /\ Goto(o, "loadLock", IF word = Unlocked THEN "contended" ELSE "loadHeartbeat")
  /\ seen' = [seen EXCEPT ![o] = word]
  /\ UNCHANGED <<cells, clock, seenHb, stamp, lag, evicted>>

LoadHeartbeat(o) ==
  /\ Goto(o, "loadHeartbeat", "judge")
  /\ seenHb' = [seenHb EXCEPT ![o] = heartbeat]
  /\ UNCHANGED <<cells, clock, seen, stamp, lag, evicted>>

\* A lock whose heartbeat is recent is left alone, and so is a positive word
\* whose heartbeat was never stored.
JudgeFresh(o) ==
  /\ ~IsStale(seenHb[o]) \/ (seenHb[o] = 0 /\ seen[o] > 0)
  /\ Goto(o, "judge", "contended")
  /\ Forget(o)
  /\ UNCHANGED <<cells, clock, stamp, lag, evicted>>

\* Mutant: a stale lock is left alone as a fresh one is.
LeaveStale(o) == "contended"
AfterStale(o) == IF seen[o] < 0 THEN "finish" ELSE "claim"

JudgeStale(o) ==
  /\ IsStale(seenHb[o])
  /\ seenHb[o] = 0 => seen[o] < 0
  /\ Goto(o, "judge", AfterStale(o))
  /\ UNCHANGED <<cells, clock, seen, seenHb, stamp, lag, evicted>>

\* The claim -owner keeps other acquirers out until the heartbeat is rechecked.
Claim(o) ==
  /\ word = seen[o]
  /\ Goto(o, "claim", "recheck")
  /\ word' = -seen[o]
  /\ seen' = [seen EXCEPT ![o] = -seen[o]]
  /\ UNCHANGED <<heartbeat, lockOwner, clock, seenHb, stamp, lag, evicted>>

ClaimFails(o) ==
  /\ word # seen[o]
  /\ Goto(o, "claim", "contended")
  /\ Forget(o)
  /\ UNCHANGED <<cells, clock, stamp, lag, evicted>>

Recheck(o) ==
  /\ Goto(o, "recheck", IF heartbeat = seenHb[o] THEN "finish" ELSE "undo")
  /\ UNCHANGED <<cells, clock, seen, seenHb, stamp, lag, evicted>>

Undone(o) == IF word = seen[o] THEN -seen[o] ELSE word

\* The holder refreshed its heartbeat: give the lock back.
Undo(o) ==
  /\ Goto(o, "undo", "contended")
  /\ word' = Undone(o)
  /\ Forget(o)
  /\ UNCHANGED <<heartbeat, lockOwner, clock, stamp, lag, evicted>>

\* finishRecoveredFileLock
Finish(o) ==
  /\ Goto(o, "finish", "contended")
  /\ word' = IF word = seen[o] THEN Unlocked ELSE word
  /\ evicted' = IF word = seen[o]
                  THEN evicted \cup {a \in Owner : -a = seen[o] /\ InCritical(a)}
                  ELSE evicted
  /\ Forget(o)
  /\ UNCHANGED <<heartbeat, lockOwner, clock, stamp, lag>>

-----------------------------------------------------------------------------
(* The critical section: refreshMemoryWriteAheadFileLockHeartbeat and      *)
(* releaseMemoryWriteAheadFileLock.  The bytes are SharedFile's matter.    *)

RefreshLoadLock(o) ==
  /\ word = o
  /\ Goto(o, "held", "refreshOwner")
  /\ UNCHANGED <<cells, clock, seen, seenHb, stamp, lag, evicted>>

RefreshLoadOwner(o) ==
  /\ Goto(o, "refreshOwner", IF lockOwner = o THEN "refreshClock" ELSE "held")
  /\ UNCHANGED <<cells, clock, seen, seenHb, stamp, lag, evicted>>

RefreshClock(o) ==
  /\ Goto(o, "refreshClock", "refreshStore")
  /\ stamp' = [stamp EXCEPT ![o] = ClockMs]
  /\ UNCHANGED <<cells, clock, seen, seenHb, lag, evicted>>

RefreshStore(o) ==
  /\ Goto(o, "refreshStore", "held")
  /\ heartbeat' = stamp[o]
  /\ stamp' = [stamp EXCEPT ![o] = 0]
  /\ StampLag(o)
  /\ UNCHANGED <<word, lockOwner, clock, seen, seenHb, evicted>>

\* Mutant: a plain store instead of the compare-and-set.
ReleasedAnyway(o) == Unlocked
Released(o) == IF word = o THEN Unlocked ELSE word

Release(o) ==
  /\ Goto(o, "held", "idle")
  /\ word' = Released(o)
  /\ evicted' = evicted \ {o}
  /\ NoLag(o)
  /\ UNCHANGED <<heartbeat, lockOwner, clock, seen, seenHb, stamp>>

-----------------------------------------------------------------------------
(* The environment: time, and the termination of workers. *)

Paced(o) == pc[o] \in Acquiring \cup Critical

\* Mutant: the modulo is missing.
LaterUnwrapped == clock + 1
Later == (clock + 1) % ClockMod

Tick ==
  /\ Punctual => \A o \in Owner : Paced(o) => lag[o] < MaxPause
  /\ clock # ClockEnd
  /\ clock' = Later
  /\ lag' = [o \in Owner |-> IF Punctual /\ Paced(o) THEN lag[o] + 1 ELSE lag[o]]
  /\ UNCHANGED <<cells, pc, seen, seenHb, stamp, evicted>>

Crash(o) ==
  /\ o \in Mortal
  /\ pc[o] \notin {"idle", "dead"}
  /\ pc' = [pc EXCEPT ![o] = "dead"]
  /\ evicted' = evicted \ {o}
  /\ Forget(o)
  /\ stamp' = [stamp EXCEPT ![o] = 0]
  /\ NoLag(o)
  /\ UNCHANGED <<cells, clock>>

-----------------------------------------------------------------------------

Acquire(o) ==
  \/ LoadUnlocked(o) \/ LoadLocked(o) \/ ReadClock(o) \/ StoreStamp(o)
  \/ CasWins(o) \/ CasLoses(o) \/ StoreOwner(o)
  \/ Contend(o) \/ WaitReturns(o) \/ WaitThrows(o)

Recover(o) ==
  \/ LoadLock(o) \/ LoadHeartbeat(o) \/ JudgeFresh(o) \/ JudgeStale(o)
  \/ Claim(o) \/ ClaimFails(o) \/ Recheck(o) \/ Undo(o) \/ Finish(o)

Hold(o) ==
  \/ RefreshLoadLock(o) \/ RefreshLoadOwner(o) \/ RefreshClock(o) \/ RefreshStore(o)
  \/ Release(o)

Next ==
  \/ Tick
  \/ \E o \in Owner : Start(o) \/ Acquire(o) \/ Recover(o) \/ Hold(o) \/ Crash(o)

Spec == Init /\ [][Next]_vars

\* A worker that is not terminated executes its next instruction, time passes,
\* and a critical section ends: #withFileLock releases in its finally clause.
\* Nobody has to start, and nobody has to die.
Fairness ==
  /\ WF_vars(Tick)
  /\ \A o \in Owner : WF_vars(Acquire(o)) /\ WF_vars(Recover(o))
  /\ \A o \in Owner : WF_vars(Hold(o)) /\ SF_vars(Release(o))

FairSpec == Spec /\ Fairness

-----------------------------------------------------------------------------

LockWord == {Unlocked} \cup Owner \cup {-o : o \in Owner}
Time == 0 .. ClockMod - 1

TypeOK ==
  /\ word \in LockWord
  /\ heartbeat \in Time
  /\ lockOwner \in Owner \cup {0}
  /\ clock \in Time
  /\ pc \in [Owner -> Location]
  /\ seen \in [Owner -> LockWord]
  /\ seenHb \in [Owner -> Time]
  /\ stamp \in [Owner -> Time]
  /\ lag \in [Owner -> Nat]
  /\ evicted \subseteq Owner

\* What a contender remembers while it recovers a lock: a word that was not
\* free, still positive when it claims it, its own claim from then on.
SeenByRecovery ==
  \A o \in Owner :
    /\ pc[o] \in {"loadHeartbeat", "judge"} => seen[o] # Unlocked
    /\ pc[o] = "claim" => seen[o] > 0
    /\ pc[o] \in {"recheck", "finish", "undo"} => seen[o] < 0

\* Inside the critical section an owner still has the word, or only a
\* recovery claim against itself stands in it, unless a recovery has taken
\* the lock from under it: no acquisition, release or undo of another owner
\* ever overwrites the word of a holder, and a zombie's release is harmless
\* (finishRecoveredFileLock, acquire and release all compare-and-set).
HolderHasWord ==
  \A o \in Owner : InCritical(o) /\ o \notin evicted => word \in {o, -o}

\* Two owners are in the critical section together only if one of them was
\* recovered while it was still there.
MutualExclusion ==
  \A a, b \in Owner :
    InCritical(a) /\ InCritical(b) /\ a # b => a \in evicted \/ b \in evicted

\* The lock is never recovered under a holder that refreshes on time: that is
\* what the README of the repository says (line 131), and the recheck of the
\* heartbeat after a claim is there for it.  The code does not keep it: another
\* contender that meets the claim finishes it without a recheck, on a heartbeat
\* it loaded before the holder refreshed.
ProgressingHolderKeepsLock == Punctual => evicted = {}

\* An acquirer never stores its heartbeat over that of another owner, or while
\* a recovery claim stands (the comment at MemoryWriteAheadVFS.ts:138).
ContendersLeaveHeartbeat ==
  [][\A o \in Owner : pc[o] = "stamp" /\ pc'[o] = "cas" => word = Unlocked]_vars

\* The owner in the word, also while a claim against it stands.
Holder(w) == IF w < 0 THEN -w ELSE w
Abstract == INSTANCE RevocableLock WITH
              holder <- Holder(word),
              inside <- {o \in Owner : InCritical(o)},
              evicted <- evicted

\* The cells and heartbeats implement a lock that can be revoked: it has one
\* owner at a time, who loses it only by a finished recovery, gives it back
\* by itself, or leaves it behind when it is terminated.
IsRevocableLock == Abstract!Spec

Abandoned(a) == word \in {a, -a} /\ pc[a] = "dead"
Trying(b) == pc[b] \notin {"idle", "dead"} \cup Critical

\* A lock left by a terminated worker, its heartbeat stale, is recovered as
\* long as some worker keeps asking for it, even if another worker is
\* terminated in the middle of a recovery.  (A late store by an acquirer may
\* make the heartbeat recent again; then the wait starts over.)
AbandonedIsRecovered ==
  \A a \in Mortal, b \in Owner \ Mortal :
    (Abandoned(a) /\ IsStale(heartbeat) /\ Trying(b))
      ~> (~Abandoned(a) \/ ~IsStale(heartbeat) \/ ~Trying(b))
=============================================================================
