---------------------------- MODULE AttachedLock ----------------------------
(***************************************************************************)
(* The transaction lock of an attached database, and its quarantine:       *)
(* #tryLockAttachedDatabase, #retryLockAttachedDatabase and                *)
(* #releaseAttachedDatabaseLock of src/src/MemoryWriteAheadVFS.ts, and     *)
(* quarantineTransactionLocksForRuntimeOwner of                            *)
(* memoryWriteAheadSharedRuntime.ts.                                       *)
(*                                                                         *)
(* The rollback journal of a transaction lives in the context that runs    *)
(* it, so the lock of a context that died in a transaction must never be   *)
(* given to anybody: the file is marked abandoned instead.  A process here *)
(* is one runtime owner id, with one connection to the attached file.      *)
(* Alone, this module lets any process quarantine any other at any time    *)
(* and lets anybody wipe the cells; OwnerLease says when the code does.    *)
(***************************************************************************)
EXTENDS Integers

CONSTANTS
  Proc,         \* runtime owner ids, one per local lease
  Patient,      \* those whose busy time-out is -1, the default: they never give up
  Mortal        \* bound: the processes that may be terminated

ASSUME ProcAssumption == Proc \subseteq Nat \ {0} /\ Patient \subseteq Proc /\ Mortal \subseteq Proc

VARIABLES
  txLock,       \* MEMORY_WRITE_AHEAD_FILE_META.transactionLock
  txOwner,      \* .transactionLockRuntimeOwner
  abandoned,    \* .abandonedTransaction
  at,           \* per process: its next call on the lock
  task,         \* per process: its next call in a quarantine or a wipe
  victim,       \* per process: the owner it quarantines, or 0
  dead,         \* the processes that were terminated
  condemned,    \* history: the owners for which the file was quarantined
  wiped         \* history: the processes that had the lock when it was wiped

fileCells == <<txLock, txOwner, abandoned>>
attachedVars == <<fileCells, at, task, victim, dead, condemned, wiped>>

Free == 0

Claiming == {"name", "confirm"}
Unclaiming == {"unname", "drop"}
Locking == {"try", "cas", "wait"} \cup Claiming \cup {"held"} \cup Unclaiming
Quarantining == {"qOwner", "qLock", "qFlag"}
Wiping == {"wipeLock", "wipeOwner", "wipeFlag"}

\* The lock word is the process's, as a claim or for good.
HasLock(p) == at[p] \in Claiming \cup {"held"} \cup Unclaiming

InitAttached ==
  /\ txLock = Free /\ txOwner = 0 /\ abandoned = 0
  /\ at = [p \in Proc |-> "idle"]
  /\ task = [p \in Proc |-> "none"]
  /\ victim = [p \in Proc |-> 0]
  /\ dead = {} /\ condemned = {} /\ wiped = {}

Alive(p) == p \notin dead

\* A process does one thing at a time; its event loop runs between two calls
\* of SQLite and while it waits.
Resting(p) == at[p] \in {"idle", "wait", "held"}
Move(p, from, to) ==
  /\ Alive(p) /\ task[p] = "none"
  /\ at[p] = from /\ at' = [at EXCEPT ![p] = to]
  /\ UNCHANGED task
Turn(p, from, to) ==
  /\ Alive(p) /\ Resting(p)
  /\ task[p] = from /\ task' = [task EXCEPT ![p] = to]
  /\ UNCHANGED at

-----------------------------------------------------------------------------
(* jLock(SHARED) on the attached file; jUnlock(NONE) and jClose *)

Ask(p) ==
  /\ Move(p, "idle", "try")
  /\ UNCHANGED <<fileCells, victim, dead, condemned, wiped>>

\* Mutant: the flag is not looked at.
Trusting == TRUE
NotQuarantined == abandoned = 0

\* The flag is looked at before the word: a quarantined file answers busy.
CheckQuarantine(p) ==
  /\ Move(p, "try", IF NotQuarantined THEN "cas" ELSE "idle")
  /\ UNCHANGED <<fileCells, victim, dead, condemned, wiped>>

\* Mutant: a word that is being given back is taken for free.
NotHeld == txLock <= Free
CanClaim == txLock = Free

Claim(p) ==
  /\ CanClaim
  /\ Move(p, "cas", "name")
  /\ txLock' = -p
  /\ UNCHANGED <<txOwner, abandoned, victim, dead, condemned, wiped>>

ClaimFails(p) ==
  /\ ~CanClaim
  /\ Move(p, "cas", "wait")
  /\ UNCHANGED <<fileCells, victim, dead, condemned, wiped>>

\* #retryLockAttachedDatabase: a time-out of 1 ms, then again, or busy when
\* the deadline has passed.
Retry(p) ==
  /\ \/ Move(p, "wait", "try")
     \/ p \notin Patient /\ Move(p, "wait", "idle")
  /\ UNCHANGED <<fileCells, victim, dead, condemned, wiped>>

Name(p) ==
  /\ Move(p, "name", "confirm")
  /\ txOwner' = p
  /\ UNCHANGED <<txLock, abandoned, victim, dead, condemned, wiped>>

\* Otherwise it throws "Lost attached database lock claim".
Confirm(p) ==
  /\ Move(p, "confirm", IF txLock = -p THEN "held" ELSE "idle")
  /\ txLock' = IF txLock = -p THEN p ELSE txLock
  /\ wiped' = wiped \ (IF txLock = -p THEN {} ELSE {p})
  /\ UNCHANGED <<txOwner, abandoned, victim, dead, condemned>>

Unlock(p) ==
  /\ Move(p, "held", IF txLock = p THEN "unname" ELSE "idle")
  /\ txLock' = IF txLock = p THEN -p ELSE txLock
  /\ wiped' = wiped \ (IF txLock = p THEN {} ELSE {p})
  /\ UNCHANGED <<txOwner, abandoned, victim, dead, condemned>>

Unname(p) ==
  /\ Move(p, "unname", "drop")
  /\ txOwner' = 0
  /\ UNCHANGED <<txLock, abandoned, victim, dead, condemned, wiped>>

Drop(p) ==
  /\ Move(p, "drop", "idle")
  /\ txLock' = IF txLock = -p THEN Free ELSE txLock
  /\ wiped' = wiped \ {p}
  /\ UNCHANGED <<txOwner, abandoned, victim, dead, condemned>>

-----------------------------------------------------------------------------
(* quarantineTransactionLocksForRuntimeOwner *)

StartQuarantine(r, v) ==
  /\ Turn(r, "none", "qOwner")
  /\ victim' = [victim EXCEPT ![r] = v]
  /\ UNCHANGED <<fileCells, dead, condemned, wiped>>

Spare(r) == victim' = [victim EXCEPT ![r] = 0]

\* Mutants: whoever the lock belongs to; the recoverer's own id.
AnyOwner(r) == TRUE
OwnId(r) == txOwner = r
OwnsTransaction(r) == txOwner = victim[r]

QuarantineLoadOwner(r) ==
  /\ Turn(r, "qOwner", IF OwnsTransaction(r) THEN "qLock" ELSE "none")
  /\ IF OwnsTransaction(r) THEN UNCHANGED victim ELSE Spare(r)
  /\ UNCHANGED <<fileCells, dead, condemned, wiped>>

QuarantineLoadLock(r) ==
  /\ Turn(r, "qLock", IF txLock # Free THEN "qFlag" ELSE "none")
  /\ IF txLock # Free THEN UNCHANGED victim ELSE Spare(r)
  /\ UNCHANGED <<fileCells, dead, condemned, wiped>>

QuarantineFlag(r) ==
  /\ Turn(r, "qFlag", "none")
  /\ abandoned' = 1
  /\ condemned' = condemned \cup {victim[r]}
  /\ Spare(r)
  /\ UNCHANGED <<txLock, txOwner, dead, wiped>>

Quarantine(r) == QuarantineLoadOwner(r) \/ QuarantineLoadLock(r) \/ QuarantineFlag(r)

-----------------------------------------------------------------------------
(* resetMemoryWriteAheadRuntimeState zeroes the cells, one after the other *)

StartWipe(r) ==
  /\ Turn(r, "none", "wipeLock")
  /\ UNCHANGED <<fileCells, victim, dead, condemned, wiped>>

WipeLock(r) ==
  /\ Turn(r, "wipeLock", "wipeOwner")
  /\ txLock' = Free
  /\ wiped' = {p \in Proc : HasLock(p)}
  /\ condemned' = {}
  /\ UNCHANGED <<txOwner, abandoned, victim, dead>>

WipeOwner(r) ==
  /\ Turn(r, "wipeOwner", "wipeFlag")
  /\ txOwner' = 0
  /\ UNCHANGED <<txLock, abandoned, victim, dead, condemned, wiped>>

WipeFlag(r) ==
  /\ Turn(r, "wipeFlag", "none")
  /\ abandoned' = 0
  /\ UNCHANGED <<txLock, txOwner, victim, dead, condemned, wiped>>

Wipe(r) == WipeLock(r) \/ WipeOwner(r) \/ WipeFlag(r)

-----------------------------------------------------------------------------

Die(p) ==
  /\ p \in Mortal /\ Alive(p)
  /\ dead' = dead \cup {p}
  /\ UNCHANGED <<fileCells, at, task, victim, condemned, wiped>>

Lock(p) ==
  \/ CheckQuarantine(p) \/ Claim(p) \/ ClaimFails(p) \/ Retry(p)
  \/ Name(p) \/ Confirm(p) \/ Unlock(p) \/ Unname(p) \/ Drop(p)

NextAttached ==
  \E p \in Proc :
    \/ Ask(p) \/ Lock(p) \/ Quarantine(p) \/ StartWipe(p) \/ Wipe(p) \/ Die(p)
    \/ \E v \in Proc : StartQuarantine(p, v)

SpecAttached == InitAttached /\ [][NextAttached]_attachedVars

-----------------------------------------------------------------------------

TypeOKAttached ==
  /\ txLock \in {Free} \cup Proc \cup {-p : p \in Proc}
  /\ txOwner \in Proc \cup {0}
  /\ abandoned \in {0, 1}
  /\ at \in [Proc -> {"idle"} \cup Locking]
  /\ task \in [Proc -> {"none"} \cup Quarantining \cup Wiping]
  /\ victim \in [Proc -> Proc \cup {0}]
  /\ dead \subseteq Proc /\ condemned \subseteq Proc /\ wiped \subseteq Proc

\* A process that claims, has or gives back the lock finds its own id in the
\* word, dead or alive, unless a reset wiped it under it: only the owner, in
\* its state of the three-step hand-over, ever changes the word
\* (#tryLockAttachedDatabase, #releaseAttachedDatabaseLock).
LockIsOwners ==
  \A p \in Proc \ wiped :
    /\ at[p] = "held" => txLock = p
    /\ at[p] \in Claiming \cup Unclaiming => txLock = -p

\* Two transactions never run on an attached database at the same time, and
\* none ever runs on the pages of one whose owner was terminated in it: its
\* process is still "held" (README.md:133, :137).
OneTransaction ==
  \A p, q \in Proc \ wiped : HasLock(p) /\ HasLock(q) => p = q

=============================================================================
