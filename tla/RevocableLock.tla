---------------------------- MODULE RevocableLock ----------------------------
(***************************************************************************)
(* What the file lock promises, without its cells, clock and heartbeats:   *)
(* a lock that can be taken away from an owner that is still inside, and   *)
(* that stays taken when its owner dies.  FileLock implements it, and the  *)
(* operations of SharedFile rely on no more.                               *)
(***************************************************************************)
EXTENDS Naturals

CONSTANT Owner

VARIABLES
  holder,       \* the owner that has the lock, 0 for nobody
  inside,       \* the owners in the critical section
  evicted       \* those of them that the lock was taken from

vars == <<holder, inside, evicted>>

Init == holder = 0 /\ inside = {} /\ evicted = {}

Enter(o) ==
  /\ holder = 0
  /\ holder' = o
  /\ inside' = inside \cup {o}
  /\ UNCHANGED evicted

\* The lock is given back, unless another owner has it by now, or doubts it.
Leave(o) ==
  /\ o \in inside
  /\ \/ holder = o /\ holder' = 0
     \/ UNCHANGED holder
  /\ inside' = inside \ {o}
  /\ evicted' = evicted \ {o}

\* An owner dies, inside or not; the lock does not notice.
Die(o) ==
  /\ inside' = inside \ {o}
  /\ evicted' = evicted \ {o}
  /\ UNCHANGED holder

\* The lock is taken from its holder, which is told nothing.
Revoke ==
  /\ holder # 0
  /\ holder' = 0
  /\ evicted' = evicted \cup (inside \cap {holder})
  /\ UNCHANGED inside

Next == Revoke \/ \E o \in Owner : Enter(o) \/ Leave(o) \/ Die(o)

Spec == Init /\ [][Next]_vars
=============================================================================
