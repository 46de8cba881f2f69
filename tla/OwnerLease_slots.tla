-------------------------- MODULE OwnerLease_slots --------------------------
(***************************************************************************)
(* Slots and handles, for any processes, slots and stale period, as long   *)
(* as every heartbeat is on time: no live owner loses its slot to another, *)
(* a recovery goes through only against the dead, and the count of open    *)
(* handles covers those of the living, so that a reset is refused while    *)
(* one of them has the files open.                                         *)
(*                                                                         *)
(* The count is kept in two places, the total and that of the slot, by     *)
(* separate calls.  What makes the total safe is that a slot never has     *)
(* more than its owner has added (SlotsAreBacked) and that what is still   *)
(* to be taken off, for the living and the dead, is a set of handles no    *)
(* larger than the total (OpenCoversOwed).                                 *)
(***************************************************************************)
EXTENDS OwnerLease_proofs, FiniteSetTheorems

\* What a function of the lease code does of a slot that is its own.
Owns(p, s) ==
  \/ lease[p] = s /\ ~(pc[p] \in {"clearHandles", "clearHb"} /\ why[p] = "release")
  \/ pc[p] = "claimReset" /\ scan[p] = s

\* The owner has given its slot back, and claims no other.
Gone(p) == p \in over \/ (pc[p] \in {"clearHandles", "clearHb"} /\ why[p] = "release")

Recoverers == {"again", "reset", "terminated"}
ClaimCalls ==
  {"claimId", "claimHb", "claimCount", "claimEmpty", "claimStamp", "claimCas", "claimReset"}
RetainCalls == {"retainOpen", "retainSlot"}
BeatCalls == {"beat", "beatStore"}
ReleaseCalls == {"relId", "relHandles", "relSub", "relOpen"}
ClearCalls == {"clearId", "clearHandles", "clearHb"}

\* What a process knows of its lease at each call.
LeaseFits(p) ==
  /\ lease[p] = 0 => count[p] = 0
  /\ lease[p] # 0 => p \notin over
  /\ lease[p] # 0 /\ count[p] = 0 => why[p] = "release" \/ pc[p] = "retainOpen"
  /\ p \in timer => lease[p] # 0
  /\ pc[p] = "rest" => why[p] = "none"
  /\ pc[p] \in ClaimCalls => why[p] \in {"claim", "again"}
  /\ why[p] \in {"claim", "again"} => lease[p] = 0 /\ p \notin over
  /\ pc[p] \in RetainCalls => why[p] = "retain" /\ lease[p] # 0
  /\ pc[p] = "retainSlot" => count[p] > 0
  /\ pc[p] \in BeatCalls =>
       why[p] \in {"retain", "release", "timer"} /\ lease[p] # 0 /\ count[p] > 0
  /\ pc[p] \in ReleaseCalls => why[p] = "release" /\ lease[p] # 0
  /\ pc[p] \in {"relSub", "relOpen"} => scan[p] = lease[p] /\ got[p] <= count[p] + 1
  /\ pc[p] \in ClearCalls => why[p] \in Recoverers \cup {"release", "wipe"}
  /\ pc[p] \in ClearCalls /\ why[p] = "release" =>
       lease[p] # 0 /\ scan[p] = lease[p] /\ count[p] = 0
  /\ pc[p] \in Pursuing \cup {"recId"} => why[p] \in Recoverers
  /\ pc[p] \in {"recId", "recHb", "recCas", "recCheck", "recUndo"} => why[p] # "terminated"
  /\ pc[p] = "clearId" => (who[p] # 0 <=> why[p] \in Recoverers)
  /\ pc[p] = "resetOpen" => why[p] = "reset"
  /\ why[p] = "wipe" => lease[p] = 0 /\ open = 0

\* Who is alive has its slot, and no other; nobody has two.
SlotsAreOwned ==
  /\ \A p \in Proc \ dead : \A s \in Slot :
       (slotId[s] = p <=> Owns(p, s)) /\ slotId[s] # -p
  /\ \A p \in Proc : \A s, t \in Slot : slotId[s] \in {p, -p} /\ slotId[t] \in {p, -p} => s = t

\* The heartbeat of the living is not stale.
LivingBeat ==
  \A p \in Proc \ dead :
    /\ \A s \in Slot : Owns(p, s) => slotAge[s] < Late
    /\ pc[p] = "claimCas" => slotAge[scan[p]] < Late

\* The recovery has its slot for itself.
Took(q) ==
  /\ Alive(q)
  /\ \/ pc[q] \in {"recCheck", "recUndo", "recHandles", "recOpen", "recQuarantine"}
     \/ pc[q] = "clearId" /\ who[q] # 0

\* Who it recovers is dead, or has been alive and well until now.
Found(q) ==
  /\ pc[q] = "recHb" => who[q] \in dead \/ Gone(who[q]) \/ slotId[scan[q]] = who[q]
  /\ pc[q] = "recCas" => who[q] \in dead \/ Gone(who[q])
  /\ pc[q] = "termCas" => who[q] \in dead
  /\ Took(q) => slotId[scan[q]] = -who[q] /\ who[q] \in dead

RecoversDead ==
  /\ \A q \in Proc \ dead : Found(q)
  /\ \A q, r \in Proc : Took(q) /\ Took(r) /\ scan[q] = scan[r] => q = r

\* What a live owner has counted, of which its slot has no more.
Backed(p) ==
  count[p] + (IF pc[p] \in {"relId", "relHandles", "relSub"} THEN 1 ELSE 0)
           - (IF pc[p] = "retainSlot" THEN 1 ELSE 0)

SlotsAreBacked ==
  /\ \A p \in Proc \ dead : \A s \in Slot :
       Owns(p, s) /\ (pc[p] = "claimReset" => dead = {}) => slotHandles[s] <= Backed(p)
  /\ dead = {} => \A s \in Slot : slotId[s] = 0 => slotHandles[s] <= 0

\* What may still be taken off the count for a process.
Recoverable(p) ==
  {s \in Slot : \/ slotId[s] = p
                \/ \E q \in Proc : /\ Took(q) /\ pc[q] \in {"recCheck", "recUndo", "recHandles"}
                                   /\ scan[q] = s /\ who[q] = p}
TakingOff(p) == {q \in Proc : Took(q) /\ pc[q] = "recOpen" /\ who[q] = p}
Owes(p) ==
  {n \in Nat \ {0} :
     IF p \in dead
       THEN \/ \E s \in Recoverable(p) : n <= slotHandles[s]
            \/ \E q \in TakingOff(p) : n <= got[q]
       ELSE n <= Due(p)}
Owed == UNION {{p} \X Owes(p) : p \in Proc}

OpenCoversOwed == IsFiniteSet(Owed) /\ open >= Cardinality(Owed)

\* No owner died between the claim of a slot and the reset of its count, if
\* another could have left a count there.
CleanDeaths ==
  (\A p, q \in Mortal : p = q) \/ (\A p \in dead : pc[p] # "claimReset")

Kept ==
  /\ \A p \in Proc : LeaseFits(p)
  /\ evicted = {}
  /\ SlotsAreOwned /\ LivingBeat /\ RecoversDead /\ SlotsAreBacked /\ OpenCoversOwed

\* What is inductive, as long as no reset has run over others.
SlotsInv == dead \subseteq Mortal /\ (~overrun /\ CleanDeaths => Kept)

\* What every step starts from.
Base == Known /\ Kept

\* A live process with a lease has the slot of that name.
LEMMA LeaseIsOwned ==
  ASSUME Base, NEW p \in Proc \ dead, lease[p] # 0,
         ~(pc[p] \in {"clearHandles", "clearHb"} /\ why[p] = "release")
  PROVE  lease[p] \in Slot /\ slotId[lease[p]] = p
BY DEF Base, Known, LeaseTyped, LeasesTyped, Kept, SlotsAreOwned, Owns

\* The count of a slot never exceeds what its owner has in the open count.
LEMMA LeaseIsBacked ==
  ASSUME Base, NEW p \in Proc \ dead, pc[p] \in ReleaseCalls \cup BeatCalls \cup RetainCalls
  PROVE  slotHandles[lease[p]] <= Backed(p)
BY DEF Base, Known, LeaseTyped, LeasesTyped, Kept, SlotsAreBacked, Owns, LeaseFits, ReleaseCalls,
   BeatCalls, RetainCalls

\* While a reset wipes the files the count of open handles stays 0.
LEMMA OpenStaysNone ==
  ASSUME Base, NEW p \in Proc, LeaseCall(p), ~overrun', NEW q \in Proc, why[q] = "wipe"
  PROVE  open' = 0
<1> USE DEF Base, Known, LeaseTyped, SlotsTyped, HistoryTyped
<1>1. open = 0
  BY DEF Kept, LeaseFits
<1>2. CASE RetainOpen(p)
  BY <1>2 DEF RetainOpen, OverrunIf
<1>3. CASE ReleaseOpen(p)
  BY <1>1, <1>3 DEF ReleaseOpen, Reduced
<1>4. CASE RecoverOpen(p)
  BY <1>1, <1>4 DEF RecoverOpen, Reduced, CallsTyped
<1>5. CASE ResetStep(p)
  BY <1>1, <1>5 DEF ResetStep, ResetRefused, ResetFiles, ResetZero
<1>6. CASE Open(p) \/ Retain(p) \/ Timer(p) \/ Release(p) \/ Reset(p)
           \/ ClaimSlot(p) \/ Clear(p) \/ \E v \in Proc : RecoverTerminated(p, v)
  BY <1>1, <1>6 DEF Open, Retain, Timer, Release, Reset, ClaimSlot, ClaimId, ClaimHb, ClaimCount,
     ClaimEmpty, ClaimStamp, ClaimCas, ClaimReset, Clear, ClearId, ClearHandles, ClearHb,
     RecoverTerminated
<1>7. CASE Handle(p) /\ ~RetainOpen(p) /\ ~ReleaseOpen(p)
  BY <1>1, <1>7 DEF Handle, RetainSlot, Beat, BeatStore, ReleaseId, ReleaseHandles, ReleaseSub
<1>8. CASE Recover(p) /\ ~RecoverOpen(p)
  BY <1>1, <1>8 DEF Recover, RecoverId, RecoverHb, RecoverCas, RecoverCheck, RecoverUndo,
     RecoverHandles, RecoverQuarantine, TerminatedCas
<1> QED  BY <1>2, <1>3, <1>4, <1>5, <1>6, <1>7, <1>8, Zenon DEF LeaseCall

\* Nobody who is alive has a handle that is not counted.
LEMMA NoneOwed ==
  ASSUME Base, NEW p \in Proc \ dead, open = 0, pc[p] = "resetOpen"
  PROVE  lease[p] = 0
<1>1. Cardinality(Owed) = 0 /\ IsFiniteSet(Owed)
  BY FS_CardinalityType DEF Base, Known, Kept, OpenCoversOwed
<1>2. Owed = {}
  BY <1>1, FS_EmptySet
<1>3. 1 \notin Owes(p)
  <2>1. SUFFICES ASSUME 1 \in Owes(p)  PROVE FALSE
    OBVIOUS
  <2>2. <<p, 1>> \in Owed
    BY <2>1 DEF Owed
  <2> QED  BY <1>2, <2>2
<1>4. count[p] \in Nat /\ ~(1 <= count[p])
  BY <1>3 DEF Owes, Due, Base, Known, LeaseTyped, LeasesTyped
<1> QED  BY <1>4 DEF Base, Kept, LeaseFits

\* A process that goes on to clear a slot of its own has given back all handles.
LEMMA OwnFits ==
  ASSUME Base, NEW p \in Proc, LeaseCall(p), ~overrun'
  PROVE  LeaseFits(p)'
<1> USE DEF LeaseFits, Step, To, Goto, Look, Got, For, SlotsKept, local, ClaimCalls,
    RetainCalls, BeatCalls, ReleaseCalls, ClearCalls, Recoverers, Pursuing
<1>0. LeaseFits(p) /\ CallOK(p) /\ LeaseTyped /\ CallsTyped /\ LeasesTyped /\ open \in Nat
  BY DEF Base, Known, Kept, LeaseTyped, SlotsTyped
<1>w. ASSUME NEW q \in Proc, why[q] = "wipe"
      PROVE  open' = 0
  BY <1>w, OpenStaysNone
<1> USE <1>0, SlotFacts DEF CallsTyped, LeasesTyped, CallOK, Recovering
<1>n. open = 0 /\ pc[p] = "resetOpen" /\ Alive(p) => lease[p] = 0
  BY ONLY NoneOwed, Base, p \in Proc DEF Alive
<1>1. CASE Open(p) \/ Retain(p) \/ Timer(p)
  BY <1>1 DEF Open, Retain, Timer
<1>2. CASE Release(p) \/ Reset(p)
  BY <1>2 DEF Release, Reset
<1>3. CASE \E v \in Proc : RecoverTerminated(p, v)
  BY <1>3, ProcAssumption DEF RecoverTerminated, Meet
<1>4. CASE ClaimId(p) \/ ClaimHb(p) \/ ClaimCount(p) \/ ClaimEmpty(p)
  BY <1>4 DEF ClaimId, ClaimHb, ClaimCount, ClaimEmpty, NextToClaim
<1>5. CASE ClaimStamp(p) \/ ClaimCas(p) \/ ClaimReset(p)
  BY <1>5 DEF ClaimStamp, ClaimCas, ClaimReset, NextToClaim
<1>6. CASE RetainOpen(p)
  BY <1>6 DEF RetainOpen
<1>7. CASE RetainSlot(p) \/ ReleaseSub(p)
  BY <1>7 DEF RetainSlot, ReleaseSub
<1>8. CASE Beat(p) \/ BeatStore(p) \/ ReleaseId(p)
  <2>1. slotId[lease[p]] = p
    BY <1>8, LeaseIsOwned DEF Beat, BeatStore, ReleaseId, Alive
  <2>2. CASE ReleaseId(p)
    BY <2>1, <2>2 DEF ReleaseId
  <2>3. CASE Beat(p)
    BY <2>1, <2>3 DEF Beat
  <2>4. CASE BeatStore(p)
    BY <2>4 DEF BeatStore, AfterRelease, Rest
  <2> QED  BY <1>8, <2>2, <2>3, <2>4, Zenon
<1>9. CASE ReleaseHandles(p)
  <2>1. slotHandles[lease[p]] <= count[p] + 1 /\ slotHandles[lease[p]] \in Int
    BY <1>9, LeaseIsBacked, LeaseIsOwned DEF ReleaseHandles, Alive, Backed, Base, Known,
       LeaseTyped, SlotsTyped
  <2> QED  BY <1>9, <2>1 DEF ReleaseHandles, AfterReduce
<1>10. CASE ReleaseOpen(p)
  BY <1>10 DEF ReleaseOpen, AfterReduce
<1>11. CASE ClearId(p) \/ ClearHandles(p)
  BY <1>11 DEF ClearId, ClearHandles, Meet
<1>12. CASE ClearHb(p)
  <2>1. CASE why[p] \in {"again", "reset"}
    BY <1>12, <2>1 DEF ClearHb, AfterClear, NextToRecover
  <2>2. CASE why[p] = "terminated"
    BY <1>12, <2>2 DEF ClearHb, AfterClear, Rest
  <2>3. CASE why[p] = "release"
    <3>1. lease[p] # 0 /\ count[p] = 0
      BY <1>12, <2>3 DEF ClearHb
    <3>2. AfterRelease(p) /\ UNCHANGED <<open, got, who, count>>
      BY <1>12, <2>3 DEF ClearHb, AfterClear
    <3>3. pc'[p] = "rest" /\ why'[p] = "none" /\ lease'[p] = 0 /\ count'[p] = 0
          /\ timer' = timer \ {p}
      BY <3>1, <3>2 DEF AfterRelease, Rest, EndLease
    <3> QED  BY <3>3
  <2>4. CASE why[p] = "wipe"
    BY <1>12, <1>w, <2>4 DEF ClearHb, AfterClear, Rest, EndLease
  <2> QED  BY <1>12, <2>1, <2>2, <2>3, <2>4 DEF ClearHb
<1>13. CASE RecoverId(p) \/ RecoverHb(p)
  BY <1>13 DEF RecoverId, RecoverHb, Meet, NextToRecover
<1>14. CASE RecoverCas(p) \/ RecoverCheck(p) \/ RecoverUndo(p)
  BY <1>14 DEF RecoverCas, RecoverCheck, RecoverUndo, Rechecked, Meet, NextToRecover
<1>15. CASE RecoverHandles(p) \/ RecoverOpen(p) \/ RecoverQuarantine(p) \/ TerminatedCas(p)
  BY <1>15 DEF RecoverHandles, RecoverOpen, RecoverQuarantine, TerminatedCas, Rest, Meet
<1>16. CASE ResetRefused(p) \/ ResetZero(p)
  BY <1>16, <1>w DEF ResetRefused, ResetZero, Rest
<1>17. CASE ResetFiles(p)
  BY <1>17, <1>n DEF ResetFiles, StartWipe, Turn
<1> QED  BY <1>1, <1>2, <1>3, <1>4, <1>5, <1>6, <1>7, <1>8, <1>9, <1>10, <1>11, <1>12, <1>13,
        <1>14, <1>15, <1>16, <1>17, Zenon DEF LeaseCall, ClaimSlot, Handle, Clear, Recover,
        ResetStep

\* A call is of the living, and kills nobody.
LEMMA CallerLives ==
  ASSUME HistoryTyped, NEW p \in Proc, LeaseCall(p)
  PROVE  dead' = dead /\ Alive(p) /\ task[p] = "none"
<1>2. dead' = dead
  BY CallHistory DEF attachedVars, RecoverQuarantine, ResetFiles, StartQuarantine, StartWipe
<1>3. CASE RecoverQuarantine(p) \/ ResetFiles(p)
  BY <1>2, <1>3 DEF RecoverQuarantine, ResetFiles, StartQuarantine, StartWipe, Turn
<1>4. CASE Open(p) \/ Retain(p) \/ Timer(p) \/ Release(p) \/ Reset(p) \/ ClaimSlot(p) \/ Clear(p)
           \/ \E v \in Proc : RecoverTerminated(p, v)
  BY <1>2, <1>4 DEF Open, Retain, Timer, Release, Reset, RecoverTerminated, ClaimSlot, ClaimId,
     ClaimHb, ClaimCount, ClaimEmpty, ClaimStamp, ClaimCas, ClaimReset, Clear, ClearId,
     ClearHandles, ClearHb, Goto, Step
<1>5. CASE Handle(p)
  BY <1>2, <1>5 DEF Handle, RetainOpen, RetainSlot, Beat, BeatStore, ReleaseId, ReleaseHandles,
     ReleaseSub, ReleaseOpen, Goto, Step
<1>6. CASE Recover(p) /\ ~RecoverQuarantine(p)
  BY <1>2, <1>6 DEF Recover, RecoverId, RecoverHb, RecoverCas, RecoverCheck, RecoverUndo,
     RecoverHandles, RecoverOpen, TerminatedCas, Goto, Step
<1>7. CASE ResetStep(p) /\ ~ResetFiles(p)
  BY <1>2, <1>7 DEF ResetStep, ResetRefused, ResetZero, Goto, Step
<1> QED  BY <1>3, <1>4, <1>5, <1>6, <1>7, Zenon DEF LeaseCall

\* The same from the invariant, for the proofs below.
LEMMA DeadStay ==
  ASSUME Base, NEW p \in Proc, LeaseCall(p)
  PROVE  dead' = dead /\ Alive(p) /\ task[p] = "none"
BY CallerLives DEF Base, Known, LeaseTyped

\* What the processes know of their leases stays so.
LEMMA AllFit ==
  ASSUME Base, NEW p \in Proc, LeaseCall(p), ~overrun'
  PROVE  \A q \in Proc : LeaseFits(q)'
<1> SUFFICES ASSUME NEW q \in Proc  PROVE LeaseFits(q)'
  OBVIOUS
<1>1. CASE q = p  BY <1>1, OwnFits
<1>2. CASE q # p
  <2>1. Untouched(q)  BY <1>2, OthersStay DEF Base, Known
  <2>2. LeaseFits(q)  BY DEF Base, Kept
  <2>3. why[q] = "wipe" => open' = 0  BY OpenStaysNone
  <2> QED  BY <2>1, <2>2, <2>3 DEF LeaseFits, Untouched
<1> QED  BY <1>1, <1>2

\* What another process owns is its own business.
LEMMA OthersOwn ==
  ASSUME Base, NEW p \in Proc, LeaseCall(p), NEW q \in Proc, q # p
  PROVE  /\ \A s \in Slot : Owns(q, s)' <=> Owns(q, s)
         /\ Gone(q)' <=> Gone(q)
         /\ Took(q)' <=> Took(q)
         /\ Due(q)' = Due(q) /\ Backed(q)' = Backed(q)
<1>1. Untouched(q)  BY OthersStay DEF Base, Known
<1>2. dead' = dead  BY DeadStay
<1> QED  BY <1>1, <1>2 DEF Untouched, Owns, Gone, Took, Due, Backed, Alive

\* A process gets a slot when it wins it and loses it when it clears it.
LEMMA OwnsStay ==
  ASSUME Base, NEW p \in Proc, LeaseCall(p), ~ClaimCas(p), ~ClearId(p), NEW s \in Slot
  PROVE  Owns(p, s)' <=> Owns(p, s)
<1> USE DEF Owns, Step, To, Goto, Look, Got, For, SlotsKept, local
<1>0. LeaseFits(p) /\ CallsTyped /\ LeasesTyped
  BY DEF Base, Known, Kept, LeaseTyped
<1> USE <1>0, SlotFacts DEF CallsTyped, LeasesTyped
<1>1. CASE Open(p) \/ Retain(p) \/ Timer(p) \/ Release(p) \/ Reset(p)
  BY <1>1 DEF Open, Retain, Timer, Release, Reset
<1>2. CASE \E v \in Proc : RecoverTerminated(p, v)
  BY <1>2 DEF RecoverTerminated
<1>3. CASE ClaimId(p) \/ ClaimHb(p) \/ ClaimCount(p) \/ ClaimEmpty(p) \/ ClaimStamp(p)
  BY <1>3 DEF ClaimId, ClaimHb, ClaimCount, ClaimEmpty, ClaimStamp, NextToClaim
<1>4. CASE ClaimReset(p)
  BY <1>4 DEF ClaimReset, LeaseFits, ClaimCalls
<1>5. CASE RetainOpen(p) \/ RetainSlot(p) \/ ReleaseHandles(p) \/ ReleaseSub(p) \/ ReleaseOpen(p)
  BY <1>5 DEF RetainOpen, RetainSlot, ReleaseHandles, ReleaseSub, ReleaseOpen, AfterReduce
<1>6. CASE Beat(p) \/ BeatStore(p) \/ ReleaseId(p)
  <2>1. slotId[lease[p]] = p
    BY <1>6, LeaseIsOwned DEF Beat, BeatStore, ReleaseId, Alive, LeaseFits, BeatCalls, ReleaseCalls
  <2>2. CASE ReleaseId(p)
    BY <2>1, <2>2 DEF ReleaseId
  <2>3. CASE Beat(p)
    BY <2>1, <2>3 DEF Beat, LeaseFits, BeatCalls
  <2>4. CASE BeatStore(p)
    BY <2>4 DEF BeatStore, AfterRelease, Rest, LeaseFits, BeatCalls
  <2> QED  BY <1>6, <2>2, <2>3, <2>4, Zenon
<1>7. CASE ClearHandles(p)
  BY <1>7 DEF ClearHandles
<1>8. CASE ClearHb(p)
  <2>1. CASE why[p] \in {"again", "reset"}
    BY <1>8, <2>1 DEF ClearHb, AfterClear, NextToRecover
  <2>2. CASE why[p] = "terminated"
    BY <1>8, <2>2 DEF ClearHb, AfterClear, Rest
  <2>3. CASE why[p] = "release"
    <3>1. lease[p] # 0 /\ count[p] = 0 /\ pc[p] = "clearHb"
      BY <1>8, <2>3 DEF ClearHb, LeaseFits, ClearCalls
    <3>2. AfterRelease(p)
      BY <1>8, <2>3 DEF ClearHb, AfterClear
    <3>3. pc'[p] = "rest" /\ lease'[p] = 0
      BY <3>1, <3>2 DEF AfterRelease, Rest, EndLease
    <3> QED  BY <2>3, <3>1, <3>3, SlotFacts
  <2>4. CASE why[p] = "wipe"
    BY <1>8, <2>4 DEF ClearHb, AfterClear, Rest, EndLease, LeaseFits
  <2> QED  BY <1>8, <2>1, <2>2, <2>3, <2>4 DEF ClearHb, AfterClear
<1>9. CASE RecoverId(p) \/ RecoverHb(p) \/ RecoverCas(p)
  BY <1>9 DEF RecoverId, RecoverHb, RecoverCas, NextToRecover
<1>10. CASE RecoverCheck(p) \/ RecoverUndo(p)
  BY <1>10 DEF RecoverCheck, RecoverUndo, Rechecked, NextToRecover
<1>11. CASE RecoverHandles(p) \/ RecoverOpen(p) \/ RecoverQuarantine(p) \/ TerminatedCas(p)
  BY <1>11 DEF RecoverHandles, RecoverOpen, RecoverQuarantine, TerminatedCas, Rest
<1>12. CASE ResetStep(p)
  BY <1>12 DEF ResetStep, ResetRefused, ResetFiles, ResetZero, Rest
<1> QED  BY <1>1, <1>2, <1>3, <1>4, <1>5, <1>6, <1>7, <1>8, <1>9, <1>10, <1>11, <1>12, Zenon
         DEF LeaseCall, ClaimSlot, Handle, Clear, Recover

\* Only a claim, a recovery and a clear store an owner id.
LEMMA SlotIdStays ==
  ASSUME NEW p \in Proc, LeaseCall(p),
         ~ClaimCas(p), ~ClearId(p), ~RecoverCas(p), ~TerminatedCas(p), ~RecoverUndo(p)
  PROVE  slotId' = slotId
<1> USE DEF SlotsKept, slots
<1>1. CASE Open(p) \/ Retain(p) \/ Timer(p) \/ Release(p) \/ Reset(p) \/ ResetStep(p)
           \/ \E v \in Proc : RecoverTerminated(p, v)
  BY <1>1 DEF Open, Retain, Timer, Release, Reset, ResetStep, ResetRefused, ResetFiles, ResetZero,
     RecoverTerminated
<1>2. CASE ClaimSlot(p) \/ Clear(p)
  BY <1>2 DEF ClaimSlot, ClaimId, ClaimHb, ClaimCount, ClaimEmpty, ClaimStamp, ClaimReset, Clear,
     ClearHandles, ClearHb
<1>3. CASE Handle(p) \/ Recover(p)
  BY <1>3 DEF Handle, RetainOpen, RetainSlot, Beat, BeatStore, ReleaseId, ReleaseHandles,
     ReleaseSub, ReleaseOpen, Recover, RecoverId, RecoverHb, RecoverCheck, RecoverHandles,
     RecoverOpen, RecoverQuarantine
<1> QED  BY <1>1, <1>2, <1>3 DEF LeaseCall

\* Nobody who has given its slot back finds itself in one.
LEMMA GoneOwnsNone ==
  ASSUME Base, NEW p \in Proc \ dead, Gone(p), NEW s \in Slot
  PROVE  slotId[s] # p
<1>1. ~Owns(p, s)
  BY SlotFacts DEF Owns, Gone, Base, Kept, LeaseFits, ClaimCalls
<1> QED  BY <1>1 DEF Base, Kept, SlotsAreOwned

\* An id and its negation are no others'.
LEMMA Ids ==
  ASSUME NEW p \in Proc, NEW q \in Proc
  PROVE  p # 0 /\ -p # 0 /\ p # -q /\ (p # q => -p # -q) /\ -(-p) = p
BY ProcAssumption

\* A recovery stores the id of a dead owner, over the one it found or left there.
LEMMA RecoveryStores ==
  ASSUME Base, NEW p \in Proc, RecoverCas(p) \/ TerminatedCas(p) \/ RecoverUndo(p)
  PROVE  \/ slotId' = slotId
         \/ /\ who[p] \in dead /\ who[p] # 0
            /\ slotId[scan[p]] \in {who[p], -who[p]}
            /\ \E v \in {who[p], -who[p]} : slotId' = [slotId EXCEPT ![scan[p]] = v]
<1> USE DEF Step, Goto, Alive
<1>0. /\ who[p] # 0 /\ who[p] \in Proc \cup {0} /\ scan[p] \in Slot
      /\ RecoversDead
  BY DEF Base, Known, Kept, LeaseTyped, CallsTyped, CallOK, RecoverCas, TerminatedCas, RecoverUndo,
     Pursuing
<1>1. CASE RecoverCas(p)
  <2>1. CASE StillOwned(p)
    <3>1. who[p] \in dead
      BY <1>0, <1>1, <2>1, GoneOwnsNone DEF RecoverCas, RecoversDead, Found, StillOwned
    <3> QED  BY <1>0, <1>1, <2>1, <3>1 DEF RecoverCas, StillOwned
  <2>2. CASE ~StillOwned(p)
    BY <1>1, <2>2 DEF RecoverCas
  <2> QED  BY <2>1, <2>2
<1>2. CASE TerminatedCas(p)
  BY <1>0, <1>2 DEF TerminatedCas, RecoversDead, Found, StillOwned
<1>3. CASE RecoverUndo(p)
  BY <1>0, <1>3 DEF RecoverUndo, RecoversDead, Found, Found, Took
<1> QED  BY <1>1, <1>2, <1>3

\* A wipe that runs over nobody meets no owner.
LEMMA WipeMeetsNone ==
  ASSUME Base, NEW p \in Proc, why[p] = "wipe", pc[p] \in ClearCalls, ~OthersAtWork(p)
  PROVE  /\ \A q \in Proc \ dead : \A s \in Slot : slotId[s] # q /\ ~Owns(q, s)
         /\ \A q \in Proc : ~Took(q)
<1>1. \A q \in Proc : LeaseFits(q)  BY DEF Base, Kept
<1>2. ASSUME NEW q \in Proc \ dead, NEW s \in Slot
      PROVE  ~Owns(q, s)
  <2>1. lease[q] = 0 /\ pc[q] # "claimReset"
    BY <1>1 DEF OthersAtWork, LeaseFits, ClearCalls
  <2> QED  BY <2>1, SlotFacts DEF Owns
<1>3. ASSUME NEW q \in Proc, Took(q)  PROVE FALSE
  <2>1. CASE q = p
    <3>1. who[p] = 0 \/ pc[p] # "clearId"
      BY <1>1 DEF LeaseFits, ClearCalls, Recoverers
    <3> QED  BY <1>3, <2>1, <3>1 DEF Took, ClearCalls
  <2>2. CASE q # p
    BY <1>3, <2>2 DEF Took, Alive, OthersAtWork
  <2> QED  BY <2>1, <2>2
<1> QED  BY <1>2, <1>3 DEF Base, Kept, SlotsAreOwned

\* A clear stores 0 over an id of its own, of a dead owner, or of nobody.
LEMMA ClearTakes ==
  ASSUME Base, NEW p \in Proc, ClearId(p), ~overrun'
  PROVE  /\ slotId' = [slotId EXCEPT ![scan[p]] = 0] /\ scan[p] \in Slot
         /\ \/ why[p] = "release" /\ slotId[scan[p]] = p /\ scan[p] = lease[p]
            \/ /\ why[p] # "release"
               /\ \A q \in Proc \ dead : slotId[scan[p]] # q
<1> USE DEF Step, Goto, Alive
<1>0. scan[p] \in Slot /\ LeaseFits(p) /\ pc[p] = "clearId" /\ p \notin dead
  BY DEF Base, Known, Kept, LeaseTyped, CallsTyped, ClearId
<1>1. CASE why[p] = "release"
  BY <1>0, <1>1, LeaseIsOwned DEF ClearId, LeaseFits, ClearCalls
<1>2. CASE why[p] = "wipe"
  <2>1. ~OthersAtWork(p)
    BY <1>2 DEF ClearId, OverrunIf, Base, Known, LeaseTyped, HistoryTyped
  <2> QED  BY <1>0, <1>2, <2>1, WipeMeetsNone DEF ClearId, ClearCalls
<1>3. CASE why[p] \in Recoverers
  <2>1. slotId[scan[p]] = -who[p] /\ who[p] \in Proc
    BY <1>0, <1>3 DEF LeaseFits, Base, Known, Kept, LeaseTyped, CallsTyped, RecoversDead, Found,
       Took
  <2> QED  BY <1>0, <1>3, <2>1, Ids DEF ClearId, Recoverers
<1> QED  BY <1>0, <1>1, <1>2, <1>3 DEF LeaseFits, ClearCalls

\* Who is alive keeps its slot through the calls of all.
LEMMA SlotsStayOwned ==
  ASSUME Base, NEW p \in Proc, LeaseCall(p), ~overrun'
  PROVE  SlotsAreOwned'
<1>0. /\ dead' = dead /\ Alive(p) /\ SlotsAreOwned /\ slotId \in [Slot -> OwnerIds]
      /\ scan[p] \in Slot /\ dead \subseteq Proc
  BY DeadStay DEF Base, Known, Kept, LeaseTyped, SlotsTyped, CallsTyped, TypeOKAttached
<1>1. CASE ~ClaimCas(p) /\ ~ClearId(p)
  <2>1. \A q \in Proc, s \in Slot : Owns(q, s)' <=> Owns(q, s)
    BY <1>1, OthersOwn, OwnsStay
  <2>2. CASE slotId' = slotId
    BY <1>0, <2>1, <2>2 DEF SlotsAreOwned
  <2>3. CASE slotId' # slotId
    <3>1. PICK v \in {who[p], -who[p]} :
            /\ who[p] \in dead /\ slotId[scan[p]] \in {who[p], -who[p]}
            /\ slotId' = [slotId EXCEPT ![scan[p]] = v]
      BY <1>1, <2>3, SlotIdStays, RecoveryStores
    <3>2. ASSUME NEW q \in Proc \ dead, NEW s \in Slot
          PROVE  (slotId'[s] = q <=> slotId[s] = q) /\ slotId'[s] # -q
      BY <1>0, <3>1, <3>2, Ids DEF SlotsAreOwned
    <3>3. ASSUME NEW q \in Proc, NEW s \in Slot, slotId'[s] \in {q, -q}
          PROVE  slotId[s] \in {q, -q}
      BY <1>0, <3>1, <3>3, Ids
    <3> QED  BY <1>0, <2>1, <3>2, <3>3 DEF SlotsAreOwned
  <2> QED  BY <2>2, <2>3
<1>2. CASE ClaimCas(p)
  <2>1. lease[p] = 0 /\ pc[p] = "claimCas"
    BY <1>2 DEF ClaimCas, Step, Base, Kept, LeaseFits, ClaimCalls
  <2>2. \A s \in Slot : ~Owns(p, s) /\ slotId[s] \notin {p, -p}
    BY <1>0, <2>1, SlotFacts DEF Owns, SlotsAreOwned, Alive
  <2>3. \A q \in Proc \ {p}, s \in Slot : Owns(q, s)' <=> Owns(q, s)
    BY <1>2, OthersOwn
  <2>4. lease'[p] = 0
    BY <1>2, <2>1 DEF ClaimCas, local
  <2>5. CASE slotId[scan[p]] = 0
    <3>1. slotId' = [slotId EXCEPT ![scan[p]] = p] /\ scan' = scan /\ pc'[p] = "claimReset"
      BY <1>2, <2>5 DEF ClaimCas, To, Base, Known, LeaseTyped, CallsTyped
    <3>2. \A s \in Slot : Owns(p, s)' <=> s = scan[p]
      BY <2>4, <3>1, SlotFacts DEF Owns
    <3>3. \A q \in Proc, s \in Slot : s # scan[p] => slotId'[s] = slotId[s]
      BY <1>0, <3>1
    <3>4. slotId'[scan[p]] = p
      BY <1>0, <3>1
    <3> QED  BY <1>0, <2>2, <2>3, <2>5, <3>2, <3>3, <3>4, Ids DEF SlotsAreOwned
  <2>6. CASE slotId[scan[p]] # 0
    <3>1. slotId' = slotId /\ pc'[p] # "claimReset"
      BY <1>2, <2>6 DEF ClaimCas, NextToClaim, To, Base, Known, LeaseTyped, CallsTyped
    <3>2. \A s \in Slot : ~Owns(p, s)'
      BY <2>4, <3>1, SlotFacts DEF Owns
    <3> QED  BY <1>0, <2>2, <2>3, <3>1, <3>2 DEF SlotsAreOwned
  <2> QED  BY <2>5, <2>6
<1>3. CASE ClearId(p)
  <2>1. /\ slotId' = [slotId EXCEPT ![scan[p]] = 0]
        /\ \/ why[p] = "release" /\ slotId[scan[p]] = p /\ scan[p] = lease[p]
           \/ why[p] # "release" /\ \A q \in Proc \ dead : slotId[scan[p]] # q
    BY <1>3, ClearTakes
  <2>2. \A q \in Proc \ {p}, s \in Slot : Owns(q, s)' <=> Owns(q, s)
    BY <1>3, OthersOwn
  <2>3. pc'[p] = "clearHandles" /\ pc[p] = "clearId" /\ why' = why /\ lease' = lease
    BY <1>3 DEF ClearId, Goto, Step, To, local, Base, Known, LeaseTyped, CallsTyped
  <2>4. \A s \in Slot : Owns(p, s)' <=> Owns(p, s) /\ why[p] # "release"
    BY <2>3 DEF Owns
  <2>5. \A s \in Slot : s # scan[p] => slotId'[s] = slotId[s]
    BY <1>0, <2>1
  <2>6. slotId'[scan[p]] = 0
    BY <1>0, <2>1
  <2>7. \A s \in Slot : Owns(p, s) /\ why[p] = "release" => s = scan[p]
    BY <2>1, <2>3 DEF Owns
  <2>8. \A q \in Proc \ dead : \A s \in Slot : Owns(q, s)' <=> Owns(q, s) /\ s # scan[p]
    BY <1>0, <2>1, <2>2, <2>4, <2>7, Ids DEF SlotsAreOwned, Alive
  <2>9. \A q \in Proc \ dead : \A s \in Slot : (slotId'[s] = q <=> Owns(q, s)') /\ slotId'[s] # -q
    BY <1>0, <2>5, <2>6, <2>8, Ids DEF SlotsAreOwned
  <2>10. \A q \in Proc, s \in Slot : slotId'[s] \in {q, -q} => s # scan[p] /\ slotId[s] \in {q, -q}
    BY <2>5, <2>6, Ids
  <2> QED  BY <1>0, <2>9, <2>10 DEF SlotsAreOwned
<1> QED  BY <1>1, <1>2, <1>3

\* A call stores its own heartbeat, or none.
LEMMA BeatsAreFresh ==
  ASSUME Base, NEW p \in Proc, LeaseCall(p), NEW s \in Slot
  PROVE  slotAge'[s] \in {slotAge[s], 0, Never}
<1> USE DEF SlotsKept, slots, Beatless, Stamp
<1>0. slotAge \in [Slot -> Never .. Late]
  BY DEF Base, Known, LeaseTyped, SlotsTyped
<1>1. CASE Open(p) \/ Retain(p) \/ Timer(p) \/ Release(p) \/ Reset(p) \/ ResetStep(p)
           \/ \E v \in Proc : RecoverTerminated(p, v)
  BY <1>1 DEF Open, Retain, Timer, Release, Reset, ResetStep, ResetRefused, ResetFiles, ResetZero,
     RecoverTerminated
<1>2. CASE ClaimSlot(p) \/ Clear(p)
  BY <1>0, <1>2 DEF ClaimSlot, ClaimId, ClaimHb, ClaimCount, ClaimEmpty, ClaimStamp, ClaimCas,
     ClaimReset, Clear, ClearId, ClearHandles, ClearHb
<1>3. CASE Handle(p)
  BY <1>0, <1>3 DEF Handle, RetainOpen, RetainSlot, Beat, BeatStore, ReleaseId, ReleaseHandles,
     ReleaseSub, ReleaseOpen
<1>4. CASE Recover(p)
  BY <1>4 DEF Recover, RecoverId, RecoverHb, RecoverCas, RecoverCheck, RecoverUndo, RecoverHandles,
     RecoverOpen, RecoverQuarantine, TerminatedCas
<1> QED  BY <1>1, <1>2, <1>3, <1>4 DEF LeaseCall

\* Who is about to claim a slot has just stamped it.
LEMMA ClaimFollowsStamp ==
  ASSUME Base, NEW p \in Proc, LeaseCall(p), pc'[p] = "claimCas"
  PROVE  ClaimStamp(p)
<1> USE DEF Step, To, Goto, SlotsKept, local
<1>0. CallsTyped
  BY DEF Base, Known, LeaseTyped
<1> USE <1>0 DEF CallsTyped
<1>1. CASE Open(p) \/ Retain(p) \/ Timer(p) \/ Release(p) \/ Reset(p) \/ ResetStep(p)
           \/ \E v \in Proc : RecoverTerminated(p, v)
  BY <1>1 DEF Open, Retain, Timer, Release, Reset, ResetStep, ResetRefused, ResetFiles, ResetZero,
     RecoverTerminated, Rest
<1>2. CASE ClaimSlot(p)
  BY <1>2 DEF ClaimSlot, ClaimId, ClaimHb, ClaimCount, ClaimEmpty, ClaimCas, ClaimReset, NextToClaim
<1>3. CASE Clear(p)
  BY <1>3 DEF Clear, ClearId, ClearHandles, ClearHb, AfterClear, AfterRelease, Rest, NextToRecover
<1>4. CASE Handle(p)
  BY <1>4 DEF Handle, RetainOpen, RetainSlot, Beat, BeatStore, ReleaseId, ReleaseHandles,
     ReleaseSub, ReleaseOpen, AfterRelease, AfterReduce, Rest
<1>5. CASE Recover(p)
  BY <1>5 DEF Recover, RecoverId, RecoverHb, RecoverCas, RecoverCheck, RecoverUndo, RecoverHandles,
     RecoverOpen, RecoverQuarantine, TerminatedCas, NextToRecover, Rechecked, Rest
<1> QED  BY <1>1, <1>2, <1>3, <1>4, <1>5, Zenon DEF LeaseCall

\* A slot of p's is one it had, or the one it has just won.
LEMMA OwnsOrWins ==
  ASSUME Base, NEW p \in Proc, LeaseCall(p), NEW s \in Slot, Owns(p, s)'
  PROVE  Owns(p, s) \/ (pc[p] = "claimCas" /\ s = scan[p] /\ UNCHANGED <<slotHandles, slotAge>>)
<1>0. CallsTyped /\ LeaseFits(p)
  BY DEF Base, Known, LeaseTyped, Kept
<1>1. CASE ClaimCas(p)
  <2>1. lease'[p] = 0 /\ pc[p] = "claimCas" /\ UNCHANGED <<slotHandles, slotAge>>
        /\ (pc'[p] = "claimReset" => scan'[p] = scan[p])
    BY <1>0, <1>1 DEF ClaimCas, Step, local, Beatless, LeaseFits, ClaimCalls, NextToClaim, To,
       CallsTyped
  <2> QED  BY <2>1, SlotFacts DEF Owns
<1>2. CASE ClearId(p)
  BY <1>0, <1>2 DEF ClearId, Goto, Step, To, Owns, local, CallsTyped
<1> QED  BY <1>1, <1>2, OwnsStay

\* The heartbeat of who is alive stays fresh through the calls of all.
LEMMA BeatsStay ==
  ASSUME Base, NEW p \in Proc, LeaseCall(p)
  PROVE  LivingBeat'
<1>0. /\ dead' = dead /\ LivingBeat /\ p \notin dead
      /\ \A s \in Slot : slotAge[s] \in Int
      /\ 0 < Late /\ Never < Late
      /\ \A q \in Proc : scan[q] \in Slot
  BY DeadStay, LeaseAssumption DEF Base, Known, Kept, LeaseTyped, SlotsTyped, CallsTyped, Late,
     Never, Alive
<1>1. \A s \in Slot : slotAge[s] < Late => slotAge'[s] < Late
  BY <1>0, BeatsAreFresh
<1>2. ASSUME NEW q \in Proc \ dead, NEW s \in Slot, Owns(q, s)'
      PROVE  slotAge'[s] < Late
  <2>1. CASE q # p
    <3>1. Owns(q, s)  BY <1>2, <2>1, OthersOwn
    <3> QED  BY <1>0, <1>1, <3>1 DEF LivingBeat
  <2>2. CASE q = p
    BY <1>0, <1>1, <1>2, <2>2, OwnsOrWins DEF LivingBeat
  <2> QED  BY <2>1, <2>2
<1>3. ASSUME NEW q \in Proc \ dead, pc'[q] = "claimCas"
      PROVE  slotAge'[scan'[q]] < Late
  <2>1. CASE q # p
    <3>1. Untouched(q)  BY <2>1, OthersStay DEF Base, Known
    <3> QED  BY <1>0, <1>1, <1>3, <3>1 DEF LivingBeat, Untouched
  <2>2. CASE q = p
    <3>1. ClaimStamp(p)  BY <1>3, <2>2, ClaimFollowsStamp
    <3>2. scan' = scan /\ slotAge' = [slotAge EXCEPT ![scan[p]] = 0]
      BY <3>1 DEF ClaimStamp, Stamp
    <3> QED  BY <1>0, <2>2, <3>2 DEF Base, Known, LeaseTyped, SlotsTyped
  <2> QED  BY <2>1, <2>2
<1> QED  BY <1>0, <1>2, <1>3 DEF LivingBeat

\* Nor does time make it stale, as long as everybody is punctual.
LEMMA TickKeepsBeats ==
  ASSUME Base, Punctual, Tick
  PROVE  LivingBeat'
<1>0. /\ UNCHANGED <<dead, pc, why, lease, scan>> /\ LivingBeat /\ StaleMs \in Nat
      /\ \A s \in Slot : slotAge[s] \in Int
      /\ \A q \in Proc : scan[q] \in Slot
      /\ slotAge' =
           [s \in Slot |-> IF slotAge[s] \in {Never, Late} THEN slotAge[s] ELSE slotAge[s] + 1]
  BY LeaseAssumption DEF Base, Known, Kept, LeaseTyped, SlotsTyped, CallsTyped, Tick, local,
     attachedVars
<1>1. \A q \in Proc \ dead : Timely(q)
  BY DEF Tick
<1>2. \A s \in Slot : slotAge[s] < StaleMs => slotAge'[s] < Late
  BY <1>0 DEF Late
<1>3. ASSUME NEW q \in Proc \ dead, NEW s \in Slot, Owns(q, s)
      PROVE  slotAge'[s] < Late
  <2>1. CASE pc[q] = "claimReset" /\ scan[q] = s
    BY <1>1, <1>2, <2>1 DEF Timely
  <2>2. CASE lease[q] = s /\ ~(pc[q] \in {"clearHandles", "clearHb"} /\ why[q] = "release")
    <3>1. slotId[lease[q]] = q /\ lease[q] # 0
      BY <2>2, LeaseIsOwned, SlotFacts
    <3> QED  BY <1>1, <1>2, <2>2, <3>1 DEF Timely
  <2> QED  BY <1>3, <2>1, <2>2 DEF Owns
<1>4. ASSUME NEW q \in Proc \ dead, pc[q] = "claimCas"
      PROVE  slotAge'[scan[q]] < Late
  BY <1>0, <1>1, <1>2, <1>4 DEF Timely
<1> QED  BY <1>0, <1>3, <1>4 DEF LivingBeat, Owns

\* A recovery goes through only against the dead.
LEMMA NobodyEvicted ==
  ASSUME Base, NEW p \in Proc, LeaseCall(p)
  PROVE  evicted' = {}
<1> USE DEF Aside, history
<1>0. evicted = {}
  BY DEF Base, Kept
<1>1. CASE RecoverHandles(p)
  <2>1. who[p] \in dead
    BY <1>1 DEF RecoverHandles, Goto, Step, Took, Base, Kept, RecoversDead, Found, Alive
  <2> QED  BY <1>0, <1>1, <2>1 DEF RecoverHandles
<1>2. CASE Open(p) \/ Retain(p) \/ Timer(p) \/ Release(p) \/ Reset(p) \/ ResetStep(p)
           \/ \E v \in Proc : RecoverTerminated(p, v)
  BY <1>0, <1>2 DEF Open, Retain, Timer, Release, Reset, ResetStep, ResetRefused, ResetFiles,
     ResetZero, RecoverTerminated
<1>3. CASE ClaimSlot(p) \/ Clear(p)
  BY <1>0, <1>3 DEF ClaimSlot, ClaimId, ClaimHb, ClaimCount, ClaimEmpty, ClaimStamp, ClaimCas,
     ClaimReset, Clear, ClearId, ClearHandles, ClearHb
<1>4. CASE Handle(p)
  BY <1>0, <1>4 DEF Handle, RetainOpen, RetainSlot, Beat, BeatStore, ReleaseId, ReleaseHandles,
     ReleaseSub, ReleaseOpen
<1>5. CASE Recover(p) /\ ~RecoverHandles(p)
  BY <1>0, <1>5 DEF Recover, RecoverId, RecoverHb, RecoverCas, RecoverCheck, RecoverUndo,
     RecoverOpen, RecoverQuarantine, TerminatedCas
<1> QED  BY <1>1, <1>2, <1>3, <1>4, <1>5 DEF LeaseCall

\* Ids that were used stay so.
LEMMA OverGrows ==
  ASSUME NEW p \in Proc, LeaseCall(p)
  PROVE  over \subseteq over'
<1> USE DEF SlotsKept, local, AfterRelease, EndLease
<1>1. CASE Open(p) \/ Retain(p) \/ Timer(p) \/ Release(p) \/ Reset(p) \/ ResetStep(p)
           \/ \E v \in Proc : RecoverTerminated(p, v)
  BY <1>1 DEF Open, Retain, Timer, Release, Reset, ResetStep, ResetRefused, ResetFiles, ResetZero,
     RecoverTerminated
<1>2. CASE ClaimSlot(p)
  BY <1>2 DEF ClaimSlot, ClaimId, ClaimHb, ClaimCount, ClaimEmpty, ClaimStamp, ClaimCas, ClaimReset
<1>3. CASE Clear(p)
  BY <1>3 DEF Clear, ClearId, ClearHandles, ClearHb, AfterClear
<1>4. CASE Handle(p)
  BY <1>4 DEF Handle, RetainOpen, RetainSlot, Beat, BeatStore, ReleaseId, ReleaseHandles,
     ReleaseSub, ReleaseOpen
<1>5. CASE Recover(p)
  BY <1>5 DEF Recover, RecoverId, RecoverHb, RecoverCas, RecoverCheck, RecoverUndo, RecoverHandles,
     RecoverOpen, RecoverQuarantine, TerminatedCas
<1> QED  BY <1>1, <1>2, <1>3, <1>4, <1>5 DEF LeaseCall

\* Two steps of a clear: the first two leave the lease to the third.
LEMMA ClearGoesOn ==
  ASSUME Base, NEW p \in Proc, LeaseCall(p), pc[p] \in ClearCalls
  PROVE  Clear(p)
<1> USE DEF ClearCalls, Step, Goto
<1>1. CASE Open(p) \/ Retain(p) \/ Timer(p) \/ Release(p) \/ Reset(p) \/ ResetStep(p)
           \/ \E v \in Proc : RecoverTerminated(p, v)
  BY <1>1 DEF Open, Retain, Timer, Release, Reset, ResetStep, ResetRefused, ResetFiles, ResetZero,
     RecoverTerminated
<1>2. CASE ClaimSlot(p)
  BY <1>2 DEF ClaimSlot, ClaimId, ClaimHb, ClaimCount, ClaimEmpty, ClaimStamp, ClaimCas, ClaimReset
<1>4. CASE Handle(p)
  BY <1>4 DEF Handle, RetainOpen, RetainSlot, Beat, BeatStore, ReleaseId, ReleaseHandles,
     ReleaseSub, ReleaseOpen
<1>5. CASE Recover(p)
  BY <1>5 DEF Recover, RecoverId, RecoverHb, RecoverCas, RecoverCheck, RecoverUndo, RecoverHandles,
     RecoverOpen, RecoverQuarantine, TerminatedCas
<1> QED  BY <1>1, <1>2, <1>4, <1>5 DEF LeaseCall

\* Who is gone does not come back.
LEMMA GoneForGood ==
  ASSUME Base, NEW p \in Proc, LeaseCall(p), NEW v \in Proc, Gone(v)
  PROVE  Gone(v)'
<1>1. CASE v # p
  BY <1>1, OthersOwn
<1>2. CASE v \in over
  BY <1>2, OverGrows DEF Gone
<1>3. CASE v = p /\ pc[p] \in {"clearHandles", "clearHb"} /\ why[p] = "release"
  <2>0. CallsTyped /\ LeasesTyped /\ LeaseFits(p)
    BY DEF Base, Known, Kept, LeaseTyped
  <2>1. Clear(p)  BY <1>3, ClearGoesOn DEF ClearCalls
  <2>2. CASE ClearHandles(p)
    BY <1>3, <2>0, <2>2 DEF ClearHandles, Goto, To, Gone, CallsTyped
  <2>3. CASE ClearHb(p)
    BY <1>3, <2>0, <2>3 DEF ClearHb, AfterClear, AfterRelease, EndLease, Gone, LeaseFits, ClearCalls
  <2> QED  BY <1>3, <2>1, <2>2, <2>3 DEF Clear, ClearId, Goto, Step
<1> QED  BY <1>1, <1>2, <1>3 DEF Gone

\* Who is alive loses its slot only when it gives it back.
LEMMA OwnerStaysOrGoes ==
  ASSUME Base, NEW p \in Proc, LeaseCall(p), ~overrun', NEW v \in Proc \ dead, NEW s \in Slot,
         slotId[s] = v
  PROVE  slotId'[s] = v \/ Gone(v)'
<1>1. Owns(v, s) /\ v \notin dead'
  BY DeadStay DEF Base, Kept, SlotsAreOwned
<1>2. Owns(v, s)' => slotId'[s] = v
  BY <1>1, SlotsStayOwned DEF SlotsAreOwned
<1>3. CASE v # p
  BY <1>1, <1>2, <1>3, OthersOwn
<1>4. CASE v = p /\ ClaimCas(p)
  <2>1. ~Owns(p, s)
    BY <1>4, SlotFacts DEF ClaimCas, Step, Owns, Base, Kept, LeaseFits, ClaimCalls
  <2> QED  BY <1>1, <1>4, <2>1
<1>5. CASE v = p /\ ClearId(p)
  <2>1. pc'[p] = "clearHandles" /\ why'[p] = why[p]
    BY <1>5 DEF ClearId, Goto, To, Base, Known, LeaseTyped, CallsTyped
  <2>2. CASE why[p] = "release"
    BY <1>5, <2>1, <2>2 DEF Gone
  <2>3. CASE why[p] # "release"
    <3>1. slotId' = [slotId EXCEPT ![scan[p]] = 0] /\ slotId[scan[p]] # p
      BY <1>1, <1>5, <2>3, ClearTakes
    <3> QED  BY <1>5, <3>1 DEF Base, Known, LeaseTyped, SlotsTyped
  <2> QED  BY <2>2, <2>3
<1> QED  BY <1>1, <1>2, <1>3, <1>4, <1>5, OwnsStay

\* Nobody else stores into a slot that is being recovered.
LEMMA TookKeeps ==
  ASSUME Base, NEW p \in Proc, LeaseCall(p), ~overrun', NEW q \in Proc, q # p, Took(q)
  PROVE  slotId'[scan[q]] = slotId[scan[q]]
<1>0. /\ scan[q] \in Slot /\ scan[p] \in Slot /\ slotId \in [Slot -> OwnerIds] /\ p \notin dead
      /\ slotId[scan[q]] = -who[q] /\ who[q] \in dead /\ who[q] \in Proc
      /\ who[p] \in Proc \cup {0}
  BY DeadStay DEF Base, Known, Kept, LeaseTyped, SlotsTyped, CallsTyped, TypeOKAttached,
     RecoversDead, Found, Took, Alive
<1>1. Took(p) => scan[p] # scan[q]
  BY DEF Base, Kept, RecoversDead
<1>2. CASE ClaimCas(p)
  BY <1>0, <1>2, Ids DEF ClaimCas
<1>3. CASE ClearId(p)
  <2>1. slotId' = [slotId EXCEPT ![scan[p]] = 0]
    BY <1>3 DEF ClearId
  <2>2. CASE why[p] = "release"
    <3>1. slotId[scan[p]] = p
      BY <1>3, <2>2, ClearTakes
    <3> QED  BY <1>0, <2>1, <3>1, Ids
  <2>3. CASE why[p] = "wipe"
    <3>1. ~OthersAtWork(p) /\ pc[p] = "clearId"
      BY <1>3, <2>3 DEF ClearId, Goto, Step, OverrunIf, Base, Known, LeaseTyped, HistoryTyped
    <3> QED  BY <2>3, <3>1, WipeMeetsNone DEF ClearCalls
  <2>4. CASE why[p] \in Recoverers
    <3>1. Took(p)
      BY <1>3, <2>4 DEF ClearId, Goto, Step, Took, Base, Kept, LeaseFits
    <3> QED  BY <1>0, <1>1, <2>1, <3>1
  <2>5. why[p] \in Recoverers \cup {"release", "wipe"}
    BY <1>3 DEF ClearId, Goto, Step, Base, Kept, LeaseFits, ClearCalls
  <2> QED  BY <2>2, <2>3, <2>4, <2>5
<1>4. CASE RecoverCas(p)
  BY <1>0, <1>4, Ids DEF RecoverCas, StillOwned, Base, Known, CallOK, Pursuing, Step
<1>5. CASE TerminatedCas(p)
  BY <1>0, <1>5, Ids DEF TerminatedCas, StillOwned, Base, Known, CallOK, Pursuing, Step
<1>6. CASE RecoverUndo(p)
  <2>1. Took(p)
    BY <1>6 DEF RecoverUndo, Step, Took
  <2> QED  BY <1>0, <1>1, <1>6, <2>1 DEF RecoverUndo
<1> QED  BY <1>2, <1>3, <1>4, <1>5, <1>6, SlotIdStays

\* How a process comes to the calls of a recovery.
LEMMA PursuitGoesOn ==
  ASSUME Base, NEW p \in Proc, LeaseCall(p), pc'[p] \in Pursuing \cup {"clearId"}
  PROVE  \/ RecoverId(p) \/ RecoverHb(p) \/ RecoverCas(p) \/ RecoverCheck(p) \/ RecoverHandles(p)
         \/ RecoverOpen(p) \/ RecoverQuarantine(p) \/ TerminatedCas(p)
         \/ \E v \in Proc : RecoverTerminated(p, v)
         \/ pc'[p] = "clearId" /\ who'[p] = 0
<1> USE DEF Step, To, Goto, Pursuing
<1>0. CallsTyped
  BY DEF Base, Known, LeaseTyped
<1>w. who'[p] # 0 /\ pc'[p] = "clearId" => RecoverQuarantine(p)
  BY OwnStep DEF Base, Known
<1> USE <1>0 DEF CallsTyped
<1>1. CASE Open(p) \/ Retain(p) \/ Timer(p) \/ Release(p) \/ Reset(p) \/ ResetStep(p)
  BY <1>1, <1>w DEF Open, Retain, Timer, Release, Reset, ResetStep, ResetRefused, ResetFiles,
     ResetZero, Rest
<1>2. CASE ClaimSlot(p)
  BY <1>2 DEF ClaimSlot, ClaimId, ClaimHb, ClaimCount, ClaimEmpty, ClaimStamp, ClaimCas, ClaimReset,
     NextToClaim
<1>3. CASE Clear(p)
  BY <1>3, <1>w DEF Clear, ClearId, ClearHandles, ClearHb, AfterClear, AfterRelease, Rest,
     NextToRecover
<1>4. CASE Handle(p)
  BY <1>4, <1>w DEF Handle, RetainOpen, RetainSlot, Beat, BeatStore, ReleaseId, ReleaseHandles,
     ReleaseSub, ReleaseOpen, AfterRelease, AfterReduce, Rest
<1>5. CASE RecoverUndo(p)
  BY <1>5 DEF RecoverUndo, NextToRecover
<1> QED  BY <1>1, <1>2, <1>3, <1>4, <1>5, Zenon DEF LeaseCall, Recover

\* The recovery of p has a slot that it had, or one it has just marked.
LEMMA TookOrTakes ==
  ASSUME Base, NEW p \in Proc, LeaseCall(p), Took(p)'
  PROVE  /\ scan'[p] = scan[p] /\ who'[p] = who[p] /\ who[p] \in Proc
         /\ \/ Took(p) /\ slotId' = slotId
            \/ /\ RecoverCas(p) \/ TerminatedCas(p)
               /\ slotId[scan[p]] = who[p]
               /\ slotId' = [slotId EXCEPT ![scan[p]] = -who[p]]
<1> USE DEF Step, To, Goto, Took, Pursuing, SlotsKept, slots
<1>0. CallsTyped /\ CallOK(p) /\ dead' = dead /\ Alive(p)
  BY DeadStay DEF Base, Known, LeaseTyped
<1> USE <1>0 DEF CallsTyped, CallOK
<1>1. \/ RecoverId(p) \/ RecoverHb(p) \/ RecoverCas(p) \/ RecoverCheck(p) \/ RecoverHandles(p)
      \/ RecoverOpen(p) \/ RecoverQuarantine(p) \/ TerminatedCas(p)
      \/ \E v \in Proc : RecoverTerminated(p, v)
  BY PursuitGoesOn
<1>2. CASE RecoverId(p) \/ RecoverHb(p) \/ \E v \in Proc : RecoverTerminated(p, v)
  BY <1>2 DEF RecoverId, RecoverHb, RecoverTerminated, NextToRecover
<1>3. CASE RecoverCas(p)
  BY <1>3 DEF RecoverCas, NextToRecover, StillOwned
<1>4. CASE TerminatedCas(p)
  BY <1>4 DEF TerminatedCas, Rest, StillOwned
<1>5. CASE RecoverCheck(p)
  BY <1>5 DEF RecoverCheck
<1>6. CASE RecoverHandles(p) \/ RecoverOpen(p) \/ RecoverQuarantine(p)
  BY <1>6 DEF RecoverHandles, RecoverOpen, RecoverQuarantine
<1> QED  BY <1>1, <1>2, <1>3, <1>4, <1>5, <1>6

\* What p has found of the owner it recovers, when it has found it.
LEMMA FoundByOwn ==
  ASSUME Base, NEW p \in Proc, LeaseCall(p), ~overrun', NEW v \in Proc, who'[p] = v
  PROVE  /\ pc'[p] = "recHb" => v \in dead \/ Gone(v)' \/ slotId'[scan'[p]] = v
         /\ pc'[p] = "recCas" => v \in dead \/ Gone(v)'
         /\ pc'[p] = "termCas" => v \in dead
<1> USE DEF Step, To, Goto, SlotsKept, slots
<1>0. CallsTyped /\ p \notin dead /\ RecoversDead
  BY DeadStay DEF Base, Known, Kept, LeaseTyped, Alive
<1> USE <1>0 DEF CallsTyped
<1>1. ASSUME pc'[p] \in {"recHb", "recCas", "termCas"}
      PROVE  \/ pc'[p] = "recHb" /\ RecoverId(p)
             \/ pc'[p] = "recCas" /\ RecoverHb(p)
             \/ pc'[p] = "termCas" /\ \E u \in Proc : RecoverTerminated(p, u)
  <2>1. \/ RecoverId(p) \/ RecoverHb(p) \/ RecoverCas(p) \/ RecoverCheck(p) \/ RecoverHandles(p)
        \/ RecoverOpen(p) \/ RecoverQuarantine(p) \/ TerminatedCas(p)
        \/ \E u \in Proc : RecoverTerminated(p, u)
    BY <1>1, PursuitGoesOn DEF Pursuing
  <2> QED  BY <1>1, <2>1 DEF RecoverId, RecoverHb, RecoverCas, RecoverCheck, RecoverHandles,
              RecoverOpen, RecoverQuarantine, TerminatedCas, RecoverTerminated, NextToRecover,
              Rechecked, Rest
<1>2. CASE pc'[p] = "recHb" /\ RecoverId(p)
  BY <1>2 DEF RecoverId, Meet, NextToRecover
<1>3. CASE pc'[p] = "recCas" /\ RecoverHb(p)
  <2>1. who[p] = v /\ scan[p] \in Slot /\ slotAge[scan[p]] = Late /\ pc[p] = "recHb"
    BY <1>3 DEF RecoverHb, StaleHeartbeat, IsStale, NextToRecover
  <2>2. v \in dead \/ Gone(v) \/ slotId[scan[p]] = v
    BY <2>1 DEF RecoversDead, Found
  <2>3. ASSUME v \notin dead  PROVE slotId[scan[p]] # v
    <3>1. ~Owns(v, scan[p])
      BY <2>1, <2>3, LeaseAssumption DEF Base, Kept, LivingBeat, Late
    <3> QED  BY <2>1, <2>3, <3>1 DEF Base, Kept, SlotsAreOwned
  <2> QED  BY <1>3, <2>2, <2>3, GoneForGood
<1>4. CASE pc'[p] = "termCas" /\ \E u \in Proc : RecoverTerminated(p, u)
  BY <1>4 DEF RecoverTerminated, Meet
<1> QED  BY <1>1, <1>2, <1>3, <1>4

\* And what another process has found stays true.
LEMMA FoundByOther ==
  ASSUME Base, NEW p \in Proc, LeaseCall(p), ~overrun', NEW q \in Proc \ dead, q # p,
         NEW v \in Proc, who[q] = v
  PROVE  /\ pc[q] = "recHb" => v \in dead \/ Gone(v)' \/ slotId'[scan[q]] = v
         /\ pc[q] = "recCas" => v \in dead \/ Gone(v)'
         /\ pc[q] = "termCas" => v \in dead
<1>1. Found(q) /\ scan[q] \in Slot
  BY DEF Base, Known, Kept, LeaseTyped, CallsTyped, RecoversDead
<1>2. Gone(v) => Gone(v)'
  BY GoneForGood
<1>3. \A s \in Slot : v \notin dead /\ slotId[s] = v => slotId'[s] = v \/ Gone(v)'
  BY OwnerStaysOrGoes
<1> QED  BY <1>1, <1>2, <1>3 DEF Found

\* What p marks it has found, and who it marks is dead.
LEMMA TookByOwn ==
  ASSUME Base, NEW p \in Proc, LeaseCall(p), Took(p)'
  PROVE  slotId'[scan'[p]] = -who'[p] /\ who'[p] \in dead
<1>0. /\ RecoversDead /\ scan[p] \in Slot /\ slotId \in [Slot -> OwnerIds] /\ p \notin dead
  BY DeadStay DEF Base, Known, Kept, LeaseTyped, SlotsTyped, CallsTyped, Alive
<1>1. /\ scan'[p] = scan[p] /\ who'[p] = who[p] /\ who[p] \in Proc
      /\ \/ Took(p) /\ slotId' = slotId
         \/ /\ RecoverCas(p) \/ TerminatedCas(p)
            /\ slotId[scan[p]] = who[p]
            /\ slotId' = [slotId EXCEPT ![scan[p]] = -who[p]]
  BY TookOrTakes
<1>2. CASE Took(p) /\ slotId' = slotId
  BY <1>0, <1>1, <1>2 DEF RecoversDead, Found
<1>3. CASE /\ RecoverCas(p) \/ TerminatedCas(p)
           /\ slotId[scan[p]] = who[p]
           /\ slotId' = [slotId EXCEPT ![scan[p]] = -who[p]]
  <2>1. slotId' # slotId
    BY <1>0, <1>1, <1>3, Ids
  <2>2. who[p] \in dead
    BY <1>3, <2>1, RecoveryStores
  <2> QED  BY <1>0, <1>1, <1>3, <2>2
<1> QED  BY <1>1, <1>2, <1>3

\* Recoveries are of the dead, and have their slots for themselves.
LEMMA RecoveriesStay ==
  ASSUME Base, NEW p \in Proc, LeaseCall(p), ~overrun'
  PROVE  RecoversDead'
<1>0. /\ dead' = dead /\ RecoversDead /\ \A q \in Proc : CallOK(q)' /\ who'[q] \in Proc \cup {0}
  <2>1. LeaseTyped'
    BY BeginTyped, ClaimTyped, HandleTyped, ClearTyped, RecoverTyped, ResetTyped
    DEF LeaseCall, TypeOKAttached, Base, Known
  <2> QED  BY <2>1, CallsStayOK, DeadStay DEF Base, Known, Kept, LeaseTyped, CallsTyped
<1>o. ASSUME NEW q \in Proc, q # p
      PROVE  Untouched(q) /\ (Took(q)' <=> Took(q))
  BY <1>o, OthersStay, OthersOwn DEF Base, Known
<1>1. ASSUME NEW q \in Proc \ dead
      PROVE  Found(q)'
  <2>1. Took(q)' => slotId'[scan'[q]] = -who'[q] /\ who'[q] \in dead
    <3>1. CASE q = p  BY <3>1, TookByOwn
    <3>2. CASE q # p
      <4>1. Took(q) => slotId[scan[q]] = -who[q] /\ who[q] \in dead
        BY <1>0 DEF RecoversDead, Found
      <4> QED  BY <1>o, <3>2, <4>1, TookKeeps DEF Untouched
    <3> QED  BY <3>1, <3>2
  <2>2. CASE who'[q] = 0
    BY <1>0, <2>1, <2>2 DEF CallOK, Pursuing, Found
  <2>3. ASSUME NEW v \in Proc, who'[q] = v
        PROVE  /\ pc'[q] = "recHb" => v \in dead \/ Gone(v)' \/ slotId'[scan'[q]] = v
               /\ pc'[q] = "recCas" => v \in dead \/ Gone(v)'
               /\ pc'[q] = "termCas" => v \in dead
    <3>1. CASE q = p  BY <2>3, <3>1, FoundByOwn
    <3>2. CASE q # p  BY <1>o, <2>3, <3>2, FoundByOther DEF Untouched
    <3> QED  BY <3>1, <3>2
  <2>4. CASE who'[q] \in Proc
    <3>1. PICK v \in Proc : v = who'[q]  BY <2>4
    <3> QED  BY <1>0, <2>1, <2>3, <3>1 DEF Found, Gone
  <2> QED  BY <1>0, <2>2, <2>4
<1>2. ASSUME NEW q \in Proc, NEW r \in Proc, Took(q)', Took(r)', scan'[q] = scan'[r], q # r
      PROVE  FALSE
  <2>1. ASSUME NEW u \in Proc, u # p, Took(u)', Took(p)', scan'[u] = scan'[p]
        PROVE  FALSE
    <3>1. Took(u) /\ scan[u] = scan'[p] /\ u \notin dead
      BY <1>o, <2>1 DEF Untouched, Took, Alive
    <3>2. scan'[p] = scan[p]
      BY <2>1, TookOrTakes
    <3>3. ~Took(p)
      BY <2>1, <3>1, <3>2 DEF Base, Kept, RecoversDead
    <3>4. slotId[scan[p]] = who[p] /\ who[p] \in Proc
      BY <2>1, <3>3, TookOrTakes
    <3>5. slotId[scan[u]] = -who[u] /\ who[u] \in Proc
      BY <1>0, <2>1, <3>1 DEF RecoversDead, Found, Base, Known, TypeOKAttached
    <3> QED  BY <3>1, <3>2, <3>4, <3>5, Ids
  <2>2. CASE q # p /\ r # p
    BY <1>0, <1>o, <1>2, <2>2 DEF Untouched, RecoversDead
  <2> QED  BY <1>2, <2>1, <2>2
<1> QED  BY <1>0, <1>1, <1>2 DEF RecoversDead

\* Only an owner, and a clear, store the handle count of a slot.
LEMMA HandlesStay ==
  ASSUME NEW p \in Proc, LeaseCall(p),
         ~ClaimReset(p), ~RetainSlot(p), ~ReleaseSub(p), ~ClearHandles(p)
  PROVE  slotHandles' = slotHandles
<1> USE DEF SlotsKept, slots
<1>1. CASE Open(p) \/ Retain(p) \/ Timer(p) \/ Release(p) \/ Reset(p) \/ ResetStep(p)
           \/ \E v \in Proc : RecoverTerminated(p, v)
  BY <1>1 DEF Open, Retain, Timer, Release, Reset, ResetStep, ResetRefused, ResetFiles, ResetZero,
     RecoverTerminated
<1>2. CASE ClaimSlot(p) \/ Clear(p)
  BY <1>2 DEF ClaimSlot, ClaimId, ClaimHb, ClaimCount, ClaimEmpty, ClaimStamp, ClaimCas, Clear,
     ClearId, ClearHb
<1>3. CASE Handle(p) \/ Recover(p)
  BY <1>3 DEF Handle, RetainOpen, Beat, BeatStore, ReleaseId, ReleaseHandles, ReleaseOpen, Recover,
     RecoverId, RecoverHb, RecoverCas, RecoverCheck, RecoverUndo, RecoverHandles, RecoverOpen,
     RecoverQuarantine, TerminatedCas
<1> QED  BY <1>1, <1>2, <1>3 DEF LeaseCall

\* The count of a slot is raised by its owner alone.
LEMMA HandlesSink ==
  ASSUME Base, NEW p \in Proc, LeaseCall(p), NEW s \in Slot, slotId[s] # p
  PROVE  slotHandles'[s] = slotHandles[s] \/ slotHandles'[s] = 0
<1>0. scan[p] \in Slot /\ slotHandles \in [Slot -> Int] /\ p \notin dead
  BY DeadStay DEF Base, Known, LeaseTyped, SlotsTyped, CallsTyped, Alive
<1>1. CASE RetainSlot(p) \/ ReleaseSub(p)
  <2>1. lease[p] \in Slot /\ slotId[lease[p]] = p
    BY <1>0, <1>1, LeaseIsOwned DEF RetainSlot, ReleaseSub, Goto, Step, Base, Kept, LeaseFits,
       RetainCalls, ReleaseCalls
  <2> QED  BY <1>0, <1>1, <2>1 DEF RetainSlot, ReleaseSub
<1>2. CASE ClaimReset(p) \/ ClearHandles(p)
  BY <1>0, <1>2 DEF ClaimReset, ClearHandles
<1> QED  BY <1>1, <1>2, HandlesStay

\* What a slot has that its owner has not counted is less than nothing.
LEMMA BackedIsNat ==
  ASSUME Base, NEW p \in Proc
  PROVE  Backed(p) \in Nat
BY DEF Base, Known, Kept, LeaseTyped, LeasesTyped, LeaseFits, Backed, RetainCalls

\* A call of p keeps the count of its slot within its own.
LEMMA OwnStaysBacked ==
  ASSUME Base, NEW p \in Proc, LeaseCall(p), ~ClaimCas(p), ~ClearId(p), ~overrun',
         lease[p] # 0, lease'[p] = lease[p],
         ~(pc[p] \in {"clearHandles", "clearHb"} /\ why[p] = "release")
  PROVE  slotHandles'[lease[p]] <= Backed(p)'
<1> USE DEF Step, To, Goto, SlotsKept, slots, local
<1>0. /\ CallsTyped /\ LeasesTyped /\ LeaseFits(p) /\ slotHandles \in [Slot -> Int] /\ p \notin dead
      /\ lease[p] \in Slot /\ slotId[lease[p]] = p /\ Backed(p) \in Nat
  BY DeadStay, LeaseIsOwned, BackedIsNat DEF Base, Known, Kept, LeaseTyped, SlotsTyped,
     LeasesTyped, Alive
<1>s. slotHandles[lease[p]] <= Backed(p) /\ pc[p] # "claimReset"
  BY <1>0 DEF Base, Kept, SlotsAreBacked, Owns, LeaseFits, ClaimCalls
<1> USE <1>0, <1>s DEF CallsTyped, LeasesTyped, Backed
<1>1. CASE Open(p) \/ Retain(p) \/ Timer(p) \/ Release(p) \/ Reset(p)
  BY <1>1 DEF Open, Retain, Timer, Release, Reset
<1>2. CASE ResetStep(p) \/ \E v \in Proc : RecoverTerminated(p, v)
  BY <1>2 DEF ResetStep, ResetRefused, ResetFiles, ResetZero, RecoverTerminated, Rest
<1>3. CASE ClaimSlot(p)
  BY <1>3 DEF ClaimSlot, ClaimId, ClaimHb, ClaimCount, ClaimEmpty, ClaimStamp, ClaimReset,
     LeaseFits, ClaimCalls
<1>4. CASE ClearHandles(p)
  BY <1>4 DEF ClearHandles
<1>5. CASE ClearHb(p)
  <2>1. pc'[p] \in {"rest", "clearId", "recId", "claimId", "resetOpen"}
    BY <1>5 DEF ClearHb, AfterClear, AfterRelease, Rest, NextToRecover
  <2> QED  BY <1>5, <2>1 DEF ClearHb
<1>6. CASE RetainOpen(p) \/ RetainSlot(p) \/ ReleaseSub(p)
  <2>1. CASE RetainOpen(p)
    <3>1. pc'[p] = "retainSlot" /\ pc[p] = "retainOpen" /\ count'[p] = count[p] + 1
          /\ slotHandles' = slotHandles
      BY <2>1 DEF RetainOpen
    <3> QED  BY <3>1
  <2>2. CASE RetainSlot(p)
    <3>1. pc'[p] = "beat" /\ pc[p] = "retainSlot" /\ count'[p] = count[p]
          /\ slotHandles'[lease[p]] = slotHandles[lease[p]] + 1
      BY <2>2 DEF RetainSlot
    <3> QED  BY <3>1
  <2>3. CASE ReleaseSub(p)
    <3>1. pc'[p] = "relOpen" /\ pc[p] = "relSub" /\ count'[p] = count[p]
          /\ slotHandles'[lease[p]] = slotHandles[lease[p]] - 1
      BY <2>3 DEF ReleaseSub
    <3> QED  BY <3>1
  <2> QED  BY <1>6, <2>1, <2>2, <2>3
<1>7. CASE Beat(p) \/ BeatStore(p) \/ ReleaseId(p)
  <2>1. CASE ReleaseId(p)
    BY <2>1 DEF ReleaseId
  <2>2. CASE Beat(p) \/ BeatStore(p)
    <3>1. pc'[p] \in {"rest", "beatStore"} /\ pc[p] \in {"beat", "beatStore"}
      BY <2>2 DEF Beat, BeatStore, AfterRelease, Rest
    <3> QED  BY <2>2, <3>1 DEF Beat, BeatStore
  <2> QED  BY <1>7, <2>1, <2>2
<1>8. CASE ReleaseHandles(p) \/ ReleaseOpen(p)
  BY <1>8 DEF ReleaseHandles, ReleaseOpen, AfterReduce
<1>9. CASE RecoverId(p) \/ RecoverHb(p) \/ RecoverCas(p) \/ RecoverUndo(p)
  <2>1. pc'[p] \in {"recId", "recHb", "recCas", "recCheck", "claimId", "resetOpen"}
    BY <1>9 DEF RecoverId, RecoverHb, RecoverCas, RecoverUndo, NextToRecover
  <2> QED  BY <1>9, <2>1 DEF RecoverId, RecoverHb, RecoverCas, RecoverUndo
<1>10. CASE RecoverCheck(p) \/ RecoverHandles(p) \/ RecoverOpen(p) \/ RecoverQuarantine(p)
            \/ TerminatedCas(p)
  BY <1>10 DEF RecoverCheck, RecoverHandles, RecoverOpen, RecoverQuarantine, TerminatedCas,
     Rechecked, Rest
<1> QED  BY <1>1, <1>2, <1>3, <1>4, <1>5, <1>6, <1>7, <1>8, <1>9, <1>10, Zenon
         DEF LeaseCall, Handle, Clear, Recover

\* A claim ends with the reset of the count that it has won.
LEMMA ClaimEnds ==
  ASSUME Base, NEW p \in Proc, LeaseCall(p)
  PROVE  /\ pc[p] = "claimReset" => ClaimReset(p)
         /\ pc'[p] = "claimReset" => ClaimCas(p)
<1> USE DEF Step, To, Goto, SlotsKept, local
<1>0. CallsTyped
  BY DEF Base, Known, LeaseTyped
<1> USE <1>0 DEF CallsTyped
<1>1. CASE Open(p) \/ Retain(p) \/ Timer(p) \/ Release(p) \/ Reset(p) \/ ResetStep(p)
           \/ \E v \in Proc : RecoverTerminated(p, v)
  BY <1>1 DEF Open, Retain, Timer, Release, Reset, ResetStep, ResetRefused, ResetFiles, ResetZero,
     RecoverTerminated, Rest
<1>2. CASE ClaimSlot(p)
  BY <1>2 DEF ClaimSlot, ClaimId, ClaimHb, ClaimCount, ClaimEmpty, ClaimStamp, ClaimCas, ClaimReset,
     NextToClaim
<1>3. CASE Clear(p)
  BY <1>3 DEF Clear, ClearId, ClearHandles, ClearHb, AfterClear, AfterRelease, Rest, NextToRecover
<1>4. CASE Handle(p)
  BY <1>4 DEF Handle, RetainOpen, RetainSlot, Beat, BeatStore, ReleaseId, ReleaseHandles,
     ReleaseSub, ReleaseOpen, AfterRelease, AfterReduce, Rest
<1>5. CASE Recover(p)
  BY <1>5 DEF Recover, RecoverId, RecoverHb, RecoverCas, RecoverCheck, RecoverUndo, RecoverHandles,
     RecoverOpen, RecoverQuarantine, TerminatedCas, NextToRecover, Rechecked, Rest
<1> QED  BY <1>1, <1>2, <1>3, <1>4, <1>5, Zenon DEF LeaseCall

\* The count of the slot that p has is within its own after its call.
LEMMA OwnSlotBacked ==
  ASSUME Base, NEW p \in Proc, LeaseCall(p), ~overrun', NEW s \in Slot, Owns(p, s)',
         pc'[p] = "claimReset" => dead = {}
  PROVE  slotHandles'[s] <= Backed(p)'
<1>0. /\ CallsTyped /\ LeasesTyped /\ LeaseFits(p) /\ slotHandles \in [Slot -> Int] /\ p \notin dead
      /\ SlotsAreBacked
  BY DeadStay DEF Base, Known, Kept, LeaseTyped, SlotsTyped, LeasesTyped, Alive
<1>1. CASE ClaimCas(p)
  <2>1. lease'[p] = 0 /\ pc[p] = "claimCas" /\ slotHandles' = slotHandles /\ count' = count
        /\ count[p] = 0 /\ scan[p] \in Slot
    BY <1>0, <1>1 DEF ClaimCas, Step, local, LeaseFits, ClaimCalls, CallsTyped
  <2>2. pc'[p] = "claimReset" /\ scan'[p] = s
    BY <2>1, SlotFacts DEF Owns
  <2>3. slotId[scan[p]] = 0 /\ scan' = scan
    BY <1>0, <1>1, <2>1, <2>2 DEF ClaimCas, NextToClaim, To, CallsTyped
  <2>4. slotHandles[s] <= 0
    BY <1>0, <2>2, <2>3 DEF SlotsAreBacked
  <2> QED  BY <2>1, <2>2, <2>4 DEF Backed
<1>2. CASE ClaimReset(p)
  <2>1. pc'[p] = "retainOpen" /\ lease'[p] = scan[p] /\ slotHandles'[scan[p]] = 0 /\ count'[p] = 0
    BY <1>0, <1>2 DEF ClaimReset, Goto, Step, To, LeaseFits, ClaimCalls, CallsTyped, LeasesTyped
  <2> QED  BY <2>1 DEF Owns, Backed
<1>3. CASE ~ClaimCas(p) /\ ~ClearId(p) /\ ~ClaimReset(p)
  <2>1. Owns(p, s) /\ pc[p] # "claimReset" /\ pc'[p] # "claimReset"
    BY <1>3, OwnsStay, ClaimEnds
  <2>2. /\ lease[p] = s /\ lease'[p] = s
        /\ ~(pc[p] \in {"clearHandles", "clearHb"} /\ why[p] = "release")
    BY <2>1 DEF Owns
  <2> QED  BY <1>3, <2>2, SlotFacts, OwnStaysBacked
<1>4. CASE ClearId(p)
  <2>1. pc[p] = "clearId" /\ pc'[p] = "clearHandles" /\ lease' = lease /\ why' = why
        /\ count' = count
        /\ slotHandles' = slotHandles
    BY <1>0, <1>4 DEF ClearId, Goto, Step, To, local, CallsTyped
  <2>2. lease[p] = s
    BY <2>1 DEF Owns
  <2> QED  BY <1>0, <2>1, <2>2 DEF SlotsAreBacked, Owns, Backed
<1> QED  BY <1>1, <1>2, <1>3, <1>4

\* As long as nobody has died, a free slot has no count.
LEMMA FreeSlotsEmpty ==
  ASSUME Base, NEW p \in Proc, LeaseCall(p), ~overrun', dead = {}, NEW s \in Slot, slotId'[s] = 0
  PROVE  slotHandles'[s] <= 0
<1>0. /\ CallsTyped /\ LeaseFits(p) /\ slotHandles \in [Slot -> Int] /\ p \notin dead
      /\ SlotsAreBacked /\ slotId \in [Slot -> OwnerIds] /\ SlotsAreOwned /\ RecoversDead
  BY DEF Base, Known, Kept, LeaseTyped, SlotsTyped
<1>1. slotId[s] = 0 => slotHandles[s] <= 0
  BY <1>0 DEF SlotsAreBacked
<1>2. CASE ClearId(p) /\ slotId[s] # 0
  <2>1. slotId' = [slotId EXCEPT ![scan[p]] = 0] /\ slotHandles' = slotHandles /\ pc[p] = "clearId"
    BY <1>2 DEF ClearId, Goto, Step
  <2>2. s = scan[p]
    BY <1>0, <1>2, <2>1
  <2>3. \A q \in Proc : slotId[s] # -q /\ ~(pc[q] = "clearId" /\ who[q] # 0)
    BY <1>0 DEF SlotsAreOwned, RecoversDead, Found, Took, Alive
  <2>4. CASE why[p] = "release"
    <3>1. lease[p] = s /\ count[p] = 0
      BY <1>0, <2>1, <2>2, <2>4 DEF LeaseFits, ClearCalls
    <3> QED  BY <1>0, <2>1, <3>1 DEF SlotsAreBacked, Owns, Backed
  <2>5. CASE why[p] # "release"
    <3>1. \A q \in Proc : slotId[s] # q
      BY <1>2, <2>2, <2>5, ClearTakes
    <3> QED  BY <1>0, <1>2, <2>3, <3>1 DEF OwnerIds
  <2> QED  BY <2>4, <2>5
<1>3. CASE slotId[s] = 0
  BY <1>1, <1>3, HandlesSink, ProcAssumption
<1>4. CASE ~ClearId(p) /\ slotId[s] # 0
  <2>1. slotId' = slotId \/ ClaimCas(p)
    BY <1>0, <1>4, SlotIdStays, RecoveryStores
  <2>2. slotId'[s] # 0
    BY <1>0, <1>4, <2>1, ProcAssumption DEF ClaimCas, CallsTyped
  <2> QED  BY <2>2
<1> QED  BY <1>2, <1>3, <1>4

\* No slot counts more than its owner does.
LEMMA SlotsStayBacked ==
  ASSUME Base, NEW p \in Proc, LeaseCall(p), ~overrun'
  PROVE  SlotsAreBacked'
<1>0. dead' = dead /\ SlotsAreBacked /\ SlotsAreOwned /\ slotHandles \in [Slot -> Int]
  BY DeadStay DEF Base, Known, Kept, LeaseTyped, SlotsTyped
<1>1. ASSUME NEW q \in Proc \ dead, NEW s \in Slot, Owns(q, s)', pc'[q] = "claimReset" => dead = {}
      PROVE  slotHandles'[s] <= Backed(q)'
  <2>1. CASE q = p
    BY <1>1, <2>1, OwnSlotBacked
  <2>2. CASE q # p
    <3>1. Owns(q, s) /\ Backed(q)' = Backed(q) /\ pc'[q] = pc[q]
      BY <1>1, <2>2, OthersOwn, OthersStay DEF Untouched, Base, Known
    <3>2. slotHandles[s] <= Backed(q) /\ slotId[s] # p
      BY <1>0, <1>1, <2>2, <3>1 DEF SlotsAreBacked, SlotsAreOwned
    <3> QED  BY <3>1, <3>2, HandlesSink, BackedIsNat
  <2> QED  BY <2>1, <2>2
<1> QED  BY <1>0, <1>1, FreeSlotsEmpty DEF SlotsAreBacked

\* Nobody takes on a handle that is not counted.
LEMMA DueSinks ==
  ASSUME Base, NEW p \in Proc, LeaseCall(p), ~RetainOpen(p)
  PROVE  Due(p)' <= Due(p) /\ Due(p) \in Nat /\ Due(p)' \in Int
<1> USE DEF Step, To, Goto, SlotsKept, slots, local
<1>0. CallsTyped /\ LeasesTyped /\ p \notin dead /\ dead' = dead
  BY DeadStay DEF Base, Known, LeaseTyped, Alive
<1> USE <1>0 DEF CallsTyped, LeasesTyped, Due
<1>1. CASE Open(p) \/ Retain(p) \/ Timer(p) \/ Release(p) \/ Reset(p)
  BY <1>1 DEF Open, Retain, Timer, Release, Reset
<1>2. CASE ResetStep(p) \/ \E v \in Proc : RecoverTerminated(p, v)
  BY <1>2 DEF ResetStep, ResetRefused, ResetFiles, ResetZero, RecoverTerminated, Rest
<1>3. CASE ClaimSlot(p)
  BY <1>3 DEF ClaimSlot, ClaimId, ClaimHb, ClaimCount, ClaimEmpty, ClaimStamp, ClaimCas, ClaimReset,
     NextToClaim
<1>4. CASE Clear(p)
  <2>1. pc'[p] \notin {"relId", "relHandles", "relSub", "relOpen"}
    BY <1>4 DEF Clear, ClearId, ClearHandles, ClearHb, AfterClear, AfterRelease, Rest, NextToRecover
  <2> QED  BY <1>4, <2>1 DEF Clear, ClearId, ClearHandles, ClearHb
<1>5. CASE RetainSlot(p) \/ ReleaseHandles(p) \/ ReleaseSub(p) \/ ReleaseOpen(p)
  BY <1>5 DEF RetainSlot, ReleaseHandles, ReleaseSub, ReleaseOpen, AfterReduce
<1>6. CASE Beat(p) \/ BeatStore(p) \/ ReleaseId(p)
  <2>1. pc'[p] \in {"rest", "beatStore"} \/ pc[p] = "relId"
    BY <1>6 DEF Beat, BeatStore, ReleaseId, AfterRelease, Rest
  <2> QED  BY <1>6, <2>1 DEF Beat, BeatStore, ReleaseId
<1>7. CASE Recover(p)
  <2>1. pc'[p] \notin {"relId", "relHandles", "relSub", "relOpen"}
    BY <1>7 DEF Recover, RecoverId, RecoverHb, RecoverCas, RecoverCheck, RecoverUndo,
       RecoverHandles, RecoverOpen, RecoverQuarantine, TerminatedCas, NextToRecover, Rechecked,
       Rest
  <2> QED  BY <1>7, <2>1 DEF Recover, RecoverId, RecoverHb, RecoverCas, RecoverCheck, RecoverUndo,
              RecoverHandles, RecoverOpen, RecoverQuarantine, TerminatedCas
<1> QED  BY <1>1, <1>2, <1>3, <1>4, <1>5, <1>6, <1>7, Zenon DEF LeaseCall, Handle

\* What a recovery may take off for a slot, it might have taken off before.
LEMMA RecoverableBefore ==
  ASSUME Base, NEW p \in Proc, LeaseCall(p), ~overrun', NEW v \in dead, NEW s \in Recoverable(v)'
  PROVE  s \in Recoverable(v) /\ (slotHandles'[s] = slotHandles[s] \/ slotHandles'[s] = 0)
<1>0. /\ s \in Slot /\ CallsTyped /\ p \notin dead /\ v \in Proc /\ RecoversDead
      /\ slotId \in [Slot -> OwnerIds] /\ scan[p] \in Slot
  BY DeadStay DEF Base, Known, Kept, LeaseTyped, SlotsTyped, CallsTyped, TypeOKAttached, Alive,
     Recoverable
<1>1. CASE slotId'[s] = v
  <2>1. CASE slotId[s] = v
    BY <1>0, <2>1, HandlesSink DEF Recoverable
  <2>2. CASE slotId[s] # v
    <3>1. ~ClaimCas(p) /\ ~ClearId(p)
      BY <1>0, <1>1, <2>2, Ids DEF ClaimCas, ClearId
    <3>2. RecoverCas(p) \/ TerminatedCas(p) \/ RecoverUndo(p)
      BY <1>1, <2>2, <3>1, SlotIdStays
    <3>3. who[p] \in Proc
      BY <3>2 DEF RecoverCas, TerminatedCas, RecoverUndo, Goto, Step, Base, Known, CallOK, Pursuing,
         LeaseTyped, CallsTyped
    <3>4. RecoverUndo(p)
      BY <1>0, <1>1, <2>2, <3>2, <3>3, Ids DEF RecoverCas, TerminatedCas
    <3>5. s = scan[p] /\ who[p] = v /\ pc[p] = "recUndo" /\ Took(p) /\ slotHandles' = slotHandles
      BY <1>0, <1>1, <2>2, <3>4 DEF RecoverUndo, Step, Took
    <3> QED  BY <1>0, <3>5 DEF Recoverable
  <2> QED  BY <2>1, <2>2
<1>2. ASSUME NEW q \in Proc, Took(q)', pc'[q] \in {"recCheck", "recUndo", "recHandles"},
             scan'[q] = s, who'[q] = v
      PROVE  s \in Recoverable(v) /\ slotId[s] # p
  <2>1. CASE q # p
    <3>1. Took(q) /\ pc[q] = pc'[q] /\ scan[q] = s /\ who[q] = v
      BY <1>2, <2>1, OthersOwn, OthersStay DEF Untouched, Base, Known
    <3>2. slotId[s] = -v
      BY <3>1 DEF Base, Kept, RecoversDead, Found, Took, Alive
    <3> QED  BY <1>0, <1>2, <3>1, <3>2, Ids DEF Recoverable
  <2>2. CASE q = p
    <3>1. /\ scan[p] = s /\ who[p] = v
          /\ Took(p) \/ slotId[s] = v
      BY <1>2, <2>2, TookOrTakes
    <3>2. CASE slotId[s] = v
      BY <1>0, <3>2 DEF Recoverable
    <3>3. CASE Took(p)
      <4>1. pc[p] \in {"recCheck", "recUndo", "recHandles"}
        BY <1>0, <1>2, <2>2, <3>3, PursuitGoesOn DEF Took, Pursuing, RecoverId, RecoverHb,
           RecoverCas, RecoverCheck, RecoverHandles, RecoverOpen, RecoverQuarantine,
           TerminatedCas, RecoverTerminated, Goto, Step, To, CallsTyped
      <4>2. slotId[s] = -v
        BY <1>0, <3>1, <3>3 DEF RecoversDead, Found, Took, Alive
      <4> QED  BY <1>0, <3>1, <3>3, <4>1, <4>2, Ids DEF Recoverable
    <3> QED  BY <3>1, <3>2, <3>3
  <2> QED  BY <2>1, <2>2
<1>3. CASE slotId'[s] # v
  <2>1. \E q \in Proc : Took(q)' /\ pc'[q] \in {"recCheck", "recUndo", "recHandles"}
                        /\ scan'[q] = s /\ who'[q] = v
    BY <1>3 DEF Recoverable
  <2> QED  BY <1>0, <1>2, <2>1, HandlesSink
<1> QED  BY <1>1, <1>3

\* What a recovery is about to take off was recoverable, or about to go off.
LEMMA TakingOffBefore ==
  ASSUME Base, NEW p \in Proc, LeaseCall(p), ~overrun', NEW v \in dead, NEW q \in TakingOff(v)'
  PROVE  \/ q \in TakingOff(v) /\ got'[q] = got[q]
         \/ \E s \in Recoverable(v) : got'[q] = slotHandles[s]
<1>0. /\ q \in Proc /\ Took(q)' /\ pc'[q] = "recOpen" /\ who'[q] = v /\ CallsTyped /\ v \in Proc
  BY DEF TakingOff, Base, Known, LeaseTyped, TypeOKAttached
<1>1. CASE q # p
  BY <1>0, <1>1, OthersOwn, OthersStay DEF Untouched, Base, Known, TakingOff
<1>2. CASE q = p
  <2>1. RecoverHandles(p)
    BY <1>0, <1>2, PursuitGoesOn DEF Pursuing, RecoverId, RecoverHb, RecoverCas,
       RecoverCheck, RecoverOpen, RecoverQuarantine, TerminatedCas, NextToRecover, Rechecked, Rest,
       RecoverTerminated, Goto, Step, To, CallsTyped
  <2>2. Took(p) /\ pc[p] = "recHandles" /\ who[p] = v /\ got'[p] = slotHandles[scan[p]]
        /\ scan[p] \in Slot
    BY <1>0, <1>2, <2>1 DEF RecoverHandles, Goto, Step, Got, Took, CallsTyped
  <2>3. scan[p] \in Recoverable(v)
    BY <2>2 DEF Recoverable
  <2> QED  BY <1>2, <2>2, <2>3
<1> QED  BY <1>1, <1>2

\* But for a handle that is counted as it is opened, nobody owes more than before.
LEMMA OwesSinks ==
  ASSUME Base, NEW p \in Proc, LeaseCall(p), ~RetainOpen(p), ~overrun', NEW v \in Proc
  PROVE  Owes(v)' \subseteq Owes(v)
<1>0. dead' = dead /\ slotHandles \in [Slot -> Int] /\ \A q \in Proc : got[q] \in Int
  BY DeadStay DEF Base, Known, LeaseTyped, SlotsTyped, CallsTyped
<1>1. CASE v \notin dead
  <2>1. Due(v)' <= Due(v) /\ Due(v) \in Int /\ Due(v)' \in Int
    <3>1. CASE v = p  BY <3>1, DueSinks
    <3>2. CASE v # p
      BY <3>2, OthersOwn DEF Due, Base, Known, LeaseTyped, LeasesTyped
    <3> QED  BY <3>1, <3>2
  <2> QED  BY <1>0, <1>1, <2>1 DEF Owes
<1>2. CASE v \in dead
  <2>1. ASSUME NEW s \in Recoverable(v)', NEW n \in Nat \ {0}, n <= slotHandles'[s]
        PROVE  n \in Owes(v)
    <3>1. s \in Recoverable(v) /\ (slotHandles'[s] = slotHandles[s] \/ slotHandles'[s] = 0)
      BY <1>2, <2>1, RecoverableBefore
    <3>2. n <= slotHandles[s]
      BY <2>1, <3>1
    <3> QED  BY <1>2, <3>1, <3>2 DEF Owes
  <2>2. ASSUME NEW q \in TakingOff(v)', NEW n \in Nat \ {0}, n <= got'[q]
        PROVE  n \in Owes(v)
    <3>1. \/ q \in TakingOff(v) /\ n <= got[q]
          \/ \E s \in Recoverable(v) : n <= slotHandles[s]
      BY <1>2, <2>2, TakingOffBefore
    <3> QED  BY <1>2, <3>1 DEF Owes
  <2> QED  BY <1>0, <1>2, <2>1, <2>2 DEF Owes
<1> QED  BY <1>1, <1>2

\* Nor do all together.
LEMMA OwedSinks ==
  ASSUME Base, NEW p \in Proc, LeaseCall(p), ~RetainOpen(p), ~overrun'
  PROVE  Owed' \subseteq Owed
<1>1. \A v \in Proc : Owes(v)' \subseteq Owes(v)
  BY OwesSinks
<1>2. Owed' = UNION {{v} \X Owes(v)' : v \in Proc}
  BY DEF Owed
<1>3. Owed = UNION {{v} \X Owes(v) : v \in Proc}
  BY DEF Owed
<1> QED  BY ONLY <1>1, <1>2, <1>3

\* Who opens a handle owes one more.
LEMMA RetainOwesOne ==
  ASSUME Base, NEW p \in Proc, RetainOpen(p)
  PROVE  Owed' \subseteq Owed \cup {<<p, count[p] + 1>>}
<1>0. /\ LeaseCall(p) /\ dead' = dead /\ p \notin dead /\ CallsTyped /\ LeasesTyped
      /\ \A q \in Proc : got[q] \in Int
  BY DeadStay DEF LeaseCall, Handle, Base, Known, LeaseTyped, CallsTyped, Alive
<1>1. /\ count' = [count EXCEPT ![p] = @ + 1] /\ pc' = [pc EXCEPT ![p] = "retainSlot"]
      /\ pc[p] = "retainOpen"
      /\ UNCHANGED <<slotId, slotHandles, scan, got, who>>
  BY DEF RetainOpen, Goto, Step, To, SlotsKept, slots
<1>2. ASSUME NEW q \in Proc
      PROVE  (Took(q)' <=> Took(q)) /\ (Took(q) => pc'[q] = pc[q])
  BY <1>0, <1>1 DEF Took, CallsTyped, Alive
<1>3. ASSUME NEW v \in Proc, NEW n \in Owes(v)'
      PROVE  n \in Owes(v) \/ (v = p /\ n = count[p] + 1)
  <2>1. CASE v \in dead
    <3>1. Recoverable(v)' = Recoverable(v)
      BY <1>1, <1>2 DEF Recoverable
    <3>2. TakingOff(v)' = TakingOff(v)
      BY <1>1, <1>2 DEF TakingOff
    <3> QED  BY <1>0, <1>1, <1>3, <2>1, <3>1, <3>2 DEF Owes
  <2>2. CASE v \notin dead /\ v # p
    BY <1>0, <1>1, <1>3, <2>2, OthersOwn DEF Owes
  <2>3. CASE v = p
    <3>1. Due(p) = count[p] /\ Due(p)' = count[p] + 1 /\ count[p] \in Nat
      BY <1>0, <1>1 DEF Due, CallsTyped, LeasesTyped
    <3> QED  BY <1>0, <1>3, <2>3, <3>1 DEF Owes
  <2> QED  BY <2>1, <2>2, <2>3
<1>4. Owed' = UNION {{v} \X Owes(v)' : v \in Proc}
  BY DEF Owed
<1>5. Owed = UNION {{v} \X Owes(v) : v \in Proc}
  BY DEF Owed
<1> QED  BY ONLY <1>3, <1>4, <1>5

\* The handle that is taken off was owed.
LEMMA ReleasePaysOne ==
  ASSUME Base, NEW p \in Proc, ReleaseOpen(p), ~overrun'
  PROVE  <<p, count[p] + 1>> \in Owed /\ Owed' \subseteq Owed \ {<<p, count[p] + 1>>}
<1>0. LeaseCall(p) /\ dead' = dead /\ p \notin dead /\ CallsTyped /\ LeasesTyped
  BY DeadStay DEF LeaseCall, Handle, Base, Known, LeaseTyped, Alive
<1>1. Due(p) = count[p] + 1 /\ Due(p)' = count[p] /\ count[p] \in Nat
  BY <1>0 DEF ReleaseOpen, AfterReduce, Goto, Step, To, local, Due, CallsTyped, LeasesTyped
<1>2. count[p] + 1 \in Owes(p) /\ count[p] + 1 \notin Owes(p)'
  BY <1>0, <1>1 DEF Owes
<1>3. Owed' \subseteq Owed
  BY <1>0, OwedSinks DEF ReleaseOpen, RetainOpen, Goto, Step
<1>4. Owed' = UNION {{v} \X Owes(v)' : v \in Proc}
  BY DEF Owed
<1>5. Owed = UNION {{v} \X Owes(v) : v \in Proc}
  BY DEF Owed
<1>6. <<p, count[p] + 1>> \notin Owed'
  BY ONLY <1>2, <1>4
<1>7. <<p, count[p] + 1>> \in Owed
  BY ONLY <1>2, <1>5, p \in Proc
<1> QED  BY <1>3, <1>6, <1>7

\* What a recovery takes off is all that its owner still owed.
LEMMA RecoveryPaysAll ==
  ASSUME Base, NEW p \in Proc, RecoverOpen(p), ~overrun'
  PROVE  /\ {who[p]} \X (1 .. got[p]) \subseteq Owed
         /\ Owed' \subseteq Owed \ ({who[p]} \X (1 .. got[p]))
<1>0. /\ LeaseCall(p) /\ dead' = dead /\ CallsTyped /\ p \notin dead
      /\ Took(p) /\ pc[p] = "recOpen" /\ who[p] \in dead /\ who[p] \in Proc
      /\ scan[p] \in Slot /\ slotId[scan[p]] = -who[p]
      /\ \A q \in Proc : scan[q] \in Slot /\ got[q] \in Int
  BY DeadStay DEF LeaseCall, Recover, Base, Known, Kept, LeaseTyped, CallsTyped, TypeOKAttached,
     RecoverOpen, Goto, Step, Took, RecoversDead, Found, Alive
<1>1. PICK v \in dead : who[p] = v
  BY <1>0
<1>2. /\ pc' = [pc EXCEPT ![p] = "recQuarantine"]
      /\ UNCHANGED <<slotId, slotHandles, scan, who>>
  BY DEF RecoverOpen, Goto, To, SlotsKept, slots
<1>3. \A s \in Slot : slotId[s] # v /\ (slotId[s] = -v => s = scan[p])
  BY <1>0, <1>1, Ids DEF Base, Kept, SlotsAreOwned
<1>4. ASSUME NEW q \in Proc, Took(q), who[q] = v  PROVE q = p
  <2>1. slotId[scan[q]] = -v
    BY <1>4 DEF Base, Kept, RecoversDead, Found, Took, Alive
  <2> QED  BY <1>0, <1>3, <1>4, <2>1 DEF Base, Kept, RecoversDead
<1>5. ASSUME NEW q \in Proc, Took(q)', who'[q] = v  PROVE q = p
  BY <1>0, <1>2, <1>4, <1>5, OthersOwn
<1>6. Recoverable(v)' = {} /\ TakingOff(v)' = {}
  BY <1>0, <1>2, <1>3, <1>5 DEF Recoverable, TakingOff, CallsTyped
<1>7. Owes(v)' = {}
  BY <1>0, <1>6 DEF Owes
<1>8. 1 .. got[p] \subseteq Owes(v)
  BY <1>0, <1>1 DEF Owes, TakingOff
<1>9. Owed' \subseteq Owed
  BY <1>0, OwedSinks DEF RecoverOpen, RetainOpen, Goto, Step
<1>10. Owed' = UNION {{u} \X Owes(u)' : u \in Proc}
  BY DEF Owed
<1>11. Owed = UNION {{u} \X Owes(u) : u \in Proc}
  BY DEF Owed
<1>12. {v} \X (1 .. got[p]) \subseteq Owed
  BY ONLY <1>0, <1>1, <1>8, <1>11
<1>13. \A n : <<v, n>> \notin Owed'
  BY ONLY <1>7, <1>10
<1> QED  BY <1>1, <1>9, <1>12, <1>13

\* Four calls store the count of open handles, one of which finds it zero.
LEMMA OpenStays ==
  ASSUME Base, NEW p \in Proc, LeaseCall(p), ~RetainOpen(p), ~ReleaseOpen(p), ~RecoverOpen(p)
  PROVE  open' = open
<1> USE DEF SlotsKept
<1>1. CASE Open(p) \/ Retain(p) \/ Timer(p) \/ Release(p) \/ Reset(p)
           \/ \E v \in Proc : RecoverTerminated(p, v)
  BY <1>1 DEF Open, Retain, Timer, Release, Reset, RecoverTerminated
<1>2. CASE ResetStep(p)
  <2>1. pc[p] = "resetZero" => why[p] = "wipe"
    BY DEF Base, Known, CallOK
  <2>2. why[p] = "wipe" => open = 0
    BY DEF Base, Kept, LeaseFits
  <2> QED  BY <1>2, <2>1, <2>2 DEF ResetStep, ResetRefused, ResetFiles, ResetZero, Goto, Step
<1>3. CASE ClaimSlot(p) \/ Clear(p)
  BY <1>3 DEF ClaimSlot, ClaimId, ClaimHb, ClaimCount, ClaimEmpty, ClaimStamp, ClaimCas, ClaimReset,
     Clear, ClearId, ClearHandles, ClearHb
<1>4. CASE Handle(p) \/ Recover(p)
  BY <1>4 DEF Handle, RetainSlot, Beat, BeatStore, ReleaseId, ReleaseHandles, ReleaseSub, Recover,
     RecoverId, RecoverHb, RecoverCas, RecoverCheck, RecoverUndo, RecoverHandles,
     RecoverQuarantine, TerminatedCas
<1> QED  BY <1>1, <1>2, <1>3, <1>4 DEF LeaseCall

\* What is added to a finite set, or taken off, adds to its size.
LEMMA OneMore ==
  ASSUME NEW S, NEW x, IsFiniteSet(S)
  PROVE  /\ IsFiniteSet(S \cup {x})
         /\ Cardinality(S \cup {x}) \in Nat /\ Cardinality(S \cup {x}) <= Cardinality(S) + 1
<1>1. Cardinality(S) \in Nat
  BY FS_CardinalityType
<1>2. /\ IsFiniteSet(S \cup {x})
      /\ Cardinality(S \cup {x}) = IF x \in S THEN Cardinality(S) ELSE Cardinality(S) + 1
  BY FS_AddElement
<1> QED  BY ONLY <1>1, <1>2

\* The same for an element that is taken out,
LEMMA OneLess ==
  ASSUME NEW S, NEW x \in S, IsFiniteSet(S)
  PROVE  /\ IsFiniteSet(S \ {x})
         /\ Cardinality(S \ {x}) \in Nat /\ Cardinality(S \ {x}) = Cardinality(S) - 1
<1>1. /\ IsFiniteSet(S \ {x})
      /\ Cardinality(S \ {x}) = IF x \in S THEN Cardinality(S) - 1 ELSE Cardinality(S)
  BY FS_RemoveElement
<1>2. Cardinality(S \ {x}) \in Nat
  BY <1>1, FS_CardinalityType
<1> QED  BY <1>1, <1>2

\* for the handles of one owner,
LEMMA RowCount ==
  ASSUME NEW v, NEW n \in Nat
  PROVE  IsFiniteSet({v} \X (1 .. n)) /\ Cardinality({v} \X (1 .. n)) = n
<1>1. IsFiniteSet({v}) /\ Cardinality({v}) = 1
  BY FS_Singleton
<1>2. 1 \in Int /\ n \in Int
  OBVIOUS
<1>3. IsFiniteSet(1 .. n) /\ Cardinality(1 .. n) = IF 1 > n THEN 0 ELSE n - 1 + 1
  BY ONLY <1>2, FS_Interval
<1>4. Cardinality(1 .. n) = n
  BY ONLY <1>3, n \in Nat
<1>5. /\ IsFiniteSet({v} \X (1 .. n))
      /\ Cardinality({v} \X (1 .. n)) = Cardinality({v}) * Cardinality(1 .. n)
  BY ONLY <1>1, <1>3, FS_Product
<1> QED  BY ONLY <1>1, <1>4, <1>5, n \in Nat

\* and for a subset that is taken out.
LEMMA Remainder ==
  ASSUME NEW S, NEW D \in SUBSET S, IsFiniteSet(S)
  PROVE  /\ IsFiniteSet(S \ D) /\ Cardinality(S \ D) \in Nat
         /\ Cardinality(S \ D) = Cardinality(S) - Cardinality(D)
<1>1. S \cap D = D
  OBVIOUS
<1>2. IsFiniteSet(S \ D) /\ Cardinality(S \ D) = Cardinality(S) - Cardinality(S \cap D)
  BY FS_Difference
<1>3. Cardinality(S \ D) \in Nat
  BY <1>2, FS_CardinalityType
<1> QED  BY <1>1, <1>2, <1>3

\* The count of open handles covers what may still be taken off it.
LEMMA OpenStaysCovering ==
  ASSUME Base, NEW p \in Proc, LeaseCall(p), ~overrun'
  PROVE  OpenCoversOwed'
<1>0. /\ IsFiniteSet(Owed) /\ open \in Nat /\ Cardinality(Owed) \in Nat /\ open >= Cardinality(Owed)
      /\ got[p] \in Int
  BY FS_CardinalityType DEF Base, Known, Kept, OpenCoversOwed, LeaseTyped, SlotsTyped, CallsTyped
<1>s. ASSUME NEW S, IsFiniteSet(S), Owed' \subseteq S, open' >= Cardinality(S), open' \in Nat
      PROVE  OpenCoversOwed'
  <2>1. IsFiniteSet(Owed') /\ Cardinality(Owed') <= Cardinality(S)
    BY <1>s, FS_Subset
  <2>2. Cardinality(Owed') \in Nat /\ Cardinality(S) \in Nat
    BY <1>s, <2>1, FS_CardinalityType
  <2> QED  BY <1>s, <2>1, <2>2 DEF OpenCoversOwed
<1>1. CASE RetainOpen(p)
  <2> DEFINE S == Owed \cup {<<p, count[p] + 1>>}
  <2>1. IsFiniteSet(S) /\ Cardinality(S) <= Cardinality(Owed) + 1 /\ Cardinality(S) \in Nat
    BY <1>0, OneMore
  <2>2. Owed' \subseteq S
    BY <1>1, RetainOwesOne
  <2>3. open' = open + 1
    BY <1>1 DEF RetainOpen
  <2> HIDE DEF S
  <2> QED  BY <1>0, <1>s, <2>1, <2>2, <2>3
<1>2. CASE ReleaseOpen(p)
  <2> DEFINE S == Owed \ {<<p, count[p] + 1>>}
  <2>1. <<p, count[p] + 1>> \in Owed /\ Owed' \subseteq S
    BY <1>2, ReleasePaysOne
  <2>2. IsFiniteSet(S) /\ Cardinality(S) = Cardinality(Owed) - 1 /\ Cardinality(S) \in Nat
    BY <1>0, <2>1, OneLess
  <2>3. open' = open - 1 /\ open' \in Nat
    BY <1>0, <1>2, <2>2 DEF ReleaseOpen, Reduced
  <2> HIDE DEF S
  <2> QED  BY <1>0, <1>s, <2>1, <2>2, <2>3
<1>3. CASE RecoverOpen(p) /\ got[p] > 0
  <2> DEFINE D == {who[p]} \X (1 .. got[p])
             S == Owed \ D
  <2>1. D \subseteq Owed /\ Owed' \subseteq S
    BY <1>3, RecoveryPaysAll
  <2>2. IsFiniteSet(D) /\ Cardinality(D) = got[p]
    <3>1. got[p] \in Nat
      BY <1>0, <1>3
    <3> QED  BY ONLY <3>1, RowCount
  <2> HIDE DEF D
  <2>4. IsFiniteSet(S) /\ Cardinality(S) = Cardinality(Owed) - got[p] /\ Cardinality(S) \in Nat
    BY <1>0, <2>1, <2>2, Remainder
  <2> HIDE DEF S
  <2>5. open' = open - got[p] /\ open' \in Nat
    BY <1>0, <1>3, <2>4 DEF RecoverOpen, Reduced
  <2> QED  BY <1>0, <1>s, <2>1, <2>4, <2>5
<1>4. CASE ~RetainOpen(p) /\ open' = open
  BY <1>0, <1>4, <1>s, OwedSinks
<1>5. RecoverOpen(p) /\ ~(got[p] > 0) => ~RetainOpen(p) /\ open' = open
  BY DEF RecoverOpen, RetainOpen, Goto, Step
<1> QED  BY <1>1, <1>2, <1>3, <1>4, <1>5, OpenStays

\* Each call keeps all of it.
LEMMA CallsKeepSlots ==
  ASSUME Base, NEW p \in Proc, LeaseCall(p), ~overrun'
  PROVE  Kept'
BY AllFit, NobodyEvicted, SlotsStayOwned, BeatsStay, RecoveriesStay, SlotsStayBacked,
   OpenStaysCovering DEF Kept

\* So does what leaves the cells of the leases alone; the heartbeats may age.
LEMMA AsideKeepsSlots ==
  ASSUME Kept, LivingBeat', dead' = dead,
         UNCHANGED <<slotId, slotHandles, open, pc, why, scan, got, who, lease, count, timer, over,
                     evicted>>
  PROVE  Kept'
<1>1. (\A p \in Proc : LeaseFits(p)') /\ evicted' = {}
  BY DEF Kept, LeaseFits
<1>2. SlotsAreOwned'
  BY DEF Kept, SlotsAreOwned, Owns
<1>3. \A q \in Proc : Took(q)' <=> Took(q)
  BY DEF Took, Alive
<1>4. RecoversDead'
  BY <1>3 DEF Kept, RecoversDead, Found, Gone
<1>5. SlotsAreBacked'
  BY DEF Kept, SlotsAreBacked, Owns, Backed
<1>6. ASSUME NEW v \in Proc
      PROVE  Owes(v)' = Owes(v)
  <2>1. Recoverable(v)' = Recoverable(v)
    BY <1>3 DEF Recoverable
  <2>2. TakingOff(v)' = TakingOff(v)
    BY <1>3 DEF TakingOff
  <2> QED  BY <2>1, <2>2 DEF Owes, Due
<1>7. Owed' = Owed
  BY <1>6 DEF Owed
<1>8. OpenCoversOwed'
  BY <1>7 DEF Kept, OpenCoversOwed
<1> QED  BY <1>1, <1>2, <1>4, <1>5, <1>8 DEF Kept

\* Who dies owes no more than it did alive, unless it has just won a slot in
\* which another that died left a count.
LEMMA DeadOweNoMore ==
  ASSUME Base, NEW p \in Proc, Die(p), UNCHANGED leaseVars, pc[p] # "claimReset" \/ dead = {}
  PROVE  Owed' \subseteq Owed
<1>0. /\ dead' = dead \cup {p} /\ p \notin dead
      /\ UNCHANGED <<slotId, slotHandles, pc, scan, got, who, count>>
      /\ slotHandles \in [Slot -> Int] /\ (\A q \in Proc : got[q] \in Int)
      /\ CallsTyped /\ LeasesTyped /\ SlotsAreOwned /\ SlotsAreBacked /\ RecoversDead
  BY DEF Die, Alive, leaseVars, slots, local, Base, Known, Kept, LeaseTyped, SlotsTyped, CallsTyped
<1>1. ASSUME NEW q \in Proc, Took(q)'
      PROVE  Took(q) /\ who[q] # p
  BY <1>0, <1>1 DEF Took, Alive, RecoversDead, Found
<1>2. ASSUME NEW v \in Proc, NEW n \in Owes(v)'
      PROVE  n \in Owes(v)
  <2>1. CASE v # p /\ v \notin dead
    BY <1>0, <1>2, <2>1 DEF Owes, Due
  <2>2. CASE v \in dead
    <3>1. Recoverable(v)' \subseteq Recoverable(v)
      BY <1>0, <1>1 DEF Recoverable
    <3>2. TakingOff(v)' \subseteq TakingOff(v)
      BY <1>0, <1>1 DEF TakingOff
    <3> QED  BY <1>0, <1>2, <2>2, <3>1, <3>2 DEF Owes
  <2>3. CASE v = p
    <3>1. n \in Nat \ {0} /\ TakingOff(p)' = {}
      BY <1>0, <1>1, <1>2 DEF Owes, TakingOff
    <3>2. PICK s \in Recoverable(p)' : n <= slotHandles[s]
      BY <1>0, <1>2, <2>3, <3>1 DEF Owes
    <3>3. slotId[s] = p /\ s \in Slot
      BY <1>0, <1>1 DEF Recoverable
    <3>4. slotHandles[s] <= Backed(p)
      BY <1>0, <3>3 DEF SlotsAreOwned, SlotsAreBacked
    <3>5. Backed(p) <= Due(p) /\ Backed(p) \in Int /\ Due(p) \in Int
      BY <1>0 DEF Backed, Due, LeasesTyped
    <3> QED  BY <1>0, <2>3, <3>1, <3>2, <3>3, <3>4, <3>5 DEF Owes
  <2> QED  BY <2>1, <2>2, <2>3
<1>3. Owed' = UNION {{v} \X Owes(v)' : v \in Proc}
  BY DEF Owed
<1>4. Owed = UNION {{v} \X Owes(v) : v \in Proc}
  BY DEF Owed
<1> QED  BY ONLY <1>2, <1>3, <1>4

\* A death leaves the slots and what is owed as they were.
LEMMA DeathKeepsSlots ==
  ASSUME Base, NEW p \in Proc, Die(p), UNCHANGED leaseVars, pc[p] # "claimReset" \/ dead = {}
  PROVE  Kept'
<1>0. /\ dead' = dead \cup {p} /\ p \notin dead
      /\ UNCHANGED <<slotId, slotHandles, slotAge, open, pc, why, scan, got, who, lease, count,
                     timer, over, evicted>>
  BY DEF Die, Alive, leaseVars, slots, local, history
<1>1. (\A q \in Proc : LeaseFits(q)') /\ evicted' = {}
  BY <1>0 DEF Base, Kept, LeaseFits
<1>2. SlotsAreOwned' /\ LivingBeat'
  BY <1>0 DEF Base, Kept, SlotsAreOwned, LivingBeat, Owns
<1>3. ASSUME NEW q \in Proc, Took(q)'
      PROVE  Took(q)
  BY <1>0, <1>3 DEF Took, Alive
<1>4. RecoversDead'
  BY <1>0, <1>3 DEF Base, Kept, RecoversDead, Found, Gone
<1>5. SlotsAreBacked'
  BY <1>0 DEF Base, Kept, SlotsAreBacked, Owns, Backed
<1>6. OpenCoversOwed'
  <2>1. IsFiniteSet(Owed) /\ open >= Cardinality(Owed) /\ open \in Nat
    BY DEF Base, Known, Kept, OpenCoversOwed, LeaseTyped, SlotsTyped
  <2>2. Owed' \subseteq Owed
    BY DeadOweNoMore
  <2>3. IsFiniteSet(Owed') /\ Cardinality(Owed') <= Cardinality(Owed)
    BY <2>1, <2>2, FS_Subset
  <2>4. Cardinality(Owed') \in Nat /\ Cardinality(Owed) \in Nat
    BY <2>1, <2>3, FS_CardinalityType
  <2> QED  BY <1>0, <2>1, <2>3, <2>4 DEF OpenCoversOwed
<1> QED  BY <1>1, <1>2, <1>4, <1>5, <1>6 DEF Kept

\* A process that died stays where it died.
LEMMA DeathsStayClean ==
  ASSUME LeaseTyped, [Next]_allVars, dead \subseteq Mortal, Mortal \subseteq Proc
  PROVE  /\ dead \subseteq dead' /\ dead' \subseteq Mortal
         /\ CleanDeaths' => CleanDeaths
         /\ overrun => overrun'
<1>1. CASE UNCHANGED allVars \/ Tick
  BY <1>1 DEF allVars, attachedVars, leaseVars, history, Tick, CleanDeaths
<1>2. ASSUME NEW p \in Proc, LeaseCall(p)
      PROVE  /\ dead \subseteq dead' /\ dead' \subseteq Mortal
             /\ CleanDeaths' => CleanDeaths
             /\ overrun => overrun'
  <2>1. dead' = dead /\ p \notin dead /\ (overrun => overrun')
    BY <1>2, CallerLives, CallHistory DEF LeaseTyped, Alive
  <2>2. \A q \in dead : pc'[q] = pc[q]
    BY <1>2, <2>1, OthersStay DEF Untouched
  <2> QED  BY <2>1, <2>2 DEF CleanDeaths
<1>3. ASSUME NEW p \in Proc, AttachedCall(p)
      PROVE  /\ dead \subseteq dead' /\ dead' \subseteq Mortal
             /\ CleanDeaths' => CleanDeaths
             /\ overrun => overrun'
  <2>1. UNCHANGED leaseVars /\ (dead' = dead \/ Die(p))
    BY <1>3 DEF AttachedCall, AskAttached, LockAttached, CleanUp, Terminate, Ask, Lock,
       CheckQuarantine, Claim, ClaimFails, Retry, Name, Confirm, Unlock, Unname, Drop, Quarantine,
       QuarantineLoadOwner, QuarantineLoadLock, QuarantineFlag, Wipe, WipeLock, WipeOwner, WipeFlag
  <2>2. dead \subseteq dead' /\ dead' \subseteq Mortal
    BY <2>1 DEF Die
  <2> QED  BY <2>1, <2>2 DEF leaseVars, history, CleanDeaths
<1> QED  BY <1>1, <1>2, <1>3 DEF Next, Work, LeaseCall, AttachedCall

\* Every step keeps the slots of the living theirs, and their handles counted.
LEMMA NextKeepsSlots ==
  ASSUME Punctual, LeaseInv, SlotsInv, [Next]_allVars
  PROVE  SlotsInv'
<1>0. Known /\ Mortal \subseteq Proc
  BY TypeParts, ProcAssumption DEF LeaseInv, Known
<1>1. dead \subseteq dead' /\ dead' \subseteq Mortal /\ (CleanDeaths' => CleanDeaths)
      /\ (overrun => overrun')
  BY <1>0, DeathsStayClean DEF Known, SlotsInv
<1> SUFFICES ASSUME ~overrun', CleanDeaths'
             PROVE  Kept'
  BY <1>1 DEF SlotsInv
<1>2. Base
  BY <1>0, <1>1 DEF SlotsInv, Base
<1>3. CASE UNCHANGED allVars
  <2>1. LivingBeat'
    BY <1>2, <1>3 DEF Base, Kept, LivingBeat, Owns, allVars, attachedVars, leaseVars, slots, local
  <2> QED  BY <1>2, <1>3, <2>1, AsideKeepsSlots DEF Base, allVars, attachedVars, leaseVars, slots,
              local, history
<1>4. CASE Tick
  <2>1. LivingBeat'
    BY <1>2, <1>4, TickKeepsBeats
  <2> QED  BY <1>2, <1>4, <2>1, AsideKeepsSlots DEF Base, Tick, attachedVars, local, history
<1>5. ASSUME NEW p \in Proc, LeaseCall(p)  PROVE Kept'
  BY <1>2, <1>5, CallsKeepSlots
<1>6. ASSUME NEW p \in Proc, AttachedCall(p)  PROVE Kept'
  <2>1. UNCHANGED leaseVars
    BY <1>6 DEF AttachedCall, AskAttached, LockAttached, CleanUp, Terminate
  <2>2. CASE dead' = dead
    <3>1. LivingBeat'
      BY <1>2, <2>1, <2>2 DEF Base, Kept, LivingBeat, Owns, leaseVars, slots, local
    <3> QED  BY <1>2, <2>1, <2>2, <3>1, AsideKeepsSlots DEF Base, leaseVars, slots, local, history
  <2>3. CASE Die(p)
    <3>1. pc[p] # "claimReset" \/ dead = {}
      <4>1. p \in Mortal /\ p \in dead' /\ p \notin dead /\ pc'[p] = pc[p]
        BY <2>1, <2>3 DEF Die, Alive, leaseVars
      <4> QED  BY <4>1 DEF CleanDeaths, SlotsInv
    <3> QED  BY <1>2, <2>1, <2>3, <3>1, DeathKeepsSlots
  <2>4. dead' = dead \/ Die(p)
    BY <1>6 DEF AttachedCall, AskAttached, LockAttached, CleanUp, Terminate, Ask, Lock,
       CheckQuarantine, Claim, ClaimFails, Retry, Name, Confirm, Unlock, Unname, Drop, Quarantine,
       QuarantineLoadOwner, QuarantineLoadLock, QuarantineFlag, Wipe, WipeLock, WipeOwner, WipeFlag
  <2> QED  BY <2>2, <2>3, <2>4
<1> QED  BY <1>3, <1>4, <1>5, <1>6 DEF Next, Work, LeaseCall, AttachedCall

\* At first there are no slots, no handles and no deaths.
LEMMA InitSlots == InitLease => SlotsInv
<1> SUFFICES ASSUME InitLease PROVE dead \subseteq Mortal /\ Kept
  BY DEF SlotsInv
<1> USE SlotFacts, LeaseAssumption DEF InitLease, InitAttached
<1>1. dead = {} /\ evicted = {}
  OBVIOUS
<1>2. \A p \in Proc : LeaseFits(p)
  BY DEF LeaseFits, ClaimCalls, RetainCalls, BeatCalls, ReleaseCalls, ClearCalls, Pursuing
<1>3. \A p \in Proc, s \in Slot : ~Owns(p, s)
  BY DEF Owns
<1>4. SlotsAreOwned
  BY <1>3, ProcAssumption DEF SlotsAreOwned
<1>5. LivingBeat
  BY <1>3 DEF LivingBeat
<1>6. RecoversDead
  BY DEF RecoversDead, Found, Took
<1>7. SlotsAreBacked
  BY <1>3 DEF SlotsAreBacked
<1>8. OpenCoversOwed
  <2>1. \A p \in Proc : Owes(p) = {}
    <3> SUFFICES ASSUME NEW p \in Proc, NEW n \in Owes(p)  PROVE FALSE
      OBVIOUS
    <3>1. p \notin dead /\ count[p] = 0 /\ pc[p] = "rest"
      BY <1>1
    <3>2. n \in Nat \ {0} /\ n <= Due(p)
      BY ONLY <3>1, n \in Owes(p) DEF Owes
    <3> QED  BY ONLY <3>1, <3>2 DEF Due
  <2>2. Owed = {}
    BY ONLY <2>1 DEF Owed
  <2> QED  BY <2>2, FS_EmptySet DEF OpenCoversOwed
<1> QED  BY <1>1, <1>2, <1>4, <1>5, <1>6, <1>7, <1>8 DEF Kept

\* SlotsInv holds in every reachable state, if every heartbeat is on time.
THEOREM SlotsInvariant ==
  ASSUME Punctual
  PROVE  Spec => []SlotsInv
<1>1. InitLease => LeaseInv /\ SlotsInv
  BY InitQuiet, InitSlots
<1>2. LeaseInv /\ SlotsInv /\ [Next]_allVars => (LeaseInv /\ SlotsInv)'
  BY NextKeepsLeases, NextKeepsSlots
<1> QED  BY <1>1, <1>2, PTL DEF Spec

\* No live process loses its slot, or finds another's in its own, to a claim,
\* a clear or a recovery, as long as every heartbeat is on time.
THEOREM KeepsSlot == Spec => [](CleanDeaths => PunctualKeepsSlot)
<1>1. CASE Punctual
  <2>1. LeaseInv /\ SlotsInv => (CleanDeaths => PunctualKeepsSlot)
    <3> SUFFICES ASSUME LeaseInv, SlotsInv, CleanDeaths, ~overrun
                 PROVE  PunctualKeepsSlot
      BY DEF PunctualKeepsSlot
    <3>1. Base
      BY TypeParts DEF LeaseInv, SlotsInv, Base, Known
    <3>2. ASSUME NEW p \in Proc \ dead, lease[p] # 0,
                 ~(pc[p] \in {"clearHandles", "clearHb"} /\ why[p] = "release")
          PROVE  slotId[lease[p]] = p
      BY <3>1, <3>2, LeaseIsOwned
    <3> QED  BY <3>1, <3>2 DEF PunctualKeepsSlot, Base, Kept
  <2>2. Spec => []SlotsInv
    BY <1>1, SlotsInvariant
  <2> QED  BY <2>1, <2>2, LeaseInvariant, PTL
<1>2. CASE ~Punctual
  <2>1. CleanDeaths => PunctualKeepsSlot
    BY <1>2 DEF PunctualKeepsSlot
  <2> QED  BY <2>1, PTL
<1> QED  BY <1>1, <1>2

\* The count of open handles covers those of the living while claims, releases
\* and recoveries of slots run beside, so that no reset is let in under one, if
\* no owner died between winning a slot and resetting the count left in it
\* (CleanDeaths).
THEOREM HandlesAreCovered ==
  ASSUME Punctual
  PROVE  Spec => [](CleanDeaths => OpenCoversHandles)
<1>1. LeaseInv /\ SlotsInv => (CleanDeaths => OpenCoversHandles)
  <2> SUFFICES ASSUME LeaseInv, SlotsInv, CleanDeaths, ~overrun
               PROVE  open >= Cardinality(LiveHandles)
    BY DEF OpenCoversHandles
  <2>1. Base
    BY TypeParts DEF LeaseInv, SlotsInv, Base, Known
  <2>2. ASSUME NEW p \in Proc
        PROVE  1 .. Due(p) \subseteq Owes(p)
    BY <2>1 DEF Owes, Due, Base, Known, LeaseTyped, LeasesTyped
  <2>3. LiveHandles \subseteq Owed
    BY ONLY <2>2 DEF LiveHandles, Owed
  <2>4. IsFiniteSet(Owed) /\ open >= Cardinality(Owed) /\ open \in Nat
    BY <2>1 DEF Base, Known, Kept, OpenCoversOwed, LeaseTyped, SlotsTyped
  <2>5. IsFiniteSet(LiveHandles) /\ Cardinality(LiveHandles) <= Cardinality(Owed)
    BY <2>3, <2>4, FS_Subset
  <2>6. Cardinality(LiveHandles) \in Nat /\ Cardinality(Owed) \in Nat
    BY <2>4, <2>5, FS_CardinalityType
  <2> QED  BY <2>4, <2>5, <2>6
<1> QED  BY <1>1, SlotsInvariant, LeaseInvariant, PTL
=============================================================================
