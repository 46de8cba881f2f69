------------------------- MODULE OwnerLease_proofs -------------------------
(***************************************************************************)
(* The lock of an attached database, for any processes, whoever dies, is   *)
(* quarantined or resets the cells, and whenever: two transactions never   *)
(* run at once, neither alone nor beside the leases, whatever a claim,     *)
(* release, recovery or reset does, for any slots and stale period.  An    *)
(* owner that died in a transaction and was recovered left the file        *)
(* quarantined; no file is quarantined for another owner.  Every cell      *)
(* keeps its type.                                                         *)
(***************************************************************************)
EXTENDS OwnerLease, TLAPS

-----------------------------------------------------------------------------
(* The lock of the attached database *)

\* Only the processes that had the lock are excused by a reset.
WipedHadLock == \A p \in wiped : p \in Proc /\ HasLock(p)

\* The word is compared and set by one process at a time because it tells
\* who that is: the exclusion follows from LockIsOwners, which is inductive
\* beside the types of the program counters.
LockFacts ==
  /\ at \in [Proc -> {"idle"} \cup Locking]
  /\ WipedHadLock /\ LockIsOwners

\* A process is a positive number, other than 0 and than the negative ones.
LEMMA ProcFacts ==
  ASSUME NEW p \in Proc
  PROVE  /\ p \in Int /\ -p \in Int /\ p # Free /\ -p # Free /\ p # -p
         /\ \A q \in Proc : p # -q /\ (p # q => -p # -q)
BY ProcAssumption DEF Free

\* A call on the lock changes the word only for the process that has it, or
\* when nobody has.
LEMMA LockKeepsFacts ==
  ASSUME LockFacts, NEW p \in Proc, Ask(p) \/ Lock(p)
  PROVE  LockFacts'
<1> USE ProcFacts DEF Locking, Claiming, Unclaiming, HasLock
<1>1. CASE Ask(p) \/ CheckQuarantine(p) \/ ClaimFails(p) \/ Retry(p)
  BY <1>1 DEF LockFacts, WipedHadLock, LockIsOwners, Ask, CheckQuarantine, ClaimFails, Retry,
     Move, fileCells
<1>2. CASE Name(p) \/ Unname(p)
  BY <1>2 DEF LockFacts, WipedHadLock, LockIsOwners, Name, Unname, Move
<1>3. CASE Claim(p)
  <2>1. at' = [at EXCEPT ![p] = "name"] /\ at[p] = "cas" /\ txLock = Free /\ txLock' = -p
        /\ wiped' = wiped
    BY <1>3 DEF Claim, CanClaim, Move
  <2>2. \A q \in Proc \ wiped : ~HasLock(q)
    BY <2>1 DEF LockFacts, LockIsOwners
  <2> QED  BY <2>1, <2>2 DEF LockFacts, WipedHadLock, LockIsOwners
<1>4. CASE Confirm(p)
  <2>1. CASE txLock = -p
    BY <1>4, <2>1 DEF LockFacts, WipedHadLock, LockIsOwners, Confirm, Move
  <2>2. CASE txLock # -p
    BY <1>4, <2>2 DEF LockFacts, WipedHadLock, LockIsOwners, Confirm, Move
  <2> QED  BY <2>1, <2>2
<1>5. CASE Unlock(p)
  <2>1. CASE txLock = p
    BY <1>5, <2>1 DEF LockFacts, WipedHadLock, LockIsOwners, Unlock, Move
  <2>2. CASE txLock # p
    BY <1>5, <2>2 DEF LockFacts, WipedHadLock, LockIsOwners, Unlock, Move
  <2> QED  BY <2>1, <2>2
<1>6. CASE Drop(p)
  BY <1>6 DEF LockFacts, WipedHadLock, LockIsOwners, Drop, Move
<1> QED  BY <1>1, <1>2, <1>3, <1>4, <1>5, <1>6 DEF Lock

\* A reset excuses those it takes the lock from.
LEMMA WipeKeepsFacts ==
  ASSUME LockFacts, NEW r \in Proc, Wipe(r)
  PROVE  LockFacts'
<1>1. CASE WipeLock(r)
  BY <1>1 DEF LockFacts, WipedHadLock, LockIsOwners, WipeLock, Turn, HasLock, Claiming, Unclaiming
<1>2. CASE WipeOwner(r) \/ WipeFlag(r)
  BY <1>2 DEF LockFacts, WipedHadLock, LockIsOwners, WipeOwner, WipeFlag, Turn, HasLock
<1> QED  BY <1>1, <1>2 DEF Wipe

\* Whatever leaves the word, the calls and the excused alone keeps the facts.
LEMMA OthersKeepFacts ==
  ASSUME LockFacts, UNCHANGED <<txLock, at, wiped>>
  PROVE  LockFacts'
BY DEF LockFacts, WipedHadLock, LockIsOwners, HasLock

\* A quarantine and a termination are of that kind.
LEMMA QuarantineLeavesLock ==
  ASSUME NEW r \in Proc,
         Quarantine(r) \/ StartWipe(r) \/ Die(r) \/ \E v : StartQuarantine(r, v)
  PROVE  UNCHANGED <<txLock, at, wiped>>
BY DEF Quarantine, QuarantineLoadOwner, QuarantineLoadLock, QuarantineFlag, StartQuarantine,
   StartWipe, Die, Turn, fileCells

\* The lock is free at first.
LEMMA InitFacts == InitAttached => LockFacts
BY DEF InitAttached, LockFacts, WipedHadLock, LockIsOwners, Claiming, Unclaiming

\* Two processes cannot both find their own id in the word.
LEMMA FactsExclude == LockFacts => OneTransaction
BY ProcFacts DEF LockFacts, LockIsOwners, OneTransaction, HasLock

\* The word belongs to the process that is handed it, in all interleavings of
\* tries, releases, quarantines, resets and terminations.
THEOREM AttachedLockIsOwners == SpecAttached => []LockFacts
<1>1. LockFacts /\ [NextAttached]_attachedVars => LockFacts'
  <2> SUFFICES ASSUME LockFacts, [NextAttached]_attachedVars PROVE LockFacts'
    OBVIOUS
  <2>1. CASE UNCHANGED attachedVars
    BY <2>1, OthersKeepFacts DEF attachedVars, fileCells
  <2>2. CASE NextAttached
    BY <2>2, LockKeepsFacts, WipeKeepsFacts, QuarantineLeavesLock, OthersKeepFacts
    DEF NextAttached
  <2> QED  BY <2>1, <2>2
<1> QED  BY <1>1, InitFacts, PTL DEF SpecAttached

\* Two transactions never run on an attached database at the same time.
THEOREM AttachedExclusion == SpecAttached => []OneTransaction
BY AttachedLockIsOwners, FactsExclude, PTL

-----------------------------------------------------------------------------
(* The lock beside the leases *)

\* What the leases do beside the lock is not seen by it.
Unseen == UNCHANGED <<txLock, at, wiped>>

\* Claims, releases and heartbeats do not touch the attached database.
LEMMA HandlesAreAside ==
  ASSUME NEW p \in Proc,
         \/ Open(p) \/ ClaimSlot(p) \/ Retain(p) \/ Timer(p) \/ Release(p) \/ Handle(p) \/ Clear(p)
  PROVE  Unseen
<1>1. CASE Open(p) \/ ClaimSlot(p)
  BY <1>1 DEF Unseen, attachedVars, fileCells, Aside, Open, ClaimSlot, ClaimId, ClaimHb, ClaimCount,
     ClaimEmpty, ClaimStamp, ClaimCas, ClaimReset
<1>2. CASE Retain(p) \/ Timer(p) \/ Release(p) \/ Handle(p)
  BY <1>2 DEF Unseen, attachedVars, fileCells, Aside, Retain, Timer, Release, Handle, RetainOpen, RetainSlot,
     Beat, BeatStore, ReleaseId, ReleaseHandles, ReleaseSub, ReleaseOpen
<1>3. CASE Clear(p)
  BY <1>3 DEF Unseen, attachedVars, fileCells, Clear, ClearId, ClearHandles, ClearHb
<1> QED  BY <1>1, <1>2, <1>3

\* A recovery and a reset only start a quarantine or a wipe.
LEMMA RecoveriesAreAside ==
  ASSUME NEW p \in Proc,
         \/ Recover(p) \/ Reset(p) \/ ResetStep(p) \/ \E v \in Proc : RecoverTerminated(p, v)
  PROVE  Unseen
<1>1. CASE RecoverQuarantine(p)
  BY <1>1, QuarantineLeavesLock DEF RecoverQuarantine, Unseen
<1>2. CASE ResetFiles(p)
  BY <1>2, QuarantineLeavesLock DEF ResetFiles, Unseen
<1>3. CASE Recover(p) /\ ~RecoverQuarantine(p)
  BY <1>3 DEF Unseen, attachedVars, fileCells, Aside, Recover, RecoverId, RecoverHb, RecoverCas, RecoverCheck,
     RecoverUndo, RecoverHandles, RecoverOpen, TerminatedCas
<1>4. CASE Reset(p) \/ ResetRefused(p) \/ ResetZero(p) \/ \E v \in Proc : RecoverTerminated(p, v)
  BY <1>4 DEF Unseen, attachedVars, fileCells, Aside, Reset, ResetRefused, ResetZero, RecoverTerminated
<1> QED  BY <1>1, <1>2, <1>3, <1>4 DEF ResetStep

\* Every step of the composition keeps what the exclusion rests on.
LEMMA NextKeepsFacts == LockFacts /\ [Next]_allVars => LockFacts'
<1> SUFFICES ASSUME LockFacts, [Next]_allVars PROVE LockFacts'
  OBVIOUS
<1>1. CASE Unseen
  BY <1>1, OthersKeepFacts DEF Unseen
<1>2. CASE UNCHANGED allVars \/ Tick
  BY <1>1, <1>2 DEF allVars, attachedVars, fileCells, Tick, Unseen
<1>3. ASSUME NEW p \in Proc, AskAttached(p) \/ LockAttached(p)  PROVE LockFacts'
  BY <1>3, LockKeepsFacts DEF AskAttached, LockAttached
<1>4. ASSUME NEW p \in Proc, CleanUp(p) \/ Terminate(p)  PROVE LockFacts'
  BY <1>1, <1>4, WipeKeepsFacts, QuarantineLeavesLock DEF CleanUp, Terminate, Unseen
<1>5. ASSUME NEW p \in Proc,
             \/ Open(p) \/ Retain(p) \/ Release(p) \/ Timer(p) \/ Reset(p)
             \/ ClaimSlot(p) \/ Handle(p) \/ Clear(p) \/ Recover(p) \/ ResetStep(p)
             \/ \E v \in Proc : RecoverTerminated(p, v)
      PROVE  LockFacts'
  BY <1>1, <1>5, HandlesAreAside, RecoveriesAreAside
<1> QED  BY <1>2, <1>3, <1>4, <1>5 DEF Next, Work

\* Two transactions never run on an attached database at the same time, while
\* leases are claimed, recovered, quarantined and reset around it.
THEOREM LeaseExclusion == Spec => []OneTransaction
<1>1. InitLease => LockFacts  BY InitFacts DEF InitLease
<1> QED  BY <1>1, NextKeepsFacts, FactsExclude, PTL DEF Spec
-----------------------------------------------------------------------------
(* Who is quarantined *)

\* The owner of the lock is named in its cell between these two calls.
Named(p) == at[p] \in {"confirm", "held", "unname"}

\* The calls of a recovery at which the owner it recovers is known.
Pursuing == {"recHb", "recCas", "recCheck", "recUndo", "recHandles", "recOpen",
             "recQuarantine", "termCas"}
Recovering(p) == pc[p] \in Pursuing \cup {"clearId"}

\* A process that uses the attached database has a handle; a quarantine or a
\* wipe is part of the call a process stands at, with what that call needs.
CallOK(p) ==
  /\ at[p] # "idle" /\ Alive(p) => count[p] > 0
  /\ task[p] \in Wiping => pc[p] = "resetZero"
  /\ task[p] \in Quarantining => pc[p] = "clearId" /\ victim[p] = who[p] /\ who[p] # 0
  /\ pc[p] = "resetZero" => why[p] = "wipe"
  /\ pc[p] = "rest" => why[p] # "wipe"
  /\ who[p] # 0 => Recovering(p)
  /\ pc[p] \in Pursuing => who[p] # 0
  /\ pc[p] \in {"relId", "relHandles"} => lease[p] # 0

\* From the time a recovery goes through, its owner is dead, or evicted.
RecoveredIsLost ==
  /\ \A p \in Proc :
       pc[p] \in {"recOpen", "recQuarantine", "clearId"} /\ who[p] # 0 =>
         who[p] \in dead \cup evicted
  /\ condemned \subseteq dead \cup evicted /\ buried \subseteq dead

\* A reset that met nobody else at work: the others use nothing.
WipeIsAlone ==
  \A p \in Proc \ dead : why[p] = "wipe" =>
    \A q \in Proc \ {p} : Alive(q) => count[q] = 0 /\ why[q] # "wipe"

\* The one who wiped the cells may have had the lock.
WipedIsHeld ==
  \A p \in wiped \ dead :
    /\ at[p] = "held" /\ txLock \notin {p, -p}
    /\ task[p] # "wipeOwner" => txOwner # p

\* While the cells are wiped nobody has the lock who is not excused.
WipeEmpties ==
  \A p \in Proc : Alive(p) /\ task[p] \in {"wipeOwner", "wipeFlag"} =>
    \A q \in Proc : HasLock(q) => q \in wiped

\* The owner cell names the one who has the lock.
OwnerIsNamed ==
  /\ txOwner # 0 => Named(txOwner)
  /\ \A p \in Proc \ wiped : Named(p) => txOwner = p

\* What a quarantine has found of an owner that died, before it flags the file.
FoundIsNamed ==
  \A r \in Proc : task[r] \in {"qLock", "qFlag"} /\ victim[r] \in dead \ evicted =>
    Named(victim[r])

\* After a quarantine its file is flagged, if the owner died in a transaction.
QuarantinedIsFlagged ==
  \A r \in Proc :
    pc[r] = "clearId" /\ task[r] = "none" /\ who[r] \in (dead \ evicted) \ wiped /\ Named(who[r])
      => abandoned = 1

CondemnedHasLock == \A v \in condemned : v \in dead \ evicted => HasLock(v)

BuriedIsFlagged == \A v \in buried \ wiped : Named(v) => abandoned = 1

\* What holds as long as no reset has run over others.
Quiet ==
  /\ WipeIsAlone /\ WipedIsHeld /\ WipeEmpties /\ OwnerIsNamed
  /\ FoundIsNamed /\ QuarantinedIsFlagged /\ CondemnedHasLock /\ BuriedIsFlagged

QuietInv == ~overrun => Quiet

LeaseInv ==
  /\ TypeOK /\ LockFacts /\ RecoveredIsLost /\ QuietInv
  /\ \A p \in Proc : CallOK(p)

-----------------------------------------------------------------------------
(* Types *)

OwnerIds == Proc \cup {0} \cup {-p : p \in Proc}
Calls == {"rest", "claimId", "claimHb", "claimCount", "claimEmpty", "claimStamp",
          "claimCas", "claimReset", "retainOpen", "retainSlot", "beat", "beatStore", "relId",
          "relHandles", "relSub", "relOpen", "clearId", "clearHandles", "clearHb", "recId",
          "recHb", "recCas", "recCheck", "recUndo", "recHandles", "recOpen", "recQuarantine",
          "termCas", "resetOpen", "resetZero"}
Callers == {"none", "claim", "again", "retain", "release", "timer", "terminated", "reset", "wipe"}

SlotsTyped ==
  /\ slotId \in [Slot -> OwnerIds] /\ slotHandles \in [Slot -> Int]
  /\ slotAge \in [Slot -> Never .. Late] /\ open \in Nat
CallsTyped ==
  /\ pc \in [Proc -> Calls] /\ why \in [Proc -> Callers]
  /\ scan \in [Proc -> Slot] /\ got \in [Proc -> Int] /\ who \in [Proc -> Proc \cup {0}]
LeasesTyped ==
  /\ lease \in [Proc -> Slot \cup {0}] /\ count \in [Proc -> Nat]
  /\ same \subseteq Proc /\ timer \subseteq Proc /\ over \subseteq Proc
HistoryTyped == evicted \subseteq Proc /\ buried \subseteq Proc /\ overrun \in BOOLEAN

LeaseTyped == SlotsTyped /\ CallsTyped /\ LeasesTyped /\ HistoryTyped

\* TypeOK in parts, since each function changes cells of few kinds.
LEMMA TypeParts ==
  /\ TypeOK <=> TypeOKAttached /\ LeaseTyped
  /\ TypeOK' <=> TypeOKAttached' /\ LeaseTyped'
BY DEF TypeOK, LeaseTyped, SlotsTyped, CallsTyped, LeasesTyped, HistoryTyped, Calls, Callers,
   OwnerIds

\* The slots are numbered from 1, and 0 stands for none.
LEMMA SlotFacts ==
  /\ Slots \in Nat /\ 1 \in Slot /\ 0 \notin Slot
  /\ \A s \in Slot : s \in Nat /\ s <= Slots /\ (s < Slots => s + 1 \in Slot)
  /\ Never \in Never .. Late /\ 0 \in Never .. Late
BY LeaseAssumption DEF Slot, Never, Late

\* A store keeps the type of a function; one outside the domain is none.
LEMMA StoreTyped ==
  ASSUME NEW S, NEW T, NEW f \in [S -> T], NEW k, NEW v, k \in S => v \in T
  PROVE  [f EXCEPT ![k] = v] \in [S -> T]
OBVIOUS

\* claimOwnerLeaseSlot keeps the types.
LEMMA ClaimTyped ==
  ASSUME LeaseTyped, NEW p \in Proc, ClaimSlot(p)
  PROVE  LeaseTyped'
<1> USE SlotFacts DEF LeaseTyped, SlotsTyped, CallsTyped, LeasesTyped, HistoryTyped, Calls, Callers,
    Step, To, Goto, Look, For, NextToClaim, Aside, SlotsKept, slots, local, history, Beatless, Stamp
<1>1. CASE ClaimId(p)
  BY <1>1 DEF ClaimId
<1>2. CASE ClaimHb(p)
  BY <1>2 DEF ClaimHb
<1>3. CASE ClaimCount(p)
  BY <1>3 DEF ClaimCount
<1>4. CASE ClaimEmpty(p)
  BY <1>4 DEF ClaimEmpty
<1>5. CASE ClaimStamp(p)
  BY <1>5 DEF ClaimStamp
<1>6. CASE ClaimCas(p)
  <2>1. CASE slotId[scan[p]] = 0
    BY <1>6, <2>1 DEF ClaimCas, OwnerIds
  <2>2. CASE slotId[scan[p]] # 0
    BY <1>6, <2>2 DEF ClaimCas
  <2> QED BY <2>1, <2>2
<1>7. CASE ClaimReset(p)
  BY <1>7 DEF ClaimReset
<1> QED BY <1>1, <1>2, <1>3, <1>4, <1>5, <1>6, <1>7, Zenon DEF ClaimSlot

\* What follows the last call of a release keeps the types of what it changes.
LEMMA AfterReleaseTyped ==
  ASSUME LeaseTyped, NEW p \in Proc, AfterRelease(p)
  PROVE  /\ pc' \in [Proc -> Calls] /\ why' \in [Proc -> Callers]
         /\ lease' \in [Proc -> Slot \cup {0}] /\ timer' \subseteq Proc /\ over' \subseteq Proc
<1> USE DEF LeaseTyped, CallsTyped, LeasesTyped
<1>1. pc' \in [Proc -> Calls] /\ why' \in [Proc -> Callers]
  BY DEF AfterRelease, Rest, To, For, Calls, Callers
<1>2. CASE EndLease(p)
  BY <1>1, <1>2 DEF EndLease
<1>3. CASE UNCHANGED <<lease, timer, over>>
  BY <1>1, <1>3
<1> QED BY <1>2, <1>3, Zenon DEF AfterRelease

\* So do the calls that retain, release and refresh a lease.
LEMMA HandleTyped ==
  ASSUME LeaseTyped, NEW p \in Proc, CallOK(p), Handle(p)
  PROVE  LeaseTyped'
<1> USE SlotFacts DEF LeaseTyped, SlotsTyped, CallsTyped, LeasesTyped, HistoryTyped, Calls, Callers,
    Step, To, Goto, Look, Got, For, Rest, Aside, SlotsKept, slots, local, history, Beatless, Stamp
<1>1. CASE RetainOpen(p)
  BY <1>1 DEF RetainOpen, OverrunIf
<1>2. CASE RetainSlot(p)
  <2>1. slotHandles' = [slotHandles EXCEPT ![lease[p]] = slotHandles[lease[p]] + 1]
    BY <1>2 DEF RetainSlot
  <2>2. lease[p] \in Slot => slotHandles[lease[p]] + 1 \in Int
    OBVIOUS
  <2>3. slotHandles' \in [Slot -> Int]
    BY ONLY <2>1, <2>2, LeaseTyped, StoreTyped DEF LeaseTyped, SlotsTyped
  <2> QED BY <1>2, <2>3 DEF RetainSlot
<1>3. CASE Beat(p)
  <2>1. CASE AfterRelease(p)
    BY <1>3, <2>1, AfterReleaseTyped DEF Beat
  <2>2. CASE ~AfterRelease(p)
    BY <1>3, <2>2 DEF Beat
  <2> QED BY <2>1, <2>2
<1>4. CASE BeatStore(p)
  BY <1>4, AfterReleaseTyped DEF BeatStore
<1>5. CASE ReleaseId(p)
  <2>1. CASE AfterRelease(p)
    BY <1>5, <2>1, AfterReleaseTyped DEF ReleaseId
  <2>2. CASE ~AfterRelease(p)
    BY <1>5, <2>2 DEF ReleaseId
  <2> QED BY <2>1, <2>2
<1>6. CASE ReleaseHandles(p)
  <2>1. lease[p] \in Slot
    BY <1>6 DEF ReleaseHandles, CallOK
  <2> QED BY <1>6, <2>1 DEF ReleaseHandles, AfterReduce
<1>7. CASE ReleaseSub(p)
  <2>1. slotHandles' = [slotHandles EXCEPT ![lease[p]] = slotHandles[lease[p]] - 1]
    BY <1>7 DEF ReleaseSub
  <2>2. lease[p] \in Slot => slotHandles[lease[p]] - 1 \in Int
    OBVIOUS
  <2>3. slotHandles' \in [Slot -> Int]
    BY ONLY <2>1, <2>2, LeaseTyped, StoreTyped DEF LeaseTyped, SlotsTyped
  <2> QED BY <1>7, <2>3 DEF ReleaseSub
<1>8. CASE ReleaseOpen(p)
  <2>1. AfterReduce(p, got[p]) \in Calls /\ Reduced(1) \in Nat
    BY DEF AfterReduce, Reduced
  <2> QED BY <1>8, <2>1 DEF ReleaseOpen
<1> QED BY <1>1, <1>2, <1>3, <1>4, <1>5, <1>6, <1>7, <1>8, Zenon DEF Handle

\* And the beginning of a call.
LEMMA BeginTyped ==
  ASSUME LeaseTyped, NEW p \in Proc,
         \/ Open(p) \/ Retain(p) \/ Timer(p) \/ Release(p) \/ Reset(p)
         \/ \E v \in Proc : RecoverTerminated(p, v)
  PROVE  LeaseTyped'
<1> USE SlotFacts DEF LeaseTyped, SlotsTyped, CallsTyped, LeasesTyped, HistoryTyped, Calls, Callers,
    Step, To, Goto, Look, For, Meet, Aside, SlotsKept, slots, local, history
<1>1. CASE Open(p)
  BY <1>1 DEF Open
<1>2. CASE Retain(p)
  BY <1>2 DEF Retain
<1>3. CASE Timer(p)
  BY <1>3 DEF Timer
<1>4. CASE Release(p)
  BY <1>4 DEF Release
<1>5. CASE Reset(p)
  BY <1>5 DEF Reset
<1>6. ASSUME NEW v \in Proc, RecoverTerminated(p, v) PROVE LeaseTyped'
  BY <1>6 DEF RecoverTerminated
<1> QED BY <1>1, <1>2, <1>3, <1>4, <1>5, <1>6

\* clearOwnerLeaseSlot, with what follows it.
LEMMA ClearTyped ==
  ASSUME LeaseTyped, dead \subseteq Proc, NEW p \in Proc, Clear(p)
  PROVE  LeaseTyped'
<1> USE SlotFacts DEF LeaseTyped, SlotsTyped, CallsTyped, LeasesTyped, HistoryTyped, Calls, Callers,
    Step, To, Goto, Look, Meet, For, Rest, EndLease, NextToRecover, MoreSlots, SlotsKept, slots,
    local, OverrunIf, Beatless, Stamp
<1>1. CASE ClearId(p)
  BY <1>1 DEF ClearId, OwnerIds
<1>2. CASE ClearHandles(p)
  BY <1>2 DEF ClearHandles
<1>3. CASE ClearHb(p)
  <2>1. SlotsTyped' /\ HistoryTyped' /\ got' \in [Proc -> Int] /\ who' \in [Proc -> Proc \cup {0}]
        /\ count' \in [Proc -> Nat] /\ same' \subseteq Proc
    BY <1>3 DEF ClearHb
  <2>2. CASE AfterRelease(p) /\ UNCHANGED scan
    BY <2>1, <2>2, AfterReleaseTyped
  <2>3. CASE EndLease(p) /\ Rest(p) /\ UNCHANGED scan
    BY <2>1, <2>3
  <2>4. CASE NextToRecover(p) /\ UNCHANGED <<why, lease, timer, over>>
    BY <2>1, <2>4
  <2>5. CASE Rest(p) /\ UNCHANGED <<scan, lease, timer, over>>
    BY <2>1, <2>5
  <2>6. CASE To(p, "clearId") /\ scan[p] < Slots /\ Look(p, scan[p] + 1)
             /\ UNCHANGED <<why, lease, timer, over>>
    BY <2>1, <2>6
  <2> QED BY <1>3, <2>2, <2>3, <2>4, <2>5, <2>6, Zenon DEF ClearHb, AfterClear
<1> QED BY <1>1, <1>2, <1>3, Zenon DEF Clear

\* The recoveries.
LEMMA RecoverTyped ==
  ASSUME LeaseTyped, NEW p \in Proc, CallOK(p), Recover(p)
  PROVE  LeaseTyped'
<1> USE SlotFacts DEF LeaseTyped, SlotsTyped, CallsTyped, LeasesTyped, HistoryTyped, Calls, Callers,
    Step, To, Goto, Look, Meet, Got, For, Rest, NextToRecover, MoreSlots, Aside, SlotsKept, slots,
    local, history, Beatless
<1>1. CASE RecoverId(p)
  <2>1. slotId[scan[p]] > 0 => slotId[scan[p]] \in Proc
    BY ProcAssumption DEF OwnerIds
  <2> QED BY <1>1, <2>1 DEF RecoverId
<1>2. CASE RecoverHb(p)
  BY <1>2 DEF RecoverHb
<1>3. CASE RecoverCas(p)
  BY <1>3 DEF RecoverCas, OwnerIds, CallOK, Pursuing
<1>4. CASE RecoverCheck(p)
  BY <1>4 DEF RecoverCheck, Rechecked
<1>5. CASE RecoverUndo(p)
  BY <1>5 DEF RecoverUndo, OwnerIds
<1>6. CASE RecoverHandles(p)
  BY <1>6 DEF RecoverHandles, CallOK, Pursuing
<1>7. CASE RecoverOpen(p)
  BY <1>7 DEF RecoverOpen, Reduced
<1>8. CASE RecoverQuarantine(p)
  BY <1>8 DEF RecoverQuarantine
<1>9. CASE TerminatedCas(p)
  BY <1>9 DEF TerminatedCas, OwnerIds, CallOK, Pursuing
<1> QED BY <1>1, <1>2, <1>3, <1>4, <1>5, <1>6, <1>7, <1>8, <1>9, Zenon DEF Recover

\* The reset.
LEMMA ResetTyped ==
  ASSUME LeaseTyped, NEW p \in Proc, ResetStep(p)
  PROVE  LeaseTyped'
<1> USE SlotFacts DEF LeaseTyped, SlotsTyped, CallsTyped, LeasesTyped, HistoryTyped, Calls, Callers,
    Step, To, Goto, Look, For, Rest, Aside, SlotsKept, slots, local, history, OverrunIf
<1>1. CASE ResetRefused(p)
  BY <1>1 DEF ResetRefused
<1>2. CASE ResetFiles(p)
  BY <1>2 DEF ResetFiles
<1>3. CASE ResetZero(p)
  BY <1>3 DEF ResetZero
<1> QED BY <1>1, <1>2, <1>3, Zenon DEF ResetStep

\* Time makes heartbeats older, up to the age at which they are stale.
LEMMA TickTyped ==
  ASSUME LeaseTyped, Tick
  PROVE  LeaseTyped'
BY LeaseAssumption DEF LeaseTyped, SlotsTyped, CallsTyped, LeasesTyped, HistoryTyped, Tick, local,
   history, Never, Late

\* The lock and its quarantine leave the leases alone; a quarantine condemns
\* the owner that it was started for.
LEMMA AttachedTyped ==
  ASSUME TypeOKAttached, NEW p \in Proc,
         \/ Ask(p) \/ Lock(p) \/ StartWipe(p) \/ Wipe(p) \/ Die(p)
         \/ \E v \in Proc \cup {0} : StartQuarantine(p, v)
         \/ Quarantine(p) /\ victim[p] # 0
  PROVE  TypeOKAttached'
<1> USE DEF TypeOKAttached, Locking, Claiming, Unclaiming, Quarantining, Wiping, Free, fileCells, Move,
    Turn
<1>1. CASE Ask(p) \/ CheckQuarantine(p) \/ ClaimFails(p) \/ Retry(p)
  BY <1>1 DEF Ask, CheckQuarantine, ClaimFails, Retry
<1>2. CASE Claim(p) \/ Name(p) \/ Unname(p)
  BY <1>2 DEF Claim, Name, Unname
<1>3. CASE Confirm(p)
  BY <1>3 DEF Confirm
<1>4. CASE Unlock(p) \/ Drop(p)
  BY <1>4 DEF Unlock, Drop
<1>5. CASE Wipe(p) \/ StartWipe(p)
  BY <1>5 DEF Wipe, WipeLock, WipeOwner, WipeFlag, StartWipe
<1>6. CASE \E v \in Proc \cup {0} : StartQuarantine(p, v)
  BY <1>6 DEF StartQuarantine
<1>7. CASE Quarantine(p) /\ victim[p] # 0
  BY <1>7 DEF Quarantine, QuarantineLoadOwner, QuarantineLoadLock, QuarantineFlag, Spare
<1>8. CASE Die(p)
  BY <1>8 DEF Die
<1> QED BY <1>1, <1>2, <1>3, <1>4, <1>5, <1>6, <1>7, <1>8, Zenon DEF Lock

-----------------------------------------------------------------------------
(* The call a process is in *)

\* The calls that are about leases.
LeaseCall(p) ==
  \/ Open(p) \/ Retain(p) \/ Timer(p) \/ Release(p) \/ Reset(p)
  \/ ClaimSlot(p) \/ Handle(p) \/ Clear(p) \/ Recover(p) \/ ResetStep(p)
  \/ \E v \in Proc : RecoverTerminated(p, v)

\* Nothing of q's own has changed, but for a quarantine or a wipe.
Untouched(q) ==
  pc'[q] = pc[q] /\ why'[q] = why[q] /\ who'[q] = who[q] /\ lease'[q] = lease[q]
  /\ count'[q] = count[q] /\ scan'[q] = scan[q] /\ got'[q] = got[q]
  /\ (q \in timer' <=> q \in timer) /\ (q \in over' <=> q \in over)

\* A call of p changes nothing of another process.
LEMMA OthersStay ==
  ASSUME LeaseTyped, NEW p \in Proc, NEW q \in Proc, q # p, LeaseCall(p)
  PROVE  Untouched(q)
<1> USE DEF LeaseTyped, CallsTyped, LeasesTyped, Untouched, Step, To, Goto, Look, Got, Meet, For,
    Rest, AfterRelease, EndLease, NextToRecover, NextToClaim, SlotsKept, local
<1>1. CASE Open(p) \/ Retain(p) \/ Timer(p)
  BY <1>1 DEF Open, Retain, Timer
<1>2. CASE Release(p) \/ Reset(p) \/ \E v \in Proc : RecoverTerminated(p, v)
  BY <1>2 DEF Release, Reset, RecoverTerminated
<1>3. CASE ClaimSlot(p)
  BY <1>3 DEF ClaimSlot, ClaimId, ClaimHb, ClaimCount, ClaimEmpty, ClaimStamp, ClaimCas, ClaimReset
<1>4. CASE RetainOpen(p) \/ RetainSlot(p) \/ ReleaseHandles(p) \/ ReleaseSub(p) \/ ReleaseOpen(p)
  BY <1>4 DEF RetainOpen, RetainSlot, ReleaseHandles, ReleaseSub, ReleaseOpen
<1>5. CASE Beat(p) \/ BeatStore(p) \/ ReleaseId(p)
  BY <1>5 DEF Beat, BeatStore, ReleaseId
<1>6. CASE ClearId(p) \/ ClearHandles(p)
  BY <1>6 DEF ClearId, ClearHandles
<1>7. CASE ClearHb(p)
  <2>1. why[p] \in {"release", "terminated"} => Untouched(q)
    BY <1>7 DEF ClearHb, AfterClear
  <2>2. why[p] \notin {"release", "terminated"} => Untouched(q)
    BY <1>7 DEF ClearHb, AfterClear
  <2> QED BY <2>1, <2>2
<1>8. CASE Recover(p)
  BY <1>8 DEF Recover, RecoverId, RecoverHb, RecoverCas, RecoverCheck, RecoverUndo, RecoverHandles,
     RecoverOpen, RecoverQuarantine, TerminatedCas
<1>9. CASE ResetStep(p)
  BY <1>9 DEF ResetStep, ResetRefused, ResetFiles, ResetZero
<1> QED BY <1>1, <1>2, <1>3, <1>4, <1>5, <1>6, <1>7, <1>8, <1>9, Zenon DEF LeaseCall, Clear,
        Handle

\* What a call of p leaves of p's own: an owner to recover only within a
\* recovery, a wipe only in a reset, and no handle new to a wipe unnoticed.
LEMMA OwnStep ==
  ASSUME LeaseTyped, NEW p \in Proc, CallOK(p), LeaseCall(p)
  PROVE  /\ pc'[p] = "rest" => why'[p] # "wipe"
         /\ pc'[p] = "resetZero" => ResetFiles(p)
         /\ why'[p] = "wipe" => why[p] = "wipe" \/ ResetFiles(p)
         /\ who'[p] # 0 => pc'[p] \in Pursuing \/ RecoverQuarantine(p)
         /\ pc'[p] \in Pursuing => who'[p] # 0
         /\ pc'[p] \in {"relId", "relHandles"} => lease'[p] # 0
         /\ pc'[p] \in {"recOpen", "recQuarantine", "clearId"} /\ who'[p] # 0 =>
              \/ pc[p] \in {"recOpen", "recQuarantine"} /\ who'[p] = who[p]
              \/ RecoverHandles(p) /\ who'[p] = who[p]
         /\ count[p] = 0 /\ count'[p] # 0 /\ ~overrun' => \A q \in Proc : why[q] # "wipe"
<1> USE DEF LeaseTyped, CallsTyped, LeasesTyped, Step, To, Goto, Meet, For, Rest, SlotsKept, local,
    CallOK, Recovering, Pursuing
<1>1. AfterRelease(p) => pc'[p] = "rest" /\ why'[p] = "none"
  BY DEF AfterRelease
<1>2. CASE Open(p) \/ Retain(p) \/ Timer(p)
  BY <1>2 DEF Open, Retain, Timer
<1>3. CASE Release(p) \/ Reset(p)
  BY <1>3 DEF Release, Reset
<1>4. CASE \E v \in Proc : RecoverTerminated(p, v)
  BY <1>4, ProcAssumption DEF RecoverTerminated
<1>5. CASE ClaimSlot(p)
  BY <1>5 DEF ClaimSlot, ClaimId, ClaimHb, ClaimCount, ClaimEmpty, ClaimStamp, ClaimCas, ClaimReset,
     NextToClaim
<1>6. CASE RetainOpen(p)
  BY <1>6 DEF RetainOpen, OverrunIf
<1>7. CASE RetainSlot(p) \/ ReleaseSub(p)
  BY <1>7 DEF RetainSlot, ReleaseSub
<1>8. CASE ReleaseHandles(p) \/ ReleaseOpen(p)
  <2>1. \A n : AfterReduce(p, n) \in {"clearId", "beat"}
    BY DEF AfterReduce
  <2> QED BY <1>8, <2>1 DEF ReleaseHandles, ReleaseOpen
<1>9. CASE Beat(p)
  BY <1>9, <1>1 DEF Beat
<1>10. CASE BeatStore(p)
  BY <1>10, <1>1 DEF BeatStore
<1>11. CASE ReleaseId(p)
  BY <1>11, <1>1 DEF ReleaseId
<1>12. CASE ClearId(p) \/ ClearHandles(p)
  BY <1>12 DEF ClearId, ClearHandles
<1>13. CASE ClearHb(p)
  BY <1>13, <1>1 DEF ClearHb, AfterClear, NextToRecover
<1>14. CASE RecoverId(p) \/ RecoverHb(p)
  BY <1>14 DEF RecoverId, RecoverHb, NextToRecover
<1>15. CASE RecoverCas(p) \/ RecoverCheck(p) \/ RecoverUndo(p)
  BY <1>15 DEF RecoverCas, RecoverCheck, RecoverUndo, NextToRecover, Rechecked
<1>16. CASE RecoverHandles(p) \/ RecoverOpen(p) \/ RecoverQuarantine(p) \/ TerminatedCas(p)
  BY <1>16 DEF RecoverHandles, RecoverOpen, RecoverQuarantine, TerminatedCas
<1>17. CASE ResetStep(p)
  BY <1>17 DEF ResetStep, ResetRefused, ResetFiles, ResetZero
<1> QED BY <1>2, <1>3, <1>4, <1>5, <1>6, <1>7, <1>8, <1>9, <1>10, <1>11,
        <1>12, <1>13, <1>14, <1>15, <1>16, <1>17, Zenon DEF LeaseCall, Handle, Clear, Recover

\* A call about leases leaves the attached database alone, until it starts a
\* quarantine or a wipe, and what happened once has happened for good.
LEMMA CallHistory ==
  ASSUME HistoryTyped, NEW p \in Proc, LeaseCall(p)
  PROVE  /\ (UNCHANGED attachedVars /\ task[p] = "none") \/ RecoverQuarantine(p) \/ ResetFiles(p)
         /\ evicted \subseteq evicted' /\ (overrun => overrun')
         /\ RecoverHandles(p) => who[p] \in dead \cup evicted'
         /\ \A v \in buried' :
              v \in buried \/ (pc[p] = "clearId" /\ v = who[p] /\ v \in dead \ evicted)
<1> USE DEF Step, Goto, Aside, history, HistoryTyped
<1>1. CASE Open(p) \/ Retain(p) \/ Timer(p) \/ Release(p) \/ Reset(p) \/ RetainOpen(p)
  BY <1>1 DEF Open, Retain, Timer, Release, Reset, RetainOpen, OverrunIf, RecoverHandles
<1>2. CASE \E v \in Proc : RecoverTerminated(p, v)
  BY <1>2 DEF RecoverTerminated, RecoverHandles
<1>3. CASE ClaimSlot(p)
  BY <1>3 DEF ClaimSlot, ClaimId, ClaimHb, ClaimCount, ClaimEmpty, ClaimStamp, ClaimCas, ClaimReset,
     RecoverHandles
<1>4. CASE Handle(p) /\ ~RetainOpen(p)
  BY <1>4 DEF Handle, RetainSlot, Beat, BeatStore, ReleaseId, ReleaseHandles, ReleaseSub,
     ReleaseOpen, RecoverHandles
<1>5. CASE Clear(p)
  BY <1>5 DEF Clear, ClearId, ClearHandles, ClearHb, OverrunIf, RecoverHandles
<1>6. CASE RecoverHandles(p)
  BY <1>6 DEF RecoverHandles
<1>7. CASE Recover(p) /\ ~RecoverHandles(p)
  BY <1>7 DEF Recover, RecoverId, RecoverHb, RecoverCas, RecoverCheck, RecoverUndo, RecoverOpen,
     RecoverQuarantine, TerminatedCas
<1>8. CASE ResetStep(p)
  BY <1>8 DEF ResetStep, ResetRefused, ResetFiles, ResetZero, OverrunIf, RecoverHandles
<1> QED BY <1>1, <1>2, <1>3, <1>4, <1>5, <1>6, <1>7, <1>8, Zenon DEF LeaseCall

\* Another process stays where it is in a quarantine or a wipe, too.
LEMMA OthersCallOK ==
  ASSUME TypeOKAttached, LeaseTyped, NEW p \in Proc, NEW q \in Proc, q # p, CallOK(q), LeaseCall(p)
  PROVE  CallOK(q)'
<1>1. Untouched(q)
  BY OthersStay
<1>2. at'[q] = at[q] /\ task'[q] = task[q] /\ victim'[q] = victim[q] /\ dead' = dead
  BY CallHistory DEF LeaseTyped, attachedVars, TypeOKAttached, RecoverQuarantine, ResetFiles,
     StartQuarantine, StartWipe, Turn
<1> QED BY <1>1, <1>2 DEF CallOK, Untouched, Alive, Recovering

\* The last handle is not released in a transaction.
LEMMA CallCount ==
  ASSUME LeaseTyped, NEW p \in Proc, CallOK(p), LeaseCall(p), at[p] # "idle", Alive(p)
  PROVE  count'[p] > 0
<1> USE DEF LeaseTyped, LeasesTyped, CallOK, SlotsKept, local
<1>1. CASE Open(p) \/ Retain(p) \/ Timer(p) \/ Reset(p) \/ \E v \in Proc : RecoverTerminated(p, v)
  BY <1>1 DEF Open, Retain, Timer, Reset, RecoverTerminated
<1>2. CASE Release(p) \/ RetainOpen(p)
  <2>1. count[p] \in Nat /\ count[p] > 0
    OBVIOUS
  <2>2. CASE Release(p)
    <3>1. count[p] # 1 /\ count'[p] = count[p] - 1
      BY <2>2 DEF Release
    <3> QED BY <2>1, <3>1
  <2>3. CASE RetainOpen(p)
    <3>1. count'[p] = count[p] + 1
      BY <2>3 DEF RetainOpen
    <3> QED BY <2>1, <3>1
  <2> QED BY <1>2, <2>2, <2>3
<1>3. CASE ClaimSlot(p)
  BY <1>3 DEF ClaimSlot, ClaimId, ClaimHb, ClaimCount, ClaimEmpty, ClaimStamp, ClaimCas, ClaimReset
<1>4. CASE Handle(p) /\ ~RetainOpen(p)
  BY <1>4 DEF Handle, RetainSlot, Beat, BeatStore, ReleaseId, ReleaseHandles, ReleaseSub, ReleaseOpen
<1>5. CASE Clear(p)
  BY <1>5 DEF Clear, ClearId, ClearHandles, ClearHb
<1>6. CASE Recover(p)
  BY <1>6 DEF Recover, RecoverId, RecoverHb, RecoverCas, RecoverCheck, RecoverUndo, RecoverHandles,
     RecoverOpen, RecoverQuarantine, TerminatedCas
<1>7. CASE ResetStep(p)
  BY <1>7 DEF ResetStep, ResetRefused, ResetFiles, ResetZero
<1> QED BY <1>1, <1>2, <1>3, <1>4, <1>5, <1>6, <1>7, Zenon DEF LeaseCall

\* What a process needs for its call, it has when the call begins and keeps.
LEMMA OwnCallOK ==
  ASSUME TypeOKAttached, LeaseTyped, NEW p \in Proc, CallOK(p), LeaseCall(p)
  PROVE  CallOK(p)'
<1>1. CASE RecoverQuarantine(p)
  BY <1>1, OwnStep DEF RecoverQuarantine, StartQuarantine, Turn, To, CallOK, Pursuing, Recovering,
     Quarantining, Wiping, TypeOKAttached, LeaseTyped, CallsTyped, Alive, local
<1>2. CASE ResetFiles(p)
  BY <1>2, OwnStep DEF ResetFiles, StartWipe, Turn, To, For, CallOK, Pursuing, Recovering,
     Quarantining, Wiping, TypeOKAttached, LeaseTyped, CallsTyped, Alive, local
<1>3. CASE UNCHANGED attachedVars /\ task[p] = "none" /\ ~RecoverQuarantine(p) /\ ~ResetFiles(p)
  <2>1. at[p] # "idle" /\ Alive(p) => count'[p] > 0
    BY <1>3, CallCount
  <2> QED BY <1>3, <2>1, OwnStep DEF attachedVars, CallOK, Recovering, Quarantining, Wiping, Alive
<1> QED BY <1>1, <1>2, <1>3, CallHistory DEF LeaseTyped

\* A call of p, for every process.
LEMMA CallsStayOK ==
  ASSUME TypeOKAttached, LeaseTyped, NEW p \in Proc, \A q \in Proc : CallOK(q), LeaseCall(p)
  PROVE  \A q \in Proc : CallOK(q)'
BY OthersCallOK, OwnCallOK

\* What a process does between calls about leases, and its end.
AttachedCall(p) == AskAttached(p) \/ LockAttached(p) \/ CleanUp(p) \/ Terminate(p)

\* A quarantine belongs to the call that started it to its end, and only a
\* process with a handle asks for the attached database.
LEMMA AttachedStayOK ==
  ASSUME TypeOKAttached, NEW p \in Proc, \A q \in Proc : CallOK(q), AttachedCall(p)
  PROVE  \A q \in Proc : CallOK(q)'
<1> SUFFICES ASSUME NEW q \in Proc PROVE CallOK(q)'
  OBVIOUS
<1>0. CallOK(q) /\ CallOK(p)
  OBVIOUS
<1> USE <1>0 DEF CallOK, Recovering, leaseVars, local, TypeOKAttached, Alive, Move, Turn
<1>1. CASE AskAttached(p)
  BY <1>1 DEF AskAttached, Ask
<1>2. CASE LockAttached(p)
  <2>1. Lock(p) /\ UNCHANGED leaseVars
    BY <1>2 DEF LockAttached
  <2>2. at'[q] # "idle" => at[q] # "idle"
    BY <2>1 DEF Lock, CheckQuarantine, Claim, ClaimFails, Retry, Name, Confirm, Unlock, Unname, Drop
  <2>3. UNCHANGED <<task, victim, dead>>
    BY <2>1 DEF Lock, CheckQuarantine, Claim, ClaimFails, Retry, Name, Confirm, Unlock, Unname, Drop
  <2> QED BY <2>1, <2>2, <2>3
<1>3. CASE CleanUp(p)
  <2>1. Quarantine(p) => CallOK(q)'
    BY <1>3 DEF CleanUp, Quarantine, QuarantineLoadOwner, QuarantineLoadLock, QuarantineFlag,
       Spare, Quarantining, Wiping
  <2>2. Wipe(p) => CallOK(q)'
    BY <1>3 DEF CleanUp, Wipe, WipeLock, WipeOwner, WipeFlag, Quarantining, Wiping
  <2> QED BY <1>3, <2>1, <2>2 DEF CleanUp
<1>4. CASE Terminate(p)
  BY <1>4 DEF Terminate, Die
<1> QED BY <1>1, <1>2, <1>3, <1>4 DEF AttachedCall

\* Every step keeps the types, and what the processes need for their calls.
LEMMA NextKeepsTypes ==
  ASSUME TypeOK, \A q \in Proc : CallOK(q), [Next]_allVars
  PROVE  TypeOK' /\ \A q \in Proc : CallOK(q)'
<1> USE TypeParts
<1>1. CASE UNCHANGED allVars
  <2>1. TypeOKAttached'
    BY <1>1 DEF allVars, attachedVars, fileCells, TypeOKAttached
  <2>2. LeaseTyped'
    BY <1>1 DEF allVars, leaseVars, slots, local, history, LeaseTyped, SlotsTyped, CallsTyped,
       LeasesTyped, HistoryTyped
  <2>3. \A q \in Proc : CallOK(q)'
    BY <1>1 DEF allVars, attachedVars, leaseVars, local, CallOK, Recovering, Alive
  <2> QED BY <2>1, <2>2, <2>3
<1>2. CASE Tick
  <2>1. TypeOKAttached'
    BY <1>2 DEF Tick, attachedVars, fileCells, TypeOKAttached
  <2>2. LeaseTyped'
    BY <1>2, TickTyped
  <2>3. \A q \in Proc : CallOK(q)'
    BY <1>2 DEF Tick, attachedVars, local, CallOK, Recovering, Alive
  <2> QED BY <2>1, <2>2, <2>3
<1>3. ASSUME NEW p \in Proc, LeaseCall(p)
      PROVE  TypeOK' /\ \A q \in Proc : CallOK(q)'
  <2>1. \A q \in Proc : CallOK(q)'
    BY <1>3, CallsStayOK
  <2>2. LeaseTyped'
    BY <1>3, BeginTyped, ClaimTyped, HandleTyped, ClearTyped, RecoverTyped, ResetTyped
    DEF LeaseCall, TypeOKAttached
  <2>3. CASE UNCHANGED attachedVars
    BY <2>1, <2>2, <2>3 DEF attachedVars, fileCells, TypeOKAttached
  <2>4. CASE RecoverQuarantine(p)
    <3>1. who[p] \in Proc \cup {0} /\ StartQuarantine(p, who[p])
      BY <2>4 DEF RecoverQuarantine, LeaseTyped, CallsTyped
    <3> QED BY <2>1, <2>2, <3>1, AttachedTyped
  <2>5. CASE ResetFiles(p)
    BY <2>1, <2>2, <2>5, AttachedTyped DEF ResetFiles
  <2> QED BY <1>3, <2>3, <2>4, <2>5, CallHistory DEF LeaseTyped
<1>4. ASSUME NEW p \in Proc, AttachedCall(p)
      PROVE  TypeOK' /\ \A q \in Proc : CallOK(q)'
  <2>1. \A q \in Proc : CallOK(q)'
    BY <1>4, AttachedStayOK
  <2>2. UNCHANGED leaseVars
    BY <1>4 DEF AttachedCall, AskAttached, LockAttached, CleanUp, Terminate
  <2>3. LeaseTyped'
    BY <2>2 DEF leaseVars, slots, local, history, LeaseTyped, SlotsTyped, CallsTyped, LeasesTyped,
       HistoryTyped
  <2>4. Quarantine(p) => victim[p] # 0
    BY DEF Quarantine, QuarantineLoadOwner, QuarantineLoadLock, QuarantineFlag, Turn, Quarantining,
       CallOK
  <2>5. TypeOKAttached'
    BY <1>4, <2>4, AttachedTyped DEF AttachedCall, AskAttached, LockAttached, CleanUp, Terminate
  <2> QED BY <2>1, <2>3, <2>5
<1> QED BY <1>1, <1>2, <1>3, <1>4 DEF Next, Work, LeaseCall, AttachedCall

\* At first no process has a lease, a handle or a call.
LEMMA InitTyped == InitLease => TypeOK /\ \A p \in Proc : CallOK(p)
<1> SUFFICES ASSUME InitLease PROVE TypeOK /\ \A p \in Proc : CallOK(p)
  OBVIOUS
<1>1. TypeOKAttached
  BY DEF InitLease, InitAttached, TypeOKAttached, Free
<1>2. LeaseTyped
  <2>1. SlotsTyped
    BY SlotFacts DEF InitLease, SlotsTyped, OwnerIds
  <2>2. CallsTyped
    BY SlotFacts DEF InitLease, CallsTyped, Calls, Callers
  <2>3. LeasesTyped /\ HistoryTyped
    BY SlotFacts DEF InitLease, LeasesTyped, HistoryTyped
  <2> QED BY <2>1, <2>2, <2>3 DEF LeaseTyped
<1>3. \A p \in Proc : CallOK(p)
  BY DEF InitLease, InitAttached, CallOK, Pursuing, Wiping, Quarantining
<1> QED BY <1>1, <1>2, <1>3, TypeParts

\* Every cell of the leases and of the attached database keeps its type, at
\* any moment and for any owners: no call stores into a slot that it has not.
THEOREM LeaseTypeCorrect == Spec => []TypeOK
<1> DEFINE TypeInv == TypeOK /\ \A p \in Proc : CallOK(p)
<1>1. InitLease => TypeInv
  BY InitTyped
<1>2. TypeInv /\ [Next]_allVars => TypeInv'
  BY NextKeepsTypes
<1>3. TypeInv => TypeOK
  OBVIOUS
<1> HIDE DEF TypeInv
<1> QED BY <1>1, <1>2, <1>3, PTL DEF Spec

-----------------------------------------------------------------------------
(* Recoveries and resets *)

\* What every step of the proof below starts from.
Known ==
  /\ TypeOKAttached /\ LeaseTyped /\ (\A q \in Proc : CallOK(q))
  /\ LockFacts /\ RecoveredIsLost

\* A recovery that goes on has a dead owner, or one it has evicted.
LEMMA CallsKeepLost ==
  ASSUME Known, NEW p \in Proc, LeaseCall(p)
  PROVE  RecoveredIsLost'
<1> USE DEF Known, RecoveredIsLost
<1>1. HistoryTyped /\ CallOK(p)
  BY DEF LeaseTyped
<1>2. /\ UNCHANGED <<dead, condemned>> /\ evicted \subseteq evicted'
      /\ \A v \in buried' : v \in buried \/ v \in dead
      /\ RecoverHandles(p) => who[p] \in dead \cup evicted'
  BY <1>1, CallHistory DEF attachedVars, RecoverQuarantine, ResetFiles, StartQuarantine, StartWipe
<1>3. ASSUME NEW q \in Proc, pc'[q] \in {"recOpen", "recQuarantine", "clearId"}, who'[q] # 0
      PROVE  who'[q] \in dead' \cup evicted'
  <2>1. CASE q = p
    <3>1. \/ pc[p] \in {"recOpen", "recQuarantine"} /\ who'[p] = who[p]
          \/ RecoverHandles(p) /\ who'[p] = who[p]
      BY <1>1, <1>3, <2>1, OwnStep
    <3> QED BY <1>2, <1>3, <2>1, <3>1
  <2>2. CASE q # p
    BY <1>2, <1>3, <2>2, OthersStay DEF Untouched
  <2> QED BY <2>1, <2>2
<1> QED BY <1>2, <1>3

\* A quarantine condemns the owner whose recovery it is part of.
LEMMA AttachedKeepLost ==
  ASSUME Known, NEW p \in Proc, AttachedCall(p)
  PROVE  RecoveredIsLost'
<1> USE DEF Known, RecoveredIsLost
<1>1. UNCHANGED leaseVars /\ dead \subseteq dead'
  BY DEF AttachedCall, AskAttached, LockAttached, CleanUp, Terminate, Ask, Lock, CheckQuarantine,
     Claim, ClaimFails, Retry, Name, Confirm, Unlock, Unname, Drop, Quarantine,
     QuarantineLoadOwner, QuarantineLoadLock, QuarantineFlag, Wipe, WipeLock, WipeOwner, WipeFlag,
     Die
<1>2. CASE QuarantineFlag(p)
  <2>1. victim[p] \in dead \cup evicted /\ condemned' = condemned \cup {victim[p]}
    BY <1>2 DEF QuarantineFlag, Turn, CallOK, Quarantining
  <2> QED BY <1>1, <2>1 DEF leaseVars, history
<1>3. CASE ~QuarantineFlag(p)
  <2>1. condemned' \in {condemned, {}}
    BY <1>3 DEF AttachedCall, AskAttached, LockAttached, CleanUp, Terminate, Ask, Lock,
       CheckQuarantine, Claim, ClaimFails, Retry, Name, Confirm, Unlock, Unname, Drop, Quarantine,
       QuarantineLoadOwner, QuarantineLoadLock, Wipe, WipeLock, WipeOwner, WipeFlag, Die
  <2> QED BY <1>1, <2>1 DEF leaseVars, history
<1> QED BY <1>2, <1>3

\* A reset that finds nobody else at work is the only one, and who asks for
\* a handle during it is noticed.
LEMMA CallsKeepAlone ==
  ASSUME Known, WipeIsAlone, NEW p \in Proc, LeaseCall(p), ~overrun'
  PROVE  WipeIsAlone'
<1> USE DEF Known
<1>1. HistoryTyped /\ CallOK(p) /\ dead' = dead /\ count[p] \in Nat
  BY CallHistory DEF attachedVars, RecoverQuarantine, ResetFiles, StartQuarantine, StartWipe,
     LeaseTyped, LeasesTyped
<1>2. CASE ResetFiles(p)
  <2>1. ASSUME NEW q \in Proc \ {p}, Alive(q)
        PROVE  count'[q] = 0 /\ why'[q] # "wipe"
    <3>1. count[q] = 0 /\ pc[q] = "rest"
      BY <1>1, <1>2, <2>1 DEF ResetFiles, OverrunIf, OthersAtWork, HistoryTyped, Alive
    <3>2. CallOK(q) /\ Untouched(q)
      BY OthersStay
    <3> QED BY <3>1, <3>2 DEF CallOK, Untouched
  <2>2. CallOK(p)' /\ why'[p] = "wipe"
    BY <1>2, OwnCallOK DEF ResetFiles, For, LeaseTyped, CallsTyped
  <2> QED BY <1>1, <2>1, <2>2 DEF WipeIsAlone, Alive
<1>3. CASE ~ResetFiles(p)
  <2> SUFFICES ASSUME NEW r \in Proc \ dead, why'[r] = "wipe", NEW q \in Proc \ {r}, Alive(q)
               PROVE  count'[q] = 0 /\ why'[q] # "wipe"
    BY <1>1 DEF WipeIsAlone, Alive
  <2>1. why[r] = "wipe"
    BY <1>1, <1>3, OwnStep, OthersStay DEF Untouched
  <2>2. count[q] = 0 /\ why[q] # "wipe"
    BY <2>1 DEF WipeIsAlone
  <2>3. why'[q] # "wipe"
    BY <1>1, <1>3, <2>2, OwnStep, OthersStay DEF Untouched
  <2>4. count'[q] = 0
    BY <1>1, <2>1, <2>2, OwnStep, OthersStay DEF Untouched
  <2> QED BY <2>3, <2>4
<1> QED BY <1>2, <1>3

\* What a quarantine has found is still so after a call about leases.
LEMMA CallsKeepQuiet ==
  ASSUME Known, Quiet, NEW p \in Proc, LeaseCall(p), ~overrun'
  PROVE  Quiet'
<1> USE DEF Known
<1>1. /\ HistoryTyped /\ CallOK(p)
      /\ UNCHANGED <<fileCells, at, dead, condemned, wiped>>
      /\ \A q \in Proc \ {p} : task'[q] = task[q] /\ victim'[q] = victim[q]
      /\ \/ task'[p] = task[p] /\ victim'[p] = victim[p] /\ task[p] = "none"
         \/ task[p] = "none" /\ task'[p] \in {"qOwner", "wipeLock"}
      /\ evicted \subseteq evicted' /\ wiped \subseteq Proc
  BY CallHistory DEF attachedVars, RecoverQuarantine, ResetFiles, StartQuarantine, StartWipe, Turn,
     LeaseTyped, TypeOKAttached
<1> USE <1>1 DEF Quiet, fileCells
<1> HIDE DEF Known
<1>2. WipeIsAlone'
  BY CallsKeepAlone DEF Known
<1>3. WipedIsHeld'
  BY DEF WipedIsHeld
<1>4. WipeEmpties'
  BY DEF WipeEmpties, HasLock, Alive
<1>5. OwnerIsNamed'
  BY DEF OwnerIsNamed, Named
<1>6. FoundIsNamed'
  BY DEF FoundIsNamed, Named
<1>7. ASSUME NEW r \in Proc, pc'[r] = "clearId", task'[r] = "none",
             who'[r] \in (dead' \ evicted') \ wiped', Named(who[r])'
      PROVE  abandoned' = 1
  <2>1. r # p
    <3>1. who'[p] # 0 /\ pc'[p] = "clearId" => RecoverQuarantine(p)
      BY OwnStep DEF Pursuing, Known
    <3>2. RecoverQuarantine(p) => task'[p] # "none"
      BY DEF RecoverQuarantine, StartQuarantine, Turn, TypeOKAttached, Known
    <3>3. 0 \notin dead
      BY ProcAssumption DEF TypeOKAttached, Known
    <3> QED BY <1>7, <3>1, <3>2, <3>3
  <2>2. Untouched(r)
    BY <2>1, OthersStay DEF Known
  <2>3. Named(who[r]) /\ who[r] \in (dead \ evicted) \ wiped /\ task[r] = "none"
    BY <1>7, <2>1, <2>2 DEF Untouched, Named
  <2> QED BY <1>7, <2>2, <2>3 DEF QuarantinedIsFlagged, Untouched
<1>8. CondemnedHasLock'
  BY DEF CondemnedHasLock, HasLock
<1>9. ASSUME NEW v \in buried' \ wiped', Named(v)'
      PROVE  abandoned' = 1
  <2>1. v \in buried \/ (pc[p] = "clearId" /\ v = who[p] /\ v \in dead \ evicted)
    BY <1>9, CallHistory
  <2>2. task[p] = "none"
    OBVIOUS
  <2>3. Named(v) /\ v \notin wiped
    BY <1>9 DEF Named
  <2> QED BY <2>1, <2>2, <2>3 DEF QuarantinedIsFlagged, BuriedIsFlagged
<1>10. QuarantinedIsFlagged' /\ BuriedIsFlagged'
  BY <1>7, <1>9 DEF QuarantinedIsFlagged, BuriedIsFlagged
<1> QED BY <1>2, <1>3, <1>4, <1>5, <1>6, <1>8, <1>10

\* While the cells are wiped nobody else has a handle, and so no connection.
LEMMA WiperIsAlone ==
  ASSUME Known, WipeIsAlone, NEW r \in Proc, Alive(r), task[r] \in Wiping,
         NEW q \in Proc, Alive(q), q # r
  PROVE  at[q] = "idle" /\ count[q] = 0
<1>1. why[r] = "wipe"
  BY DEF Known, CallOK
<1>2. count[q] = 0
  BY <1>1 DEF WipeIsAlone, Alive
<1> QED BY <1>2 DEF Known, CallOK

\* The owner cell is changed only by the one who has the lock.
LEMMA LockKeepsOwner ==
  ASSUME Known, Quiet, NEW p \in Proc, AskAttached(p) \/ LockAttached(p)
  PROVE  WipedIsHeld' /\ OwnerIsNamed'
<1> USE DEF Named
<1>1. /\ Alive(p) /\ task[p] = "none" /\ UNCHANGED <<task, dead>>
      /\ \A q \in Proc \ {p} : at'[q] = at[q]
      /\ wiped' \subseteq wiped /\ wiped \ {p} \subseteq wiped'
  BY DEF AskAttached, LockAttached, Ask, Lock, CheckQuarantine, Claim, ClaimFails, Retry, Name,
     Confirm, Unlock, Unname, Drop, Move, fileCells, Known, TypeOKAttached
<1>2. /\ at \in [Proc -> {"idle"} \cup Locking] /\ wiped \subseteq Proc
      /\ txOwner \in Proc \cup {0} /\ WipedIsHeld /\ OwnerIsNamed
  BY DEF Known, TypeOKAttached, Quiet
<1>3. p \in wiped => at[p] = "held" /\ txLock \notin {p, -p} /\ txOwner # p
  BY <1>1, <1>2 DEF WipedIsHeld, Alive
<1>4. /\ at[p] = "held" /\ p \notin wiped => txLock = p
      /\ at[p] \in Claiming \cup Unclaiming => txLock = -p
  BY <1>3 DEF Known, LockFacts, LockIsOwners, Claiming, Unclaiming
<1>5. HasLock(p) /\ p \notin wiped => \A q \in Proc \ wiped : HasLock(q) => q = p
  BY FactsExclude DEF Known, OneTransaction
<1>6. CASE Ask(p) \/ CheckQuarantine(p) \/ ClaimFails(p) \/ Retry(p)
  BY <1>1, <1>2, <1>6 DEF Ask, CheckQuarantine, ClaimFails, Retry, Move, fileCells, WipedIsHeld,
     OwnerIsNamed
<1>7. CASE Claim(p)
  BY <1>1, <1>2, <1>7, ProcFacts DEF Claim, Move, WipedIsHeld, OwnerIsNamed
<1>8. CASE Name(p)
  BY <1>1, <1>2, <1>3, <1>5, <1>8, ProcFacts DEF Name, Move, WipedIsHeld, OwnerIsNamed, HasLock, Claiming,
     Unclaiming, Free
<1>9. CASE Confirm(p)
  BY <1>1, <1>2, <1>4, <1>9, ProcFacts DEF Confirm, Move, WipedIsHeld, OwnerIsNamed, Claiming
<1>10. CASE Unlock(p)
  BY <1>1, <1>2, <1>3, <1>4, <1>10, ProcFacts DEF Unlock, Move, WipedIsHeld, OwnerIsNamed
<1>11. CASE Unname(p)
  BY <1>1, <1>2, <1>3, <1>5, <1>11, ProcFacts DEF Unname, Move, WipedIsHeld, OwnerIsNamed, HasLock,
     Claiming, Unclaiming, Free
<1>12. CASE Drop(p)
  BY <1>1, <1>2, <1>4, <1>12, ProcFacts DEF Drop, Move, WipedIsHeld, OwnerIsNamed, Unclaiming
<1> QED BY <1>6, <1>7, <1>8, <1>9, <1>10, <1>11, <1>12, Zenon DEF AskAttached, LockAttached, Lock

\* A call on the lock says nothing of those who are dead.
LEMMA LockKeepsQuiet ==
  ASSUME Known, Quiet, NEW p \in Proc, AskAttached(p) \/ LockAttached(p)
  PROVE  Quiet'
<1>1. /\ UNCHANGED leaseVars /\ UNCHANGED <<abandoned, task, victim, dead, condemned>>
      /\ Alive(p) /\ task[p] = "none" /\ wiped' \subseteq wiped /\ wiped \ {p} \subseteq wiped'
      /\ \A q \in Proc \ {p} : at'[q] = at[q]
  BY DEF AskAttached, LockAttached, Ask, Lock, CheckQuarantine, Claim, ClaimFails, Retry, Name,
     Confirm, Unlock, Unname, Drop, Move, fileCells, Known, TypeOKAttached
<1>2. \A v \in dead : v \in Proc /\ at'[v] = at[v] /\ (v \in wiped' <=> v \in wiped)
  BY <1>1 DEF Alive, Known, TypeOKAttached
<1>3. WipeIsAlone' /\ FoundIsNamed' /\ QuarantinedIsFlagged' /\ CondemnedHasLock' /\ BuriedIsFlagged'
  <2>1. UNCHANGED <<pc, why, who, count, evicted, buried>>
    BY <1>1 DEF leaseVars, local, history
  <2>2. WipeIsAlone'
    BY <1>1, <2>1 DEF Quiet, WipeIsAlone, Alive
  <2>3. FoundIsNamed'
    BY <1>1, <1>2, <2>1 DEF Quiet, FoundIsNamed, Named
  <2>4. QuarantinedIsFlagged'
    BY <1>1, <1>2, <2>1 DEF Quiet, QuarantinedIsFlagged, Named
  <2>5. CondemnedHasLock'
    BY <1>1, <1>2, <2>1 DEF Quiet, CondemnedHasLock, HasLock
  <2>6. BuriedIsFlagged'
    <3>1. buried \subseteq dead
      BY DEF Known, RecoveredIsLost
    <3> QED BY <1>1, <1>2, <2>1, <3>1 DEF Quiet, BuriedIsFlagged, Named
  <2> QED BY <2>2, <2>3, <2>4, <2>5, <2>6
<1>4. WipeEmpties'
  <2>1. ASSUME NEW r \in Proc, Alive(r), task[r] \in {"wipeOwner", "wipeFlag"}
        PROVE  FALSE
    <3>1. r # p /\ task[r] \in Wiping
      BY <1>1, <2>1 DEF Wiping
    <3>2. at[p] = "idle" /\ count[p] = 0
      BY <1>1, <2>1, <3>1, WiperIsAlone DEF Quiet
    <3> QED BY <3>2 DEF AskAttached, LockAttached, Lock, CheckQuarantine, Claim, ClaimFails, Retry,
            Name, Confirm, Unlock, Unname, Drop, Move
  <2> QED BY <1>1, <2>1 DEF WipeEmpties, Alive
<1>5. WipedIsHeld' /\ OwnerIsNamed'
  BY LockKeepsOwner
<1> QED BY <1>3, <1>4, <1>5 DEF Quiet

\* A quarantine flags the file of an owner that died in a transaction.
LEMMA QuarantineKeepsQuiet ==
  ASSUME Known, Quiet, NEW p \in Proc, Quarantine(p), UNCHANGED leaseVars
  PROVE  Quiet'
<1>1. /\ UNCHANGED <<txLock, txOwner, at, dead, wiped>>
      /\ \A q \in Proc \ {p} : task'[q] = task[q] /\ victim'[q] = victim[q]
      /\ task[p] \in Quarantining /\ task'[p] \in {"qLock", "qFlag", "none"}
      /\ abandoned = 1 => abandoned' = 1
  BY DEF Quarantine, QuarantineLoadOwner, QuarantineLoadLock, QuarantineFlag, Turn, Spare, fileCells,
     Quarantining, Known, TypeOKAttached
<1>2. UNCHANGED <<pc, why, who, count, evicted, buried>>
  BY DEF leaseVars, local, history
<1>3. pc[p] = "clearId" /\ victim[p] = who[p] /\ who[p] # 0
  BY <1>1 DEF Known, CallOK
<1>4. wiped \subseteq Proc
  BY DEF Known, TypeOKAttached
<1>5. WipeIsAlone' /\ OwnerIsNamed' /\ BuriedIsFlagged'
  BY <1>1, <1>2 DEF Quiet, WipeIsAlone, OwnerIsNamed, BuriedIsFlagged, Named, Alive
<1>6. WipedIsHeld'
  BY <1>1, <1>4 DEF Quiet, WipedIsHeld, Quarantining
<1>7. WipeEmpties'
  BY <1>1 DEF Quiet, WipeEmpties, HasLock, Alive
<1>8. FoundIsNamed'
  <2>1. ASSUME task'[p] \in {"qLock", "qFlag"}, victim'[p] \in dead \ evicted
        PROVE  Named(victim'[p])
    <3>1. CASE QuarantineLoadOwner(p)
      <4>1. txOwner = victim[p] /\ victim'[p] = victim[p]
        BY <2>1, <3>1 DEF QuarantineLoadOwner, OwnsTransaction, Turn, Known, TypeOKAttached
      <4> QED BY <1>3, <4>1 DEF Quiet, OwnerIsNamed
    <3>2. CASE QuarantineLoadLock(p)
      <4>1. task[p] = "qLock" /\ victim'[p] = victim[p]
        BY <2>1, <3>2 DEF QuarantineLoadLock, Turn, Known, TypeOKAttached
      <4> QED BY <2>1, <4>1 DEF Quiet, FoundIsNamed
    <3>3. CASE QuarantineFlag(p)
      BY <2>1, <3>3 DEF QuarantineFlag, Turn, Known, TypeOKAttached
    <3> QED BY <3>1, <3>2, <3>3 DEF Quarantine
  <2> QED BY <1>1, <1>2, <2>1 DEF Quiet, FoundIsNamed, Named
<1>9. QuarantinedIsFlagged'
  <2>1. ASSUME task'[p] = "none", who[p] \in (dead \ evicted) \ wiped, Named(who[p])
        PROVE  abandoned' = 1
    <3>1. who[p] \in Proc /\ txOwner = who[p] /\ txLock # Free
      BY <2>1, ProcFacts DEF Quiet, OwnerIsNamed, Known, LockFacts, LockIsOwners, TypeOKAttached,
         Named, Claiming, Unclaiming
    <3>2. CASE QuarantineLoadOwner(p)
      BY <1>3, <2>1, <3>1, <3>2 DEF QuarantineLoadOwner, OwnsTransaction, Turn, Known,
         TypeOKAttached
    <3>3. CASE QuarantineLoadLock(p)
      BY <2>1, <3>1, <3>3 DEF QuarantineLoadLock, Turn, Known, TypeOKAttached
    <3>4. CASE QuarantineFlag(p)
      BY <3>4 DEF QuarantineFlag
    <3> QED BY <3>2, <3>3, <3>4 DEF Quarantine
  <2> QED BY <1>1, <1>2, <2>1 DEF Quiet, QuarantinedIsFlagged, Named
<1>10. CondemnedHasLock'
  <2>1. CASE QuarantineFlag(p)
    <3>1. task[p] = "qFlag" /\ condemned' = condemned \cup {victim[p]}
      BY <2>1 DEF QuarantineFlag, Turn
    <3>2. victim[p] \in dead \ evicted => HasLock(victim[p])
      BY <3>1 DEF Quiet, FoundIsNamed, Named, HasLock, Claiming, Unclaiming
    <3> QED BY <1>1, <1>2, <3>1, <3>2 DEF Quiet, CondemnedHasLock, HasLock
  <2>2. CASE ~QuarantineFlag(p)
    <3>1. condemned' = condemned
      BY <2>2 DEF Quarantine, QuarantineLoadOwner, QuarantineLoadLock
    <3> QED BY <1>1, <1>2, <3>1 DEF Quiet, CondemnedHasLock, HasLock
  <2> QED BY <2>1, <2>2
<1> QED BY <1>5, <1>6, <1>7, <1>8, <1>9, <1>10 DEF Quiet

\* A wipe excuses those who have the lock, and it is the only call there is.
LEMMA WipeKeepsQuiet ==
  ASSUME Known, Quiet, NEW p \in Proc, Wipe(p), UNCHANGED leaseVars
  PROVE  Quiet'
<1>1. /\ UNCHANGED <<at, dead, victim>> /\ Alive(p) /\ Resting(p) /\ task[p] \in Wiping
      /\ \A q \in Proc \ {p} : task'[q] = task[q]
      /\ task'[p] \notin Quarantining
  BY DEF Wipe, WipeLock, WipeOwner, WipeFlag, Turn, Wiping, Quarantining, Known, TypeOKAttached
<1>2. UNCHANGED <<pc, why, who, count, evicted, buried>>
  BY DEF leaseVars, local, history
<1>3. \A q \in Proc \ {p} : Alive(q) => at[q] = "idle"
  BY <1>1, WiperIsAlone DEF Quiet
<1>4. WipeIsAlone' /\ FoundIsNamed'
  <2>1. WipeIsAlone'
    BY <1>1, <1>2 DEF Quiet, WipeIsAlone, Alive
  <2>2. FoundIsNamed'
    BY <1>1, <1>2 DEF Quiet, FoundIsNamed, Named, Quarantining
  <2> QED BY <2>1, <2>2
<1>5. pc[p] = "resetZero"
  BY <1>1 DEF Known, CallOK
<1>6. \A q \in Proc : Named(q) => HasLock(q)
  BY DEF Named, HasLock, Claiming, Unclaiming
<1>7. buried \subseteq Proc /\ wiped \subseteq Proc /\ dead \subseteq Proc /\ txOwner \in Proc \cup {0}
  BY DEF Known, LeaseTyped, HistoryTyped, TypeOKAttached
<1>8. CASE WipeLock(p)
  <2>1. /\ task'[p] = "wipeOwner" /\ txLock' = 0 /\ wiped' = {q \in Proc : HasLock(q)}
        /\ condemned' = {} /\ UNCHANGED txOwner
    BY <1>8 DEF WipeLock, Turn, Known, TypeOKAttached, Free
  <2>2. WipedIsHeld'
    <3>1. ASSUME NEW q \in wiped' \ dead' PROVE at[q] = "held" /\ q = p
      BY <1>1, <1>3, <2>1, <3>1 DEF HasLock, Resting, Claiming, Unclaiming, Alive
    <3> QED BY <1>1, <2>1, <3>1, ProcFacts DEF WipedIsHeld, Free
  <2>3. WipeEmpties'
    BY <1>1, <2>1 DEF WipeEmpties, HasLock
  <2>4. OwnerIsNamed'
    BY <1>1, <1>6, <2>1 DEF Quiet, OwnerIsNamed, Named
  <2>5. QuarantinedIsFlagged' /\ BuriedIsFlagged'
    BY <1>1, <1>2, <1>6, <1>7, <2>1 DEF QuarantinedIsFlagged, BuriedIsFlagged, Named
  <2>6. CondemnedHasLock'
    BY <2>1 DEF CondemnedHasLock
  <2> QED BY <1>4, <2>2, <2>3, <2>4, <2>5, <2>6 DEF Quiet
<1>9. CASE WipeOwner(p) \/ WipeFlag(p)
  <2>1. /\ UNCHANGED <<txLock, wiped, condemned>>
        /\ task[p] \in {"wipeOwner", "wipeFlag"} /\ task'[p] \in {"wipeFlag", "none"}
        /\ txOwner' = 0 \/ (task[p] # "wipeOwner" /\ txOwner' = txOwner)
    BY <1>9 DEF WipeOwner, WipeFlag, Turn, Known, TypeOKAttached
  <2>2. \A q \in Proc \ wiped : ~HasLock(q) /\ ~Named(q)
    BY <1>1, <1>6, <2>1 DEF Quiet, WipeEmpties
  <2>3. WipedIsHeld'
    BY <1>1, <1>7, <2>1, ProcFacts DEF Quiet, WipedIsHeld, Free
  <2>4. WipeEmpties'
    BY <1>1, <2>1, <2>2 DEF WipeEmpties, HasLock
  <2>5. OwnerIsNamed'
    BY <1>1, <2>1, <2>2 DEF Quiet, OwnerIsNamed, Named
  <2>6. QuarantinedIsFlagged' /\ BuriedIsFlagged'
    BY <1>1, <1>2, <1>7, <2>1, <2>2 DEF QuarantinedIsFlagged, BuriedIsFlagged, Named
  <2>7. CondemnedHasLock'
    BY <1>1, <1>2, <2>1 DEF Quiet, CondemnedHasLock, HasLock
  <2> QED BY <1>4, <2>3, <2>4, <2>5, <2>6, <2>7 DEF Quiet
<1> QED BY <1>8, <1>9 DEF Wipe

\* A process dies where it stands; who was recovered until now was dead
\* before, or has been evicted.
LEMMA DeathKeepsQuiet ==
  ASSUME Known, Quiet, NEW p \in Proc, Die(p), UNCHANGED leaseVars
  PROVE  Quiet'
<1>1. /\ UNCHANGED <<fileCells, at, task, victim, condemned, wiped>> /\ dead \subseteq dead'
  BY DEF Die
<1>2. UNCHANGED <<pc, why, who, count, evicted, buried>>
  BY DEF leaseVars, local, history
<1>3. WipeIsAlone' /\ WipedIsHeld' /\ WipeEmpties' /\ OwnerIsNamed'
  BY <1>1, <1>2 DEF Quiet, WipeIsAlone, WipedIsHeld, WipeEmpties, OwnerIsNamed, Named, HasLock,
     Alive, fileCells
<1>4. FoundIsNamed'
  <2>1. ASSUME NEW r \in Proc, task[r] \in {"qLock", "qFlag"}
        PROVE  victim[r] \in dead \cup evicted
    BY <2>1 DEF Known, CallOK, RecoveredIsLost, Quarantining
  <2> QED BY <1>1, <1>2, <2>1 DEF Quiet, FoundIsNamed, Named
<1>5. QuarantinedIsFlagged'
  <2>1. \A r \in Proc : pc[r] = "clearId" /\ who[r] # 0 => who[r] \in dead \cup evicted
    BY DEF Known, RecoveredIsLost
  <2>2. 0 \notin dead'
    BY ProcAssumption DEF Die, Known, TypeOKAttached
  <2> QED BY <1>1, <1>2, <2>1, <2>2 DEF Quiet, QuarantinedIsFlagged, Named, fileCells
<1>6. CondemnedHasLock' /\ BuriedIsFlagged'
  BY <1>1, <1>2 DEF Quiet, CondemnedHasLock, BuriedIsFlagged, HasLock, Named, Known,
     RecoveredIsLost, fileCells
<1> QED BY <1>3, <1>4, <1>5, <1>6 DEF Quiet

\* The invariant of the leases: beside the types, what the recoveries have
\* found holds as long as no reset has run over others.
LEMMA NextKeepsLeases == LeaseInv /\ [Next]_allVars => LeaseInv'
<1> SUFFICES ASSUME LeaseInv, [Next]_allVars PROVE LeaseInv'
  OBVIOUS
<1>1. Known
  BY TypeParts DEF LeaseInv, Known
<1>2. TypeOK' /\ \A q \in Proc : CallOK(q)'
  BY NextKeepsTypes DEF LeaseInv
<1>3. LockFacts'
  BY NextKeepsFacts DEF LeaseInv
<1>4. RecoveredIsLost' /\ QuietInv'
  <2>1. CASE UNCHANGED allVars \/ Tick
    <3>1. UNCHANGED attachedVars /\ UNCHANGED <<pc, why, who, count, history>>
      BY <2>1 DEF allVars, leaseVars, local, Tick
    <3>2. RecoveredIsLost'
      BY <3>1 DEF LeaseInv, RecoveredIsLost, attachedVars, history
    <3>3. UNCHANGED <<overrun, evicted, buried, at, task, victim, dead, condemned, wiped>>
          /\ UNCHANGED fileCells
      BY <3>1 DEF attachedVars, history
    <3>4. Quiet => Quiet'
      BY <3>1, <3>3 DEF Quiet, WipeIsAlone, WipedIsHeld, WipeEmpties, OwnerIsNamed, FoundIsNamed,
         QuarantinedIsFlagged, CondemnedHasLock, BuriedIsFlagged, Named, HasLock, Alive, fileCells
    <3> QED BY <3>2, <3>3, <3>4 DEF LeaseInv, QuietInv
  <2>2. ASSUME NEW p \in Proc, LeaseCall(p) PROVE RecoveredIsLost' /\ QuietInv'
    <3>1. overrun => overrun'
      BY <1>1, <2>2, CallHistory DEF Known, LeaseTyped
    <3> QED BY <1>1, <2>2, <3>1, CallsKeepLost, CallsKeepQuiet DEF LeaseInv, QuietInv
  <2>3. ASSUME NEW p \in Proc, AttachedCall(p) PROVE RecoveredIsLost' /\ QuietInv'
    <3>1. UNCHANGED leaseVars /\ overrun' = overrun
      BY <2>3 DEF AttachedCall, AskAttached, LockAttached, CleanUp, Terminate, leaseVars, history
    <3>2. Quiet => Quiet'
      BY <1>1, <2>3, <3>1, LockKeepsQuiet, QuarantineKeepsQuiet, WipeKeepsQuiet, DeathKeepsQuiet
      DEF AttachedCall, CleanUp, Terminate
    <3> QED BY <1>1, <2>3, <3>1, <3>2, AttachedKeepLost DEF LeaseInv, QuietInv
  <2> QED BY <2>1, <2>2, <2>3 DEF Next, Work, LeaseCall, AttachedCall
<1> QED BY <1>2, <1>3, <1>4 DEF LeaseInv

\* Nothing was recovered, quarantined or wiped at first.
LEMMA InitQuiet == InitLease => LeaseInv
<1> SUFFICES ASSUME InitLease PROVE LeaseInv
  OBVIOUS
<1>1. TypeOK /\ (\A p \in Proc : CallOK(p)) /\ LockFacts
  BY InitTyped, InitFacts DEF InitLease
<1>2. RecoveredIsLost
  BY DEF InitLease, InitAttached, RecoveredIsLost
<1>3. WipeIsAlone /\ WipedIsHeld /\ WipeEmpties /\ OwnerIsNamed
  BY DEF InitLease, InitAttached, WipeIsAlone, WipedIsHeld, WipeEmpties, OwnerIsNamed, Named
<1>4. FoundIsNamed /\ QuarantinedIsFlagged /\ CondemnedHasLock /\ BuriedIsFlagged
  BY DEF InitLease, InitAttached, FoundIsNamed, QuarantinedIsFlagged, CondemnedHasLock,
     BuriedIsFlagged
<1> QED BY <1>1, <1>2, <1>3, <1>4 DEF LeaseInv, QuietInv, Quiet

\* LeaseInv holds in every reachable state.
THEOREM LeaseInvariant == Spec => []LeaseInv
BY InitQuiet, NextKeepsLeases, PTL DEF Spec

\* An owner that died in a transaction and whose slot was recovered left the
\* file quarantined, whatever claims, recoveries and resets ran beside.
THEOREM TornQuarantined == Spec => []TornIsQuarantined
<1>1. LeaseInv => TornIsQuarantined
  BY DEF LeaseInv, QuietInv, Quiet, BuriedIsFlagged, Named, TornIsQuarantined
<1> QED BY <1>1, LeaseInvariant, PTL

\* A file is quarantined only for an owner that died with its lock.
THEOREM QuarantineDeserved == Spec => []QuarantineIsDeserved
<1>1. LeaseInv => QuarantineIsDeserved
  <2> SUFFICES ASSUME LeaseInv, NEW v \in condemned \ wiped, ~overrun, v \in dead \ evicted
               PROVE  txLock \in {v, -v}
    BY DEF QuarantineIsDeserved
  <2>1. HasLock(v) /\ v \in Proc
    BY DEF LeaseInv, QuietInv, Quiet, CondemnedHasLock, TypeOK, TypeOKAttached
  <2> QED BY <2>1 DEF LeaseInv, LockFacts, LockIsOwners, HasLock
<1> QED BY <1>1, LeaseInvariant, PTL
=============================================================================
