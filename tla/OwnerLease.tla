----------------------------- MODULE OwnerLease -----------------------------
(***************************************************************************)
(* The leases of the runtime owners and the count of open handles          *)
(* (src/src/memoryWriteAheadSharedRuntime.ts, 352-563, 984-1127), with the *)
(* attached-database lock whose quarantine a recovery runs.                *)
(*                                                                         *)
(* A process is one local lease: an owner id, drawn at random for every    *)
(* lease, is never used again.  One step is one Atomics call, with the     *)
(* local statements around it.  The heartbeat cell is modelled by its age, *)
(* which a tick raises: staleness and "the same heartbeat as before" are   *)
(* all the code asks of it.                                                *)
(***************************************************************************)
EXTENDS AttachedLock, FiniteSets

CONSTANTS
  Slots,        \* MEMORY_WRITE_AHEAD_OWNER_LEASE_SLOT_COUNT
  StaleMs,      \* fileLockStaleMs
  Punctual,     \* TRUE: no live owner's heartbeat, or clear, is late
  Keeper,       \* bound: the processes that open a second handle; no one opens a third
  Opener,       \* bound: the processes that open handles,
  Attacher,     \* that use the attached database,
  Parent,       \* that recover owners they have terminated,
  Resetter      \* that reset the runtime

ASSUME LeaseAssumption ==
  /\ Slots \in Nat \ {0} /\ StaleMs \in Nat /\ Keeper \subseteq Proc
  /\ Punctual \in BOOLEAN
  /\ Opener \subseteq Proc /\ Attacher \subseteq Opener /\ Parent \subseteq Proc /\ Resetter \subseteq Proc

VARIABLES
  slotId,       \* per slot: .ownerId, negative while its owner is recovered
  slotHandles,  \* .handleCount
  slotAge,      \* age of .heartbeatMs
  open,         \* MEMORY_WRITE_AHEAD_RUNTIME_META.openHandleCount
  pc,           \* per process: its next Atomics call
  why,          \* per process: the function that made it
  scan,         \* per process: the slot it looks at
  got,          \* per process: the handle count it loaded there
  who,          \* per process: the owner it recovers, or 0
  same,         \* the processes for which the heartbeat they loaded still stands
  lease,        \* per process: the slot of its local lease, 0 for none
  count,        \* per process: lease.handleCount
  timer,        \* the processes whose heartbeat interval is set
  over,         \* the processes whose id has been used
  evicted,      \* history: live owners that lost their slot to a recovery
  overrun,      \* history: a reset cleared the counts while others were at work
  buried        \* history: dead owners whose recovery is past the quarantine

slots == <<slotId, slotHandles, slotAge>>
local == <<lease, count, timer, over>>
history == <<evicted, overrun, buried>>
leaseVars == <<slots, open, pc, why, scan, got, who, same, local, history>>
allVars == <<attachedVars, leaseVars>>

Slot == 1 .. Slots
Never == -1                \* heartbeatMs = 0
Late == StaleMs + 1        \* any age that is stale
IsStale(s) == slotAge[s] = Late

InitLease ==
  /\ InitAttached
  /\ slotId = [s \in Slot |-> 0] /\ slotHandles = [s \in Slot |-> 0]
  /\ slotAge = [s \in Slot |-> Never] /\ open = 0
  /\ pc = [p \in Proc |-> "rest"] /\ why = [p \in Proc |-> "none"]
  /\ scan = [p \in Proc |-> 1] /\ got = [p \in Proc |-> 0]
  /\ who = [p \in Proc |-> 0] /\ same = {}
  /\ lease = [p \in Proc |-> 0] /\ count = [p \in Proc |-> 0]
  /\ timer = {} /\ over = {} /\ evicted = {} /\ overrun = FALSE /\ buried = {}

\* A call runs to its end; a quarantine or a wipe is part of one.
Step(p, from) == Alive(p) /\ task[p] = "none" /\ pc[p] = from
To(p, next) == pc' = [pc EXCEPT ![p] = next]
Goto(p, from, next) == Step(p, from) /\ To(p, next)
Look(p, s) == scan' = [scan EXCEPT ![p] = s]
Meet(p, v) == who' = [who EXCEPT ![p] = v]
Got(p, n) == got' = [got EXCEPT ![p] = n]
For(p, caller) == why' = [why EXCEPT ![p] = caller]

\* A store to the heartbeat of a slot, at another time than the last one.
Stamp(s, age) ==
  /\ slotAge' = [slotAge EXCEPT ![s] = age]
  /\ same' = {p \in same : scan[p] # s}

Beatless == UNCHANGED <<slotAge, same>>
SlotsKept == UNCHANGED slots /\ UNCHANGED same
Aside == UNCHANGED <<attachedVars, history>>

\* A reset that found no handle open goes on whatever the others do meanwhile.
OverrunIf(unsafe) == overrun' = (overrun \/ unsafe)
OthersAtWork(p) ==
  \E q \in Proc \ ({p} \cup dead) : lease[q] # 0 \/ count[q] # 0 \/ pc[q] # "rest"

-----------------------------------------------------------------------------
(* claimOwnerLeaseSlot, as ensureLocalRuntimeLease calls it *)

\* jOpen makes a handle in a context that has no lease.
Open(p) ==
  /\ Goto(p, "rest", "claimId")
  /\ p \in Opener \ over /\ lease[p] = 0
  /\ Look(p, 1) /\ For(p, "claim")
  /\ UNCHANGED <<open, got, who, local>> /\ SlotsKept /\ Aside

\* The next slot; after the last one, a recovery and one more round, or
\* "owner lease capacity exhausted".
NextToClaim(p) ==
  IF scan[p] < Slots
    THEN To(p, "claimId") /\ Look(p, scan[p] + 1) /\ UNCHANGED why
    ELSE /\ Look(p, 1)
         /\ To(p, IF why[p] = "claim" THEN "recId" ELSE "rest")
         /\ For(p, IF why[p] = "claim" THEN "again" ELSE "none")

ClaimId(p) ==
  /\ Step(p, "claimId")
  /\ IF slotId[scan[p]] = 0
       THEN To(p, "claimHb") /\ UNCHANGED <<scan, why>>
       ELSE NextToClaim(p)
  /\ UNCHANGED <<open, got, who, local>> /\ SlotsKept /\ Aside

StaleLeftover(p) == IsStale(scan[p])

ClaimHb(p) ==
  /\ Goto(p, "claimHb", IF StaleLeftover(p) THEN "claimStamp" ELSE "claimCount")
  /\ UNCHANGED <<open, why, scan, got, who, local>> /\ SlotsKept /\ Aside

\* Without a stale heartbeat the slot has to be empty.
ClaimCount(p) ==
  /\ Step(p, "claimCount")
  /\ IF slotHandles[scan[p]] = 0
       THEN To(p, "claimEmpty") /\ UNCHANGED <<scan, why>>
       ELSE NextToClaim(p)
  /\ UNCHANGED <<open, got, who, local>> /\ SlotsKept /\ Aside

ClaimEmpty(p) ==
  /\ Step(p, "claimEmpty")
  /\ IF slotAge[scan[p]] = Never
       THEN To(p, "claimStamp") /\ UNCHANGED <<scan, why>>
       ELSE NextToClaim(p)
  /\ UNCHANGED <<open, got, who, local>> /\ SlotsKept /\ Aside

ClaimStamp(p) ==
  /\ Goto(p, "claimStamp", "claimCas")
  /\ Stamp(scan[p], 0)
  /\ UNCHANGED <<slotId, slotHandles, open, why, scan, got, who, local>> /\ Aside

ClaimCas(p) ==
  /\ Step(p, "claimCas")
  /\ IF slotId[scan[p]] = 0
       THEN /\ slotId' = [slotId EXCEPT ![scan[p]] = p]
            /\ To(p, "claimReset") /\ UNCHANGED <<scan, why>>
       ELSE NextToClaim(p) /\ UNCHANGED slotId
  /\ UNCHANGED <<slotHandles, open, got, who, local>> /\ Beatless /\ Aside

\* The lease is registered and its timer set, and the handle is retained.
ClaimReset(p) ==
  /\ Goto(p, "claimReset", "retainOpen")
  /\ slotHandles' = [slotHandles EXCEPT ![scan[p]] = 0]
  /\ lease' = [lease EXCEPT ![p] = scan[p]]
  /\ timer' = timer \cup {p}
  /\ For(p, "retain")
  /\ UNCHANGED <<slotId, open, scan, got, who, count, over>> /\ Beatless /\ Aside

ClaimSlot(p) ==
  \/ ClaimId(p) \/ ClaimHb(p) \/ ClaimCount(p) \/ ClaimEmpty(p)
  \/ ClaimStamp(p) \/ ClaimCas(p) \/ ClaimReset(p)

-----------------------------------------------------------------------------
(* retain, release and the heartbeat timer of a local lease *)

Rest(p) == To(p, "rest") /\ For(p, "none")

\* The last release clears the timer and drops the lease.
EndLease(p) ==
  /\ lease' = [lease EXCEPT ![p] = 0]
  /\ timer' = timer \ {p}
  /\ over' = IF lease[p] = 0 THEN over ELSE over \cup {p}
AfterRelease(p) ==
  /\ Rest(p)
  /\ IF count[p] = 0 THEN EndLease(p) ELSE UNCHANGED <<lease, timer, over>>

\* Another handle on the lease there is.
Retain(p) ==
  /\ Goto(p, "rest", "retainOpen")
  /\ p \in Keeper /\ lease[p] # 0 /\ count[p] = 1
  /\ For(p, "retain")
  /\ UNCHANGED <<open, scan, got, who, local>> /\ SlotsKept /\ Aside

RetainOpen(p) ==
  /\ Goto(p, "retainOpen", "retainSlot")
  /\ count' = [count EXCEPT ![p] = @ + 1]
  /\ open' = open + 1
  /\ OverrunIf(\E q \in Proc : why[q] = "wipe")
  /\ UNCHANGED <<why, scan, got, who, lease, timer, over, attachedVars, evicted, buried>> /\ SlotsKept

RetainSlot(p) ==
  /\ Goto(p, "retainSlot", "beat")
  /\ slotHandles' = [slotHandles EXCEPT ![lease[p]] = @ + 1]
  /\ UNCHANGED <<slotId, open, why, scan, got, who, local>> /\ Beatless /\ Aside

\* The interval of updateOwnerLeaseHeartbeat.
Timer(p) ==
  /\ p \in timer
  /\ Goto(p, "rest", "beat")
  /\ For(p, "timer")
  /\ UNCHANGED <<open, scan, got, who, local>> /\ SlotsKept /\ Aside

\* The interval is cleared the first time the slot is not the lease's.
Beat(p) ==
  /\ Step(p, "beat")
  /\ IF slotId[lease[p]] = p /\ count[p] > 0
       THEN To(p, "beatStore") /\ UNCHANGED <<why, lease, timer, over>>
       ELSE IF why[p] = "timer"
         THEN Rest(p) /\ timer' = timer \ {p} /\ UNCHANGED <<lease, over>>
         ELSE AfterRelease(p)
  /\ UNCHANGED <<open, scan, got, who, count>> /\ SlotsKept /\ Aside

BeatStore(p) ==
  /\ Step(p, "beatStore")
  /\ Stamp(lease[p], 0)
  /\ AfterRelease(p)
  /\ UNCHANGED <<slotId, slotHandles, open, scan, got, who, count>> /\ Aside

\* The access handle closes; the last one of a lease after the connection.
Release(p) ==
  /\ Goto(p, "rest", "relId")
  /\ lease[p] # 0 /\ count[p] > 0
  /\ count[p] = 1 => at[p] = "idle"
  /\ count' = [count EXCEPT ![p] = @ - 1]
  /\ For(p, "release")
  /\ UNCHANGED <<open, scan, got, who, lease, timer, over>> /\ SlotsKept /\ Aside

ReleaseId(p) ==
  /\ Step(p, "relId")
  /\ IF slotId[lease[p]] = p
       THEN To(p, "relHandles") /\ UNCHANGED <<why, lease, timer, over>>
       ELSE AfterRelease(p)
  /\ UNCHANGED <<open, scan, got, who, count>> /\ SlotsKept /\ Aside

AfterReduce(p, n) == IF n <= 1 /\ count[p] = 0 THEN "clearId" ELSE "beat"

\* A slot whose count was cleared under its owner lowers nothing.
ReleaseHandles(p) ==
  LET n == slotHandles[lease[p]] IN
  /\ Goto(p, "relHandles", IF n > 0 THEN "relSub" ELSE AfterReduce(p, n))
  /\ Got(p, n) /\ Look(p, lease[p])
  /\ UNCHANGED <<open, why, who, local>> /\ SlotsKept /\ Aside

ReleaseSub(p) ==
  /\ Goto(p, "relSub", "relOpen")
  /\ slotHandles' = [slotHandles EXCEPT ![lease[p]] = @ - 1]
  /\ UNCHANGED <<slotId, open, why, scan, got, who, local>> /\ Beatless /\ Aside

\* reduceOpenHandleCount: its loop ends with one successful compare-and-set.
Reduced(n) == IF open > n THEN open - n ELSE 0

ReleaseOpen(p) ==
  /\ Goto(p, "relOpen", AfterReduce(p, got[p]))
  /\ open' = Reduced(1) /\ Got(p, 0)
  /\ UNCHANGED <<why, scan, who, local>> /\ SlotsKept /\ Aside

Handle(p) ==
  \/ RetainOpen(p) \/ RetainSlot(p) \/ Beat(p) \/ BeatStore(p)
  \/ ReleaseId(p) \/ ReleaseHandles(p) \/ ReleaseSub(p) \/ ReleaseOpen(p)

-----------------------------------------------------------------------------
(* clearOwnerLeaseSlot, and what comes after it in each of its callers *)

\* Mutant: off by one.
BeyondLast(p) == scan[p] <= Slots
MoreSlots(p) == scan[p] < Slots

\* The next slot of recoverAbandonedRuntimeOwnerLeases, or its caller.
NextToRecover(p) ==
  IF MoreSlots(p)
    THEN To(p, "recId") /\ Look(p, scan[p] + 1)
    ELSE Look(p, 1) /\ To(p, IF why[p] = "again" THEN "claimId" ELSE "resetOpen")

AfterClear(p) ==
  \/ why[p] \in {"again", "reset"} /\ NextToRecover(p) /\ UNCHANGED <<why, lease, timer, over>>
  \/ why[p] = "terminated" /\ Rest(p) /\ UNCHANGED <<scan, lease, timer, over>>
  \/ why[p] = "release" /\ AfterRelease(p) /\ UNCHANGED scan
  \/ /\ why[p] = "wipe" /\ scan[p] < Slots
     /\ To(p, "clearId") /\ Look(p, scan[p] + 1) /\ UNCHANGED <<why, lease, timer, over>>
  \/ why[p] = "wipe" /\ scan[p] = Slots /\ Rest(p) /\ EndLease(p) /\ UNCHANGED scan

ClearId(p) ==
  /\ Goto(p, "clearId", "clearHandles")
  /\ slotId' = [slotId EXCEPT ![scan[p]] = 0]
  /\ Meet(p, 0)
  /\ buried' = buried \cup (({who[p]} \cap dead) \ evicted)
  /\ OverrunIf(why[p] = "wipe" /\ OthersAtWork(p))
  /\ UNCHANGED <<slotHandles, open, why, scan, got, local, attachedVars, evicted>> /\ Beatless

ClearHandles(p) ==
  /\ Goto(p, "clearHandles", "clearHb")
  /\ slotHandles' = [slotHandles EXCEPT ![scan[p]] = 0]
  /\ OverrunIf(why[p] = "wipe" /\ OthersAtWork(p))
  /\ UNCHANGED <<slotId, open, why, scan, got, who, local, attachedVars, evicted, buried>> /\ Beatless

ClearHb(p) ==
  /\ Step(p, "clearHb")
  /\ Stamp(scan[p], Never)
  /\ AfterClear(p)
  /\ OverrunIf(why[p] = "wipe" /\ OthersAtWork(p))
  /\ UNCHANGED <<slotId, slotHandles, open, got, who, count, attachedVars, evicted, buried>>

Clear(p) == ClearId(p) \/ ClearHandles(p) \/ ClearHb(p)

-----------------------------------------------------------------------------
(* recoverAbandonedRuntimeOwnerLeases, slot by slot *)

\* Mutants: the age is not looked at; no heartbeat counts as a stale one.
AnyHeartbeat(p) == slotAge[scan[p]] # Never
NoHeartbeat(p) == slotAge[scan[p]] = Never
StaleHeartbeat(p) == IsStale(scan[p])

RecoverId(p) ==
  /\ Step(p, "recId")
  /\ IF slotId[scan[p]] > 0
       THEN To(p, "recHb") /\ Meet(p, slotId[scan[p]]) /\ UNCHANGED scan
       ELSE NextToRecover(p) /\ UNCHANGED who
  /\ UNCHANGED <<open, why, got, local>> /\ SlotsKept /\ Aside

RecoverHb(p) ==
  /\ Step(p, "recHb")
  /\ IF StaleHeartbeat(p)
       THEN To(p, "recCas") /\ same' = same \cup {p} /\ UNCHANGED <<scan, who>>
       ELSE NextToRecover(p) /\ Meet(p, 0) /\ UNCHANGED same
  /\ UNCHANGED <<slots, open, why, got, local>> /\ Aside

\* Mutant: a plain store instead of the compare-and-set.
Unconditionally(p) == TRUE
StillOwned(p) == slotId[scan[p]] = who[p]

\* The owner id is negated: nobody else recovers the slot.
RecoverCas(p) ==
  /\ Step(p, "recCas")
  /\ IF StillOwned(p)
       THEN /\ slotId' = [slotId EXCEPT ![scan[p]] = -who[p]]
            /\ To(p, "recCheck") /\ UNCHANGED <<scan, who, same>>
       ELSE NextToRecover(p) /\ Meet(p, 0) /\ same' = same \ {p} /\ UNCHANGED slotId
  /\ UNCHANGED <<slotHandles, slotAge, open, why, got, local>> /\ Aside

Rechecked(p) == IF p \in same THEN "recHandles" ELSE "recUndo"

RecoverCheck(p) ==
  /\ Goto(p, "recCheck", Rechecked(p))
  /\ same' = same \ {p}
  /\ UNCHANGED <<slots, open, why, scan, got, who, local>> /\ Aside

\* A plain store, whatever the cell has become.
RecoverUndo(p) ==
  /\ Step(p, "recUndo")
  /\ slotId' = [slotId EXCEPT ![scan[p]] = who[p]]
  /\ NextToRecover(p) /\ Meet(p, 0)
  /\ UNCHANGED <<slotHandles, open, why, got, local>> /\ Beatless /\ Aside

\* From here on the owner loses the slot, alive or not.
RecoverHandles(p) ==
  /\ Goto(p, "recHandles", "recOpen")
  /\ Got(p, slotHandles[scan[p]])
  /\ evicted' = evicted \cup ({who[p]} \ dead)
  /\ UNCHANGED <<open, why, scan, who, local, attachedVars, overrun, buried>> /\ SlotsKept

RecoverOpen(p) ==
  /\ Goto(p, "recOpen", "recQuarantine")
  /\ open' = IF got[p] > 0 THEN Reduced(got[p]) ELSE open
  /\ Got(p, 0)
  /\ UNCHANGED <<why, scan, who, local>> /\ SlotsKept /\ Aside

\* The quarantine runs to its end before the slot is cleared.
RecoverQuarantine(p) ==
  /\ pc[p] = "recQuarantine" /\ To(p, "clearId")
  /\ StartQuarantine(p, who[p])
  /\ UNCHANGED <<open, why, scan, got, who, local, history>> /\ SlotsKept

\* recoverTerminatedMemoryWriteAheadRuntimeOwner: the parent has terminated
\* the owner itself and does not ask for its heartbeat.
RecoverTerminated(p, v) ==
  /\ p \in Parent /\ v \in dead
  /\ Goto(p, "rest", "termCas")
  /\ \E s \in Slot : slotId[s] = v /\ Look(p, s)
  /\ Meet(p, v) /\ For(p, "terminated")
  /\ UNCHANGED <<open, got, local>> /\ SlotsKept /\ Aside

TerminatedCas(p) ==
  /\ Step(p, "termCas")
  /\ IF StillOwned(p)
       THEN /\ slotId' = [slotId EXCEPT ![scan[p]] = -who[p]]
            /\ To(p, "recHandles") /\ UNCHANGED <<why, who>>
       ELSE Rest(p) /\ Meet(p, 0) /\ UNCHANGED slotId
  /\ UNCHANGED <<slotHandles, open, scan, got, local>> /\ Beatless /\ Aside

Recover(p) ==
  \/ RecoverId(p) \/ RecoverHb(p) \/ RecoverCas(p) \/ RecoverCheck(p) \/ RecoverUndo(p)
  \/ RecoverHandles(p) \/ RecoverOpen(p) \/ RecoverQuarantine(p) \/ TerminatedCas(p)

-----------------------------------------------------------------------------
(* resetMemoryWriteAheadRuntimeState *)

Reset(p) ==
  /\ p \in Resetter
  /\ Goto(p, "rest", "recId")
  /\ Look(p, 1) /\ For(p, "reset")
  /\ UNCHANGED <<open, got, who, local>> /\ SlotsKept /\ Aside

\* "Cannot reset MemoryWriteAheadVFS while ... open handles remain"
ResetRefused(p) ==
  /\ open > 0
  /\ Step(p, "resetOpen") /\ Rest(p)
  /\ UNCHANGED <<open, scan, got, who, local>> /\ SlotsKept /\ Aside

ResetFiles(p) ==
  /\ open = 0
  /\ pc[p] = "resetOpen" /\ To(p, "resetZero")
  /\ StartWipe(p)
  /\ For(p, "wipe")
  /\ OverrunIf(OthersAtWork(p))
  /\ UNCHANGED <<open, scan, got, who, local, evicted, buried>> /\ SlotsKept

ResetZero(p) ==
  /\ Goto(p, "resetZero", "clearId")
  /\ open' = 0
  /\ OverrunIf(OthersAtWork(p))
  /\ UNCHANGED <<why, scan, got, who, local, attachedVars, evicted, buried>> /\ SlotsKept

ResetStep(p) == ResetRefused(p) \/ ResetFiles(p) \/ ResetZero(p)

-----------------------------------------------------------------------------
(* Time, the attached database between two calls, and the whole *)

\* A punctual process lets neither its heartbeat, nor the one it leaves in a
\* slot that it claims or clears, become stale.
Timely(p) ==
  /\ lease[p] # 0 /\ slotId[lease[p]] = p => slotAge[lease[p]] < StaleMs
  /\ pc[p] \in {"claimCas", "claimReset"} => slotAge[scan[p]] < StaleMs
  /\ pc[p] \in {"clearHandles", "clearHb"} /\ why[p] = "release" => slotAge[scan[p]] < StaleMs

Tick ==
  /\ Punctual => \A p \in Proc \ dead : Timely(p)
  /\ slotAge' = [s \in Slot |-> IF slotAge[s] \in {Never, Late} THEN slotAge[s] ELSE slotAge[s] + 1]
  /\ UNCHANGED <<attachedVars, slotId, slotHandles, open, pc, why, scan, got, who, same, local, history>>

AskAttached(p) ==
  /\ p \in Attacher /\ count[p] > 0 /\ pc[p] = "rest"
  /\ Ask(p)
  /\ UNCHANGED leaseVars

LockAttached(p) == pc[p] = "rest" /\ Lock(p) /\ UNCHANGED leaseVars

CleanUp(p) == (Quarantine(p) \/ Wipe(p)) /\ UNCHANGED leaseVars

Terminate(p) == Die(p) /\ UNCHANGED leaseVars

Work(p) == ClaimSlot(p) \/ Handle(p) \/ Clear(p) \/ Recover(p) \/ ResetStep(p) \/ CleanUp(p)

Next ==
  \/ Tick
  \/ \E p \in Proc :
       \/ Open(p) \/ Retain(p) \/ Release(p) \/ Timer(p) \/ Reset(p)
       \/ Work(p) \/ AskAttached(p) \/ LockAttached(p) \/ Terminate(p)
       \/ \E v \in Proc : RecoverTerminated(p, v)

Spec == InitLease /\ [][Next]_allVars

\* A call that has begun goes on, a wait polls and a transaction ends.  Nobody
\* has to open, ask, reset or die, and no timer has to fire.
Fairness ==
  /\ \A p \in Proc : WF_allVars(Work(p))
  /\ \A p \in Attacher : SF_allVars(LockAttached(p))

FairSpec == Spec /\ Fairness

-----------------------------------------------------------------------------

TypeOK ==
  /\ TypeOKAttached
  /\ slotId \in [Slot -> Proc \cup {0} \cup {-p : p \in Proc}]
  /\ slotHandles \in [Slot -> Int] /\ slotAge \in [Slot -> Never .. Late]
  /\ open \in Nat
  /\ pc \in [Proc -> {"rest", "claimId", "claimHb", "claimCount", "claimEmpty", "claimStamp",
       "claimCas", "claimReset", "retainOpen", "retainSlot", "beat", "beatStore", "relId",
       "relHandles", "relSub", "relOpen", "clearId", "clearHandles", "clearHb", "recId", "recHb",
       "recCas", "recCheck", "recUndo", "recHandles", "recOpen", "recQuarantine", "termCas",
       "resetOpen", "resetZero"}]
  /\ why \in [Proc -> {"none", "claim", "again", "retain", "release", "timer", "terminated",
                       "reset", "wipe"}]
  /\ scan \in [Proc -> Slot] /\ got \in [Proc -> Int] /\ who \in [Proc -> Proc \cup {0}]
  /\ lease \in [Proc -> Slot \cup {0}] /\ count \in [Proc -> Nat]
  /\ same \subseteq Proc /\ timer \subseteq Proc /\ over \subseteq Proc
  /\ evicted \subseteq Proc /\ buried \subseteq Proc /\ overrun \in BOOLEAN

\* No process loses its slot while it is alive and beats on time; what is
\* evicted otherwise is what a reset swept away (README.md:131 for locks).
PunctualKeepsSlot ==
  Punctual /\ ~overrun =>
    /\ evicted = {}
    /\ \A p \in Proc \ dead :
         lease[p] # 0 /\ ~(pc[p] \in {"clearHandles", "clearHb"} /\ why[p] = "release")
           => slotId[lease[p]] = p

\* What a live process has added to the count of open handles and will take off.
Due(p) ==
  IF p \in dead THEN 0
  ELSE count[p] + (IF pc[p] \in {"relId", "relHandles", "relSub", "relOpen"} THEN 1 ELSE 0)

\* The handles that live processes have added to the count and will take off.
LiveHandles == UNION {{p} \X (1 .. Due(p)) : p \in Proc}

\* The count never falls below the handles of the live, so that no reset runs
\* under them: several decrements for one owner race and only one counts.  It is
\* so as long as no owner dies between winning a slot and resetting its count
\* while another one's count still stands there (two deaths on one slot).
OpenCoversHandles == ~overrun /\ evicted = {} => open >= Cardinality(LiveHandles)

\* Recovering an owner that died in a transaction leaves the file quarantined.
TornIsQuarantined ==
  \A v \in buried \ wiped :
    ~overrun /\ at[v] \in {"confirm", "held", "unname"} => abandoned = 1

\* A file is quarantined only for a transaction of a dead owner, whose lock
\* nobody can release any more.
QuarantineIsDeserved ==
  \A v \in condemned \ wiped :
    ~overrun /\ v \in dead \ evicted => txLock \in {v, -v}

\* The slot of a dead owner has a heartbeat that ages, so that a recovery will
\* find it: nothing releases an owner without one (the comments at
\* memoryWriteAheadSharedRuntime.ts:349 and :507).
DeadOwnerAges ==
  \A s \in Slot : slotId[s] \in dead => slotAge[s] # Never

\* A connection that waits for the lock of a transaction whose owner died and
\* was recovered does not wait for ever: it is told that the file is lost.
WaitersAreAnswered ==
  \A v \in Mortal, p \in Attacher \ Mortal :
    (v \in buried /\ at[v] \in {"confirm", "held", "unname"} /\ at[p] \in {"try", "cas", "wait"})
      ~> (overrun \/ v \in wiped \/ at[p] \notin {"try", "cas", "wait"})

\* A context that finds all slots taken gets back that of a dead owner whose
\* heartbeat is stale, unless a claim or a recovery that is already on its way
\* refreshes it, or the recoverer dies.
Alone(p) == \A q \in Proc \ {p} : q \in dead \/ pc[q] = "rest"

DeadSlotComesBack ==
  \A v \in Mortal, s \in Slot, p \in Proc \ Mortal :
    (slotId[s] = v /\ v \in dead /\ IsStale(s) /\ pc[p] = "recId" /\ scan[p] <= s /\ Alone(p))
      ~> (overrun \/ slotId[s] \notin {v, -v})

\* Bound: what happens after a reset has run over others is not explored.
NoOverrun == ~overrun

=============================================================================
