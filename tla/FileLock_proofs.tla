--------------------------- MODULE FileLock_proofs ---------------------------
(***************************************************************************)
(* Mutual exclusion of the file lock, for any set of owners, any stale     *)
(* period and any clock, however the workers stall or are terminated.      *)
(***************************************************************************)
EXTENDS FileLock, TLAPS

\* The strengthening: a compare-and-set of a recovery can only clear the word
\* of a holder when the value it remembers is a claim, never the bare owner.
LockInv == TypeOK /\ SeenByRecovery /\ HolderHasWord

\* The clock stays in range and reads as one of its values.
LEMMA ClockRange ==
  ASSUME clock \in Time
  PROVE  /\ ClockMs \in Time
         /\ (clock + 1) % ClockMod \in Time
BY ClockAssumption DEF ClockMs, Time

\* The values of the lock word: free, held, or claimed.
LEMMA LockWordFacts ==
  /\ Unlocked \in LockWord
  /\ Owner \subseteq LockWord
  /\ \A w \in LockWord : -w \in LockWord /\ w \in Int
BY OwnerAssumption DEF LockWord, Unlocked

\* Zero stands for "nothing remembered" in the registers of an owner.
LEMMA ZeroFacts == 0 \in Time /\ 0 \in LockWord
BY ClockAssumption DEF Time, LockWord, Unlocked

\* The age of a heartbeat is a number of milliseconds.
LEMMA AgeNat ==
  ASSUME clock \in Time, NEW hb \in Time
  PROVE  AgeMs(hb) \in Nat
BY ClockAssumption DEF AgeMs, ClockMs, Time

\* The lock starts free, with nobody inside.
LEMMA InitLockInv == Init => LockInv
<1> USE OwnerAssumption, LockWordFacts, ZeroFacts
<1>1. Init => TypeOK
  BY ClockAssumption, StartAssumption DEF Init, TypeOK, Location, Time
<1>2. Init => SeenByRecovery /\ HolderHasWord
  BY DEF Init, SeenByRecovery, HolderHasWord, InCritical, Critical
<1> QED  BY <1>1, <1>2 DEF LockInv

\* Every step of an acquisition keeps the invariant.
LEMMA AcquireLockInv ==
  ASSUME LockInv, NEW o \in Owner, Acquire(o)
  PROVE  LockInv'
<1> USE OwnerAssumption, LockWordFacts, ZeroFacts
<1>1. TypeOK'
  <2>1. CASE StoreStamp(o)
    <3>1. AgeMs(stamp[o]) \in Nat  BY AgeNat DEF LockInv, TypeOK
    <3> QED  BY <2>1, <3>1 DEF LockInv, TypeOK, StoreStamp, Goto, StampLag,
                Location, Acquiring
  <2>2. CASE ReadClock(o)
    BY <2>2, ClockRange DEF LockInv, TypeOK, ReadClock, Goto, Location, Acquiring, cells
  <2>3. CASE LoadUnlocked(o)
    BY <2>3 DEF LockInv, TypeOK, LoadUnlocked, Goto, NoLag, Location, Acquiring, Recovering, Critical, cells
  <2>4. CASE LoadLocked(o)
    BY <2>4 DEF LockInv, TypeOK, LoadLocked, Goto, NoLag, Location, Acquiring, Recovering, Critical, cells
  <2>5. CASE CasWins(o)
    BY <2>5 DEF LockInv, TypeOK, CasWins, Goto, NoLag, Location, Acquiring, Recovering, Critical, cells
  <2>6. CASE CasLoses(o)
    BY <2>6 DEF LockInv, TypeOK, CasLoses, Goto, NoLag, Location, Acquiring, Recovering, Critical, cells
  <2>7. CASE StoreOwner(o) \/ Contend(o) \/ WaitReturns(o) \/ WaitThrows(o)
    BY <2>7 DEF LockInv, TypeOK, StoreOwner, Contend, WaitReturns, WaitThrows, Goto,
       Location, Critical, cells
  <2> QED  BY <2>1, <2>2, <2>3, <2>4, <2>5, <2>6, <2>7 DEF Acquire
<1>2. SeenByRecovery'
  BY DEF Acquire, LockInv, TypeOK, SeenByRecovery, LoadUnlocked, LoadLocked, ReadClock,
     StoreStamp, CasWins, CasLoses, StoreOwner, Contend, WaitReturns, WaitThrows, Goto
<1>3. HolderHasWord'
  <2>1. CASE CasWins(o)
    <3>1. \A a \in Owner : InCritical(a) => a \in evicted
      BY <2>1 DEF CasWins, LockInv, HolderHasWord, Unlocked
    <3> QED  BY <2>1, <3>1 DEF CasWins, Goto, LockInv, TypeOK, HolderHasWord, InCritical
  <2>2. CASE ~CasWins(o)
    BY <2>2 DEF Acquire, LockInv, TypeOK, HolderHasWord, InCritical, Critical, cells,
       LoadUnlocked, LoadLocked, ReadClock, StoreStamp, CasLoses, StoreOwner, Contend,
       WaitReturns, WaitThrows, Goto
  <2> QED  BY <2>1, <2>2
<1> QED  BY <1>1, <1>2, <1>3 DEF LockInv

\* Every step of a recovery keeps it: a claim and its undo only change the
\* sign of the word, and finishing one records the owner it evicts.
LEMMA RecoverLockInv ==
  ASSUME LockInv, NEW o \in Owner, Recover(o)
  PROVE  LockInv'
<1> USE OwnerAssumption, LockWordFacts, ZeroFacts
<1>1. TypeOK'
  <2>1. CASE LoadLock(o)
    BY <2>1 DEF LockInv, TypeOK, LoadLock, Goto, Forget, Location, Recovering, cells
  <2>2. CASE LoadHeartbeat(o)
    BY <2>2 DEF LockInv, TypeOK, LoadHeartbeat, Goto, Forget, Location, Recovering, cells
  <2>3. CASE JudgeFresh(o)
    BY <2>3 DEF LockInv, TypeOK, JudgeFresh, Goto, Forget, Location, Recovering, cells
  <2>4. CASE JudgeStale(o)
    BY <2>4 DEF LockInv, TypeOK, JudgeStale, AfterStale, Goto, Forget, Location, Recovering, cells
  <2>5. CASE Claim(o)
    BY <2>5 DEF LockInv, TypeOK, SeenByRecovery, Claim, Goto, Location, Recovering, Unlocked
  <2>6. CASE ClaimFails(o)
    BY <2>6 DEF LockInv, TypeOK, ClaimFails, Goto, Forget, Location, Recovering, cells
  <2>7. CASE Recheck(o)
    BY <2>7 DEF LockInv, TypeOK, Recheck, Goto, Forget, Location, Recovering, cells
  <2>8. CASE Undo(o)
    BY <2>8 DEF LockInv, TypeOK, SeenByRecovery, Undo, Undone, Goto, Forget, Location, Unlocked
  <2>9. CASE Finish(o)
    BY <2>9 DEF LockInv, TypeOK, Finish, Goto, Forget, Location, Unlocked
  <2> QED  BY <2>1, <2>2, <2>3, <2>4, <2>5, <2>6, <2>7, <2>8, <2>9 DEF Recover
<1>2. SeenByRecovery'
  <2>1. CASE LoadLock(o)
    BY <2>1 DEF LockInv, TypeOK, SeenByRecovery, LoadLock, Goto
  <2>2. CASE LoadHeartbeat(o) \/ Recheck(o)
    BY <2>2 DEF LockInv, TypeOK, SeenByRecovery, LoadHeartbeat, Recheck, Goto
  <2>3. CASE JudgeStale(o)
    <3>1. seen[o] \in Int /\ seen[o] # 0
      BY <2>3 DEF JudgeStale, AfterStale, Goto, LockInv, TypeOK, SeenByRecovery, Unlocked
    <3> QED  BY <2>3, <3>1 DEF LockInv, TypeOK, SeenByRecovery, JudgeStale, AfterStale, Goto
  <2>4. CASE Claim(o)
    <3>1. seen[o] \in Int  BY DEF LockInv, TypeOK
    <3> QED  BY <2>4, <3>1 DEF LockInv, TypeOK, SeenByRecovery, Claim, Goto
  <2>5. CASE JudgeFresh(o) \/ ClaimFails(o)
    BY <2>5 DEF LockInv, TypeOK, SeenByRecovery, JudgeFresh, ClaimFails, Goto, Forget
  <2>6. CASE Undo(o) \/ Finish(o)
    BY <2>6 DEF LockInv, TypeOK, SeenByRecovery, Undo, Undone, Finish, Goto, Forget
  <2> QED  BY <2>1, <2>2, <2>3, <2>4, <2>5, <2>6 DEF Recover
<1>3. HolderHasWord'
  <2>1. \A a \in Owner : InCritical(a)' = InCritical(a)
    <3>1. ASSUME JudgeStale(o)  PROVE pc'[o] \in {"claim", "finish"} /\ pc[o] = "judge"
      BY <3>1 DEF JudgeStale, AfterStale, Goto, LockInv, TypeOK
    <3> QED  BY <3>1 DEF Recover, LockInv, TypeOK, InCritical, Critical, LoadLock,
                LoadHeartbeat, JudgeFresh, JudgeStale, Claim, ClaimFails, Recheck,
                Undo, Finish, Goto
  <2>2. CASE Claim(o) \/ Undo(o)
    BY <2>1, <2>2 DEF Claim, Undo, Undone, Goto, LockInv, TypeOK, SeenByRecovery, HolderHasWord
  <2>3. CASE Finish(o)
    <3>1. seen[o] < 0  BY <2>3 DEF Finish, Goto, LockInv, SeenByRecovery
    <3> QED  BY <2>1, <2>3, <3>1 DEF Finish, LockInv, TypeOK, HolderHasWord
  <2>4. CASE UNCHANGED <<word, evicted>>
    BY <2>1, <2>4 DEF LockInv, HolderHasWord
  <2> QED  BY <2>2, <2>3, <2>4 DEF Recover, LoadLock, LoadHeartbeat, JudgeFresh,
              JudgeStale, ClaimFails, Recheck, cells
<1> QED  BY <1>1, <1>2, <1>3 DEF LockInv

\* Every step of a holder keeps it: only the owner in the word can clear it.
LEMMA HoldLockInv ==
  ASSUME LockInv, NEW o \in Owner, Hold(o)
  PROVE  LockInv'
<1> USE OwnerAssumption, LockWordFacts, ZeroFacts
<1>1. TypeOK'
  <2>1. CASE RefreshStore(o)
    <3>1. AgeMs(stamp[o]) \in Nat  BY AgeNat DEF LockInv, TypeOK
    <3> QED  BY <2>1, <3>1 DEF LockInv, TypeOK, RefreshStore, Goto, StampLag,
                Location, Critical
  <2>2. CASE RefreshClock(o)
    BY <2>2, ClockRange DEF LockInv, TypeOK, RefreshClock, Goto, Location, Critical, cells
  <2>3. CASE RefreshLoadLock(o)
    BY <2>3 DEF LockInv, TypeOK, RefreshLoadLock, Goto, NoLag, Location, Critical, cells
  <2>4. CASE RefreshLoadOwner(o)
    BY <2>4 DEF LockInv, TypeOK, RefreshLoadOwner, Goto, NoLag, Location, Critical, cells
  <2>5. CASE Release(o)
    BY <2>5 DEF LockInv, TypeOK, Release, Released, Goto, NoLag, Location, Critical, cells
  <2> QED  BY <2>1, <2>2, <2>3, <2>4, <2>5 DEF Hold
<1>2. SeenByRecovery'
  BY DEF Hold, LockInv, TypeOK, SeenByRecovery, RefreshLoadLock, RefreshLoadOwner,
     RefreshClock, RefreshStore, Release, Released, Goto
<1>3. HolderHasWord'
  <2>1. CASE Release(o)
    BY <2>1 DEF Release, Released, Goto, LockInv, TypeOK, HolderHasWord, InCritical, Critical
  <2>2. CASE ~Release(o)
    BY <2>2 DEF Hold, LockInv, TypeOK, HolderHasWord, InCritical, Critical, cells,
       RefreshLoadLock, RefreshLoadOwner, RefreshClock, RefreshStore, Goto
  <2> QED  BY <2>1, <2>2
<1> QED  BY <1>1, <1>2, <1>3 DEF LockInv

\* The invariant is inductive.
LEMMA NextLockInv == LockInv /\ [Next]_vars => LockInv'
<1> SUFFICES ASSUME LockInv, [Next]_vars PROVE LockInv'
  OBVIOUS
<1> USE OwnerAssumption, LockWordFacts, ZeroFacts
<1>1. CASE UNCHANGED vars
  BY <1>1 DEF vars, LockInv, TypeOK, SeenByRecovery, HolderHasWord, InCritical
<1>2. CASE Tick
  <2>1. TypeOK'  BY <1>2, ClockRange DEF Tick, Later, LockInv, TypeOK, cells
  <2> QED  BY <1>2, <2>1 DEF Tick, LockInv, SeenByRecovery, HolderHasWord, InCritical, cells
<1>3. ASSUME NEW o \in Owner, Start(o) PROVE LockInv'
  BY <1>3 DEF Start, Goto, LockInv, TypeOK, SeenByRecovery, HolderHasWord, InCritical,
     Critical, Location, cells
<1>4. ASSUME NEW o \in Owner, Crash(o) PROVE LockInv'
  BY <1>4 DEF Crash, Forget, NoLag, LockInv, TypeOK, SeenByRecovery, HolderHasWord,
     InCritical, Critical, Location, cells, Unlocked
<1> QED  BY <1>1, <1>2, <1>3, <1>4, AcquireLockInv, RecoverLockInv, HoldLockInv DEF Next

\* The strengthened invariant holds in every reachable state.
THEOREM LockInvariant == Spec => []LockInv
BY InitLockInv, NextLockInv, PTL DEF Spec

\* Every variable keeps its type.
THEOREM TypeCorrect == Spec => []TypeOK
BY LockInvariant, PTL DEF LockInv

\* A holder that was not recovered has the lock word, or a claim against
\* itself stands in it: no compare-and-set of another owner, not even a zombie
\* of an earlier period, overwrites it.
THEOREM HolderSafe == Spec => []HolderHasWord
BY LockInvariant, PTL DEF LockInv

\* Two owners can only be in the critical section together when the lock of
\* one was recovered while it was there.
THEOREM Exclusion == Spec => []MutualExclusion
<1>1. LockInv => MutualExclusion
  BY OwnerAssumption DEF LockInv, HolderHasWord, MutualExclusion
<1> QED  BY <1>1, LockInvariant, PTL

\* What a contender remembers while it recovers a lock stays what its next
\* compare-and-set relies on.
THEOREM RecoveryRemembers == Spec => []SeenByRecovery
BY LockInvariant, PTL DEF LockInv

-----------------------------------------------------------------------------
(* The cells and heartbeats implement a lock that can be revoked.          *)

\* A lock word and the claim against it stand for the same holder; the free
\* word stands for none.
LEMMA HolderFacts ==
  /\ Holder(Unlocked) = 0
  /\ \A w \in LockWord : /\ Holder(-w) = Holder(w)
                         /\ w # Unlocked => Holder(w) # 0
                         /\ w < 0 => Holder(w) = -w
  /\ \A o \in Owner : Holder(o) = o
BY OwnerAssumption DEF Holder, LockWord, Unlocked

\* A step that changes neither the word, nor who is inside, nor the history
\* is a stutter of the abstract lock.
LEMMA UnseenStep ==
  ASSUME Holder(word)' = Holder(word), UNCHANGED evicted,
         \A a \in Owner : InCritical(a)' = InCritical(a)
  PROVE  UNCHANGED Abstract!vars
BY DEF Abstract!vars

\* An acquisition enters with its compare-and-set, and is unseen before.
LEMMA AcquireRefines ==
  ASSUME LockInv, NEW o \in Owner, Acquire(o)
  PROVE  [Abstract!Next]_Abstract!vars
<1>1. CASE CasWins(o)
  <2>1. Holder(word) = 0 /\ Holder(word)' = o
    BY <1>1, HolderFacts DEF CasWins
  <2>2. {a \in Owner : InCritical(a)}' = {a \in Owner : InCritical(a)} \cup {o}
    BY <1>1 DEF CasWins, Goto, LockInv, TypeOK, InCritical, Critical
  <2>3. Abstract!Enter(o)
    BY <1>1, <2>1, <2>2 DEF CasWins, Abstract!Enter
  <2> QED  BY <2>3 DEF Abstract!Next
<1>2. CASE ~CasWins(o)
  <2>1. UNCHANGED <<word, evicted>>
    BY <1>2 DEF Acquire, LoadUnlocked, LoadLocked, ReadClock, StoreStamp, CasLoses, StoreOwner,
       Contend, WaitReturns, WaitThrows, cells
  <2>2. \A a \in Owner : InCritical(a)' = InCritical(a)
    BY <1>2 DEF Acquire, LockInv, TypeOK, InCritical, Critical, LoadUnlocked, LoadLocked,
       ReadClock, StoreStamp, CasLoses, StoreOwner, Contend, WaitReturns, WaitThrows, Goto
  <2> QED  BY <2>1, <2>2, UnseenStep
<1> QED  BY <1>1, <1>2

\* Of a recovery the abstract lock sees its end only, if it succeeds.
LEMMA RecoverRefines ==
  ASSUME LockInv, NEW o \in Owner, Recover(o)
  PROVE  [Abstract!Next]_Abstract!vars
<1>1. \A a \in Owner : InCritical(a)' = InCritical(a)
  <2>1. ASSUME JudgeStale(o)  PROVE pc'[o] \in {"claim", "finish"} /\ pc[o] = "judge"
    BY <2>1 DEF JudgeStale, AfterStale, Goto, LockInv, TypeOK
  <2> QED  BY <2>1 DEF Recover, LockInv, TypeOK, InCritical, Critical, LoadLock,
              LoadHeartbeat, JudgeFresh, JudgeStale, Claim, ClaimFails, Recheck,
              Undo, Finish, Goto
<1>2. CASE Finish(o) /\ word = seen[o]
  <2>1. word \in LockWord /\ word < 0
    BY <1>2 DEF Finish, Goto, LockInv, TypeOK, SeenByRecovery
  <2>2. Holder(word) = -word /\ Holder(word) # 0 /\ Holder(word)' = 0
    BY <1>2, <2>1, HolderFacts DEF Finish, Unlocked
  <2>3. evicted' = evicted \cup ({a \in Owner : InCritical(a)} \cap {Holder(word)})
    <3>1. \A a \in Owner : -a = seen[o] <=> a = Holder(word)
      <4>1. word \in Int /\ Owner \subseteq Int
        BY <2>1, LockWordFacts, OwnerAssumption
      <4> QED  BY <1>2, <2>2, <4>1
    <3> QED  BY <1>2, <3>1 DEF Finish
  <2>4. {a \in Owner : InCritical(a)}' = {a \in Owner : InCritical(a)}
    BY <1>1
  <2> QED  BY <2>2, <2>3, <2>4 DEF Abstract!Revoke, Abstract!Next
<1>3. CASE Claim(o) \/ Undo(o)
  <2>1. seen[o] \in LockWord /\ word \in LockWord  BY DEF LockInv, TypeOK
  <2>2. word' = word \/ word' = -word
    BY <1>3, <2>1 DEF Claim, Undo, Undone
  <2>3. Holder(word') = Holder(word)  BY <2>1, <2>2, HolderFacts
  <2> QED  BY <1>1, <1>3, <2>3, UnseenStep DEF Claim, Undo
<1>4. CASE UNCHANGED <<word, evicted>>
  BY <1>1, <1>4, UnseenStep
<1> QED  BY <1>2, <1>3, <1>4 DEF Recover, LoadLock, LoadHeartbeat, JudgeFresh,
            JudgeStale, ClaimFails, Recheck, Finish, cells

\* A holder is inside until it releases.
LEMMA HoldRefines ==
  ASSUME LockInv, NEW o \in Owner, Hold(o)
  PROVE  [Abstract!Next]_Abstract!vars
<1>1. CASE Release(o)
  <2>1. o \in {a \in Owner : InCritical(a)}
    BY <1>1 DEF Release, Goto, InCritical, Critical
  <2>2. {a \in Owner : InCritical(a)}' = {a \in Owner : InCritical(a)} \ {o}
    BY <1>1 DEF Release, Goto, LockInv, TypeOK, InCritical, Critical
  <2>3. (Holder(word) = o /\ Holder(word)' = 0) \/ Holder(word)' = Holder(word)
    BY <1>1, HolderFacts DEF Release, Released
  <2>4. Abstract!Leave(o)
    BY <1>1, <2>1, <2>2, <2>3 DEF Release, Abstract!Leave
  <2> QED  BY <2>4 DEF Abstract!Next
<1>2. CASE ~Release(o)
  <2>1. UNCHANGED <<word, evicted>>
    BY <1>2 DEF Hold, RefreshLoadLock, RefreshLoadOwner, RefreshClock, RefreshStore, cells
  <2>2. \A a \in Owner : InCritical(a)' = InCritical(a)
    BY <1>2 DEF Hold, LockInv, TypeOK, InCritical, Critical, RefreshLoadLock,
       RefreshLoadOwner, RefreshClock, RefreshStore, Goto
  <2> QED  BY <2>1, <2>2, UnseenStep
<1> QED  BY <1>1, <1>2

\* Whatever a worker, the clock or a termination does is a step of the
\* abstract lock or a stutter.
LEMMA NextRefines == LockInv /\ [Next]_vars => [Abstract!Next]_Abstract!vars
<1> SUFFICES ASSUME LockInv, [Next]_vars PROVE [Abstract!Next]_Abstract!vars
  OBVIOUS
<1>1. CASE UNCHANGED vars
  BY <1>1 DEF vars, Abstract!vars, InCritical
<1>2. CASE Tick
  BY <1>2 DEF Tick, Abstract!vars, InCritical, cells
<1>3. ASSUME NEW o \in Owner, Start(o) PROVE UNCHANGED Abstract!vars
  <2>1. \A a \in Owner : InCritical(a)' = InCritical(a)
    BY <1>3 DEF Start, Goto, LockInv, TypeOK, InCritical, Critical
  <2> QED  BY <1>3, <2>1, UnseenStep DEF Start, cells
<1>4. ASSUME NEW o \in Owner, Crash(o) PROVE Abstract!Next
  <2>1. {a \in Owner : InCritical(a)}' = {a \in Owner : InCritical(a)} \ {o}
    BY <1>4 DEF Crash, LockInv, TypeOK, InCritical, Critical
  <2>2. Abstract!Die(o)
    BY <1>4, <2>1 DEF Crash, Abstract!Die, cells
  <2> QED  BY <2>2 DEF Abstract!Next
<1> QED  BY <1>1, <1>2, <1>3, <1>4, AcquireRefines, RecoverRefines, HoldRefines DEF Next

\* The three cells and their heartbeats implement the revocable lock: it has
\* one owner at a time, which loses it only by a finished recovery, gives it
\* back by itself, or leaves it behind when it is terminated.
THEOREM LockRefines == Spec => IsRevocableLock
<1>1. Init => Abstract!Init
  BY HolderFacts DEF Init, Abstract!Init, InCritical, Critical
<1>2. Spec => []LockInv  BY LockInvariant
<1> QED  BY <1>1, <1>2, NextRefines, PTL DEF Spec, IsRevocableLock, Abstract!Spec
=============================================================================
