------------------------- MODULE WriteAhead_proofs -------------------------
(***************************************************************************)
(* Safety of the advertised views and of the checkpoints that rely on      *)
(* them, for any number of connections, pages, transactions and            *)
(* checkpoints, with connections that open late, close or are terminated.  *)
(***************************************************************************)
EXTENDS WriteAhead_lemmas

\* Written headers start at a transaction.
LEMMA HeadersStartStep ==
  ASSUME ViewInv, NEW c \in Conn, Step(c)
  PROVE  HeadersStart'
<1>1. hdr \in [{0, 1} -> Header] /\ active \in [Conn -> Header]
  BY DEF ViewInv, TypeOK, FilesOK, ViewOK
<1>2. txId \in [Conn -> Nat] /\ lo \in [Conn -> Nat]  BY DEF ViewInv, TypeOK, ViewOK
<1>3. HeadersStart  BY DEF ViewInv
<1>4. CASE OpenLock(c) \/ OpenLoad(c) \/ OpenEmpty(c) \/ OpenCreate(c)
  BY <1>1, <1>2, <1>3, <1>4, FileOfFacts
  DEF HeadersStart, NoHeader, FirstHeader, Header, files, locks, ghosts, view, OpenLock,
      Goto, Ready, OpenLoad, StartFrom, HeaderOf, OpenEmpty, OpenCreate, WriteHeader
<1>5. CASE SkipTx(c) \/ ReadTx(c) \/ FollowEnd(c) \/ AtEnd(c) \/ CaughtUp(c)
  BY <1>1, <1>2, <1>3, <1>5, FileOfFacts
  DEF HeadersStart, NoHeader, FirstHeader, Header, files, locks, ghosts, view, SkipTx,
      Goto, Ready, Advancing, Next1, Activate, ReadTx, MustRead, TxRead, FollowEnd, AtEnd,
      CaughtUp, SetIso
<1>6. CASE BeginRead(c) \/ BeginWrite(c) \/ Upgrade(c) \/ Rejoin(c) \/ Backstop(c)
  BY <1>1, <1>2, <1>3, <1>6, FileOfFacts
  DEF HeadersStart, NoHeader, FirstHeader, Header, files, locks, ghosts, view, BeginRead,
      Goto, Ready, Usable, SetIso, BeginWrite, Upgrade, Rejoin, Backstop
<1>7. CASE SwapEnd(c)
  BY <1>1, <1>2, <1>3, <1>7, FileOfFacts
  DEF HeadersStart, NoHeader, FirstHeader, Header, files, locks, ghosts, view, SwapEnd,
      Goto, Ready, Usable, MayWrite
<1>8. CASE SwapHeader(c)
  BY <1>1, <1>2, <1>3, <1>8, FileOfFacts
  DEF HeadersStart, NoHeader, FirstHeader, Header, files, locks, ghosts, view, SwapHeader,
      Goto, Ready, WriteHeader
<1>9. CASE (\E p \in Page : WritePage(c, p))
  BY <1>1, <1>2, <1>3, <1>9, FileOfFacts
  DEF HeadersStart, NoHeader, FirstHeader, Header, files, locks, ghosts, view, WritePage,
      Goto, Ready, Usable, MayWrite
<1>10. CASE Commit(c) \/ Publish(c) \/ Rollback(c)
  BY <1>1, <1>2, <1>3, <1>10, FileOfFacts
  DEF HeadersStart, NoHeader, FirstHeader, Header, files, locks, ghosts, view, Commit,
      Goto, Ready, Usable, MayWrite, Activate, Publish, Rollback
<1>11. CASE Receive(c) \/ GrantTxIdLock(c)
  BY <1>1, <1>2, <1>3, <1>11, FileOfFacts
  DEF HeadersStart, NoHeader, FirstHeader, Header, files, locks, ghosts, view, Receive,
      Goto, Ready, OnTx, Absorb, GrantTxIdLock, ViewOf
<1>12. CASE CkptPassive(c) \/ CkptSkipped(c) \/ CkptFull(c) \/ CkptFullLock(c)
  BY <1>1, <1>2, <1>3, <1>12, FileOfFacts
  DEF HeadersStart, NoHeader, FirstHeader, Header, files, locks, ghosts, view, CkptPassive,
      Goto, Ready, Ckpt, SomethingToCkpt, NoCkpt, CkptSkipped, CkptFull, Usable, SetIso,
      CkptFullLock
<1>13. CASE CkptQuery(c) \/ CkptBusy(c) \/ CkptBegin(c) \/
          (\E p \in Page : CkptCopy(c, p)) \/ CkptPost(c) \/ CkptWait(c) \/
          CkptTruncate(c)
  BY <1>1, <1>2, <1>3, <1>13, FileOfFacts
  DEF HeadersStart, NoHeader, FirstHeader, Header, files, locks, ghosts, view, CkptQuery,
      Goto, Ready, Ckpt, AllReached, Held, CkptBusy, NoCkpt, CkptBegin, CkptCopy, CkptPost,
      Absorb, CkptWait, AllDropped, CkptTruncate
<1>14. CASE Close(c) \/ Crash(c)
  BY <1>1, <1>2, <1>3, <1>14, FileOfFacts
  DEF HeadersStart, NoHeader, FirstHeader, Header, files, locks, ghosts, view, Close, Goto,
      Ready, Depart, SetIso, NoCkpt, Ckpt, Crash
<1> QED  BY <1>4, <1>5, <1>6, <1>7, <1>8, <1>9, <1>10, <1>11, <1>12, <1>13, <1>14 DEF Step, Opening, Running, Using, Checkpointing

\* The views have no gaps.
LEMMA ViewsContiguousStep ==
  ASSUME ViewInv, NEW c \in Conn, Step(c)
  PROVE  ViewsContiguous'
<1>1. pc \in [Conn -> Tasks]  BY DEF ViewInv, TypeOK, TasksOK
<1>2. txId \in [Conn -> Nat] /\ lo \in [Conn -> Nat]  BY DEF ViewInv, TypeOK, ViewOK
<1>3. HeadersStart /\ ViewsContiguous /\ WritersFrozen  BY DEF ViewInv
<1>4. CASE OpenLock(c) \/ OpenEmpty(c) \/ OpenCreate(c)
  BY <1>1, <1>2, <1>3, <1>4
  DEF ViewsContiguous, HeadersStart, WritersFrozen, NoHeader, files, locks, ghosts, view,
      OpenLock, Goto, Ready, OpenEmpty, OpenCreate, StartFrom, WriteHeader
<1>5. CASE OpenLoad(c)
  BY <1>1, <1>2, <1>3, <1>5, OpenLoadEffect DEF ViewsContiguous
<1>6. CASE ReadTx(c)
  <2>1. DOMAIN txs = Conn  BY DEF ViewInv, TypeOK, ViewOK
  <2>2. /\ pc[c] \in {"catchUp", "advance"} /\ UNCHANGED <<pc, lo>>
        /\ txId' = [txId EXCEPT ![c] = txId[c] + 1]
    BY <1>6, <2>1, ReadTxEffect
  <2> QED  BY <1>2, <1>3, <2>2 DEF ViewsContiguous
<1>7. CASE FollowEnd(c) \/ AtEnd(c) \/ CaughtUp(c)
  <2>1. /\ pc[c] \in {"catchUp", "advance"} /\ UNCHANGED <<txId, lo>>
        /\ \E t \in {pc[c], "ready", "fault"} : pc' = [pc EXCEPT ![c] = t] \/ UNCHANGED pc
    BY <1>7, FollowEffect
  <2> QED  BY <1>1, <1>3, <2>1 DEF ViewsContiguous
<1>8. CASE SkipTx(c)
  BY <1>1, <1>2, <1>3, <1>8, SkipTxEffect DEF ViewsContiguous, view
<1>9. CASE BeginRead(c) \/ BeginWrite(c) \/ Upgrade(c) \/ Rejoin(c) \/ Backstop(c)
  BY <1>1, <1>2, <1>3, <1>9
  DEF ViewsContiguous, HeadersStart, WritersFrozen, NoHeader, files, locks, ghosts, view,
      BeginRead, Goto, Ready, Usable, SetIso, BeginWrite, Upgrade, Rejoin, Backstop
<1>10. CASE Commit(c)
  <2>1. /\ pc[c] = "ready" /\ pc' = [pc EXCEPT ![c] = "publish"] /\ UNCHANGED lo
        /\ txId' = [txId EXCEPT ![c] = txId[c] + 1]
    BY <1>10, CommitEffect
  <2> QED  BY <1>1, <1>2, <1>3, <2>1 DEF ViewsContiguous
<1>11. CASE SwapEnd(c) \/ SwapHeader(c) \/ (\E p \in Page : WritePage(c, p)) \/
          Publish(c) \/ Rollback(c)
  BY <1>1, <1>2, <1>3, <1>11
  DEF ViewsContiguous, HeadersStart, WritersFrozen, NoHeader, files, locks, ghosts, view,
      SwapEnd, Goto, Ready, Usable, MayWrite, SwapHeader, WriteHeader, WritePage, Publish,
      Rollback
<1>12. CASE GrantTxIdLock(c)
  BY <1>1, <1>2, <1>3, <1>12
  DEF ViewsContiguous, HeadersStart, WritersFrozen, NoHeader, files, locks, ghosts, view,
      GrantTxIdLock, Goto, Ready, ViewOf
<1>13. CASE Receive(c)
  <2>1. pc[c] = "ready" /\ UNCHANGED txId  BY <1>13, ReceiveEffect
  <2>2. pc' = pc \/ pc' = [pc EXCEPT ![c] = "catchUp"]  BY <1>13, ReceiveEffect
  <2>3. lo' = lo \/ \E id \in lo[c] .. txId[c] : lo' = [lo EXCEPT ![c] = id + 1]
    BY <1>13, ReceiveEffect
  <2> QED  BY <1>1, <1>2, <1>3, <2>1, <2>2, <2>3 DEF ViewsContiguous
<1>14. CASE CkptPassive(c) \/ CkptSkipped(c) \/ CkptFull(c) \/ CkptFullLock(c)
  BY <1>1, <1>2, <1>3, <1>14
  DEF ViewsContiguous, HeadersStart, WritersFrozen, NoHeader, files, locks, ghosts, view,
      CkptPassive, Goto, Ready, Ckpt, SomethingToCkpt, NoCkpt, CkptSkipped, CkptFull,
      Usable, SetIso, CkptFullLock
<1>15. CASE CkptQuery(c) \/ CkptBusy(c) \/ CkptBegin(c) \/
          (\E p \in Page : CkptCopy(c, p)) \/ CkptPost(c) \/ CkptWait(c) \/
          CkptTruncate(c)
  BY <1>1, <1>2, <1>3, <1>15
  DEF ViewsContiguous, HeadersStart, WritersFrozen, NoHeader, files, locks, ghosts, view,
      CkptQuery, Goto, Ready, Ckpt, AllReached, Held, CkptBusy, NoCkpt, CkptBegin,
      CkptCopy, CkptPost, Absorb, CkptWait, AllDropped, CkptTruncate
<1>16. CASE Close(c) \/ Crash(c)
  BY <1>1, <1>2, <1>3, <1>16
  DEF ViewsContiguous, HeadersStart, WritersFrozen, NoHeader, files, locks, ghosts, view,
      Close, Goto, Ready, Depart, SetIso, NoCkpt, Ckpt, Crash
<1> QED  BY <1>4, <1>5, <1>6, <1>7, <1>8, <1>9, <1>10, <1>11, <1>12, <1>13, <1>14, <1>15,
  <1>16 DEF Step, Opening, Running, Using, Checkpointing

\* Writers stay frozen.
LEMMA WritersFrozenStep ==
  ASSUME ViewInv, NEW c \in Conn, Step(c)
  PROVE  WritersFrozen'
<1>1. pc \in [Conn -> Tasks]  BY DEF ViewInv, TypeOK, TasksOK
<1>2. txId \in [Conn -> Nat]  BY DEF ViewInv, TypeOK, ViewOK
<1>3. iso \in [Conn -> {"none", "read", "write"}]  BY DEF ViewInv, TypeOK, TasksOK
<1>4. cur \in [Conn -> Transaction]  BY DEF ViewInv, TypeOK, TasksOK
<1>5. ck \in [Conn -> Checkpoint]  BY DEF ViewInv, TypeOK, TasksOK
<1>6. WritersFrozen  BY DEF ViewInv
<1>7. CASE OpenLock(c) \/ OpenLoad(c) \/ OpenEmpty(c) \/ OpenCreate(c)
  <2>1. pc[c] \in {"closed", "joining", "create"} /\ UNCHANGED <<iso, cur, ck>>
    BY <1>7 DEF OpenLock, OpenLoad, OpenEmpty, OpenCreate
  <2>2. /\ \A d \in Conn \ {c} : txId'[d] = txId[d] /\ pc'[d] = pc[d]
        /\ pc'[c] \in {"joining", "create", "advance"}
    BY <1>1, <1>2, <1>7
    DEF OpenLock, OpenLoad, OpenEmpty, OpenCreate, StartFrom, Goto, view
  <2> QED  BY <1>6, <2>1, <2>2 DEF WritersFrozen
<1>8. CASE ReadTx(c) \/ FollowEnd(c) \/ AtEnd(c) \/ CaughtUp(c)
  <2>1. DOMAIN txs = Conn  BY DEF ViewInv, TypeOK, ViewOK
  <2>2. CASE ReadTx(c)
    <3>1. /\ pc[c] \in {"catchUp", "advance"} /\ UNCHANGED <<pc, iso, cur, ck>>
          /\ txId' = [txId EXCEPT ![c] = txId[c] + 1]
      BY <2>1, <2>2, ReadTxEffect
    <3> QED  BY <1>1, <1>2, <1>6, <3>1 DEF WritersFrozen
  <2>3. CASE FollowEnd(c) \/ AtEnd(c) \/ CaughtUp(c)
    <3>1. /\ pc[c] \in {"catchUp", "advance"} /\ UNCHANGED <<iso, txId, cur, ck>>
          /\ \E t \in {pc[c], "ready", "fault"} :
               pc' = [pc EXCEPT ![c] = t] \/ UNCHANGED pc
      BY <2>3, FollowEffect
    <3> QED  BY <1>1, <1>6, <3>1 DEF WritersFrozen
  <2> QED  BY <1>8, <2>2, <2>3
<1>9. CASE SkipTx(c)
  <2>1. /\ pc[c] \in {"catchUp", "advance"} /\ UNCHANGED <<iso, cur, ck>>
        /\ pc' = pc \/ pc' = [pc EXCEPT ![c] = "fault"]
        /\ txId' = [txId EXCEPT ![c] = txId[c] + 1] \/ UNCHANGED txId
    BY <1>9, SkipTxEffect DEF view
  <2> QED  BY <1>1, <1>2, <1>3, <1>4, <1>5, <1>6, <2>1 DEF Checkpoint, WritersFrozen
<1>10. CASE BeginRead(c) \/ BeginWrite(c) \/ Upgrade(c) \/ Rejoin(c) \/ Backstop(c)
  BY <1>1, <1>2, <1>3, <1>4, <1>5, <1>6, <1>10
  DEF Checkpoint, WritersFrozen, files, locks, ghosts, view, BeginRead, Goto, Ready,
      Usable, SetIso, BeginWrite, Upgrade, Rejoin, Backstop
<1>11. CASE SwapEnd(c)
  BY <1>1, <1>2, <1>3, <1>4, <1>5, <1>6, <1>11
  DEF Checkpoint, WritersFrozen, files, locks, ghosts, view, SwapEnd, MayWrite, Usable,
      Ready, Goto, MustSwap
<1>12. CASE SwapHeader(c)
  BY <1>1, <1>2, <1>3, <1>4, <1>5, <1>6, <1>12
  DEF Checkpoint, WritersFrozen, files, locks, ghosts, view, SwapHeader, Goto, Ready,
      WriteHeader
<1>13. CASE (\E p \in Page : WritePage(c, p))
  BY <1>1, <1>2, <1>3, <1>4, <1>5, <1>6, <1>13
  DEF Checkpoint, WritersFrozen, files, locks, ghosts, view, WritePage, Goto, Ready,
      Usable, MayWrite
<1>14. CASE Commit(c)
  <2>1. /\ pc' = [pc EXCEPT ![c] = "publish"] /\ cur' = [cur EXCEPT ![c] = NoTx]
        /\ txId' = [txId EXCEPT ![c] = txId[c] + 1] /\ UNCHANGED <<iso, ck>>
    BY <1>14, CommitEffect
  <2> QED  BY <1>1, <1>2, <1>4, <1>6, <2>1 DEF WritersFrozen
<1>15. CASE Publish(c) \/ Rollback(c)
  <2>1. CASE Publish(c)
    <3>1. /\ pc[c] = "publish" /\ pc' = [pc EXCEPT ![c] = "ready"]
          /\ UNCHANGED <<iso, txId, cur, ck>>
      BY <2>1 DEF Publish, Goto, view
    <3> QED  BY <1>1, <1>6, <3>1 DEF WritersFrozen
  <2>2. CASE Rollback(c)
    <3>1. cur' = [cur EXCEPT ![c] = NoTx] /\ UNCHANGED <<pc, iso, txId, ck>>
      BY <2>2 DEF Rollback, view
    <3> QED  BY <1>4, <1>6, <3>1 DEF WritersFrozen
  <2> QED  BY <1>15, <2>1, <2>2
<1>16. CASE Receive(c) \/ GrantTxIdLock(c)
  BY <1>1, <1>2, <1>3, <1>4, <1>5, <1>6, <1>16
  DEF Checkpoint, WritersFrozen, files, locks, ghosts, view, Receive, Goto, Ready, OnTx,
      Absorb, GrantTxIdLock, ViewOf
<1>17. CASE CkptPassive(c)
  BY <1>1, <1>2, <1>3, <1>4, <1>5, <1>6, <1>17
  DEF Checkpoint, WritersFrozen, files, locks, ghosts, view, CkptPassive, Goto, Ready,
      Ckpt, SomethingToCkpt, NoCkpt
<1>18. CASE CkptFull(c)
  BY <1>1, <1>2, <1>3, <1>4, <1>5, <1>6, <1>18
  DEF Checkpoint, WritersFrozen, files, locks, ghosts, view, CkptFull, Goto, Ready, Usable,
      SetIso, Ckpt, NoCkpt
<1>19. CASE CkptFullLock(c)
  BY <1>1, <1>2, <1>3, <1>4, <1>5, <1>6, <1>19
  DEF Checkpoint, WritersFrozen, files, locks, ghosts, view, CkptFullLock, Goto, Ready,
      Ckpt
<1>20. CASE CkptSkipped(c)
  BY <1>1, <1>2, <1>3, <1>4, <1>5, <1>6, <1>20
  DEF Checkpoint, WritersFrozen, files, locks, ghosts, view, CkptSkipped, Goto, Ready, Ckpt
<1>21. CASE CkptBusy(c)
  BY <1>1, <1>2, <1>3, <1>4, <1>5, <1>6, <1>21
  DEF Checkpoint, WritersFrozen, files, locks, ghosts, view, CkptBusy, Goto, Ready, Ckpt,
      NoCkpt
<1>22. CASE CkptBegin(c)
  BY <1>1, <1>2, <1>3, <1>4, <1>5, <1>6, <1>22
  DEF Checkpoint, WritersFrozen, files, locks, ghosts, view, CkptBegin, Goto, Ready, Ckpt
<1>23. CASE \E p \in Page : CkptCopy(c, p)
  <2> SUFFICES ASSUME NEW p \in Page, CkptCopy(c, p)
               PROVE  WritersFrozen'
    BY <1>23
  <2>1. /\ pc[c] = "copy" /\ UNCHANGED <<iso, txId, cur>>
        /\ pc' = pc \/ pc' = [pc EXCEPT ![c] = "fault"]
        /\ ck' = ck \/ ck' = [ck EXCEPT ![c].todo = @ \ {p}]
    BY CkptCopyEffect DEF view
  <2>2. \A d \in Conn : ck'[d].full = ck[d].full  BY <1>5, <2>1 DEF Checkpoint
  <2> QED  BY <1>1, <1>6, <2>1, <2>2 DEF WritersFrozen
<1>24. CASE CkptPost(c)
  <2>1. /\ pc[c] = "copy" /\ pc' = [pc EXCEPT ![c] = "ready"]
        /\ ck' = [ck EXCEPT ![c] = [@ EXCEPT !.phase = "wait", !.polled = {}]]
        /\ UNCHANGED <<iso, txId, cur>>
    BY <1>24, CkptPostEffect
  <2>2. \A d \in Conn : ck'[d].full = ck[d].full  BY <1>5, <2>1 DEF Checkpoint
  <2> QED  BY <1>1, <1>6, <2>1, <2>2 DEF WritersFrozen
<1>25. CASE CkptTruncate(c)
  BY <1>1, <1>2, <1>3, <1>4, <1>5, <1>6, <1>25
  DEF Checkpoint, WritersFrozen, files, locks, ghosts, view, CkptTruncate, Goto, Ready,
      Ckpt, NoCkpt
<1>26. CASE CkptQuery(c)
  <2>1. /\ UNCHANGED <<cur, iso, pc, txId>>
        /\ ck' = [ck EXCEPT ![c] = [@ EXCEPT !.phase = "go", !.polled = Held]]
    BY <1>26 DEF CkptQuery, view
  <2>2. \A d \in Conn : ck'[d].full = ck[d].full  BY <1>5, <2>1 DEF Checkpoint
  <2> QED  BY <1>1, <1>2, <1>3, <1>4, <1>5, <1>6, <2>1, <2>2 DEF Checkpoint, WritersFrozen
<1>27. CASE CkptWait(c)
  <2>1. /\ UNCHANGED <<cur, iso, pc, txId>>
        /\ ck' = [ck EXCEPT ![c] = [@ EXCEPT !.phase = "truncate", !.polled = Held]]
    BY <1>27 DEF CkptWait, view
  <2>2. \A d \in Conn : ck'[d].full = ck[d].full  BY <1>5, <2>1 DEF Checkpoint
  <2> QED  BY <1>1, <1>2, <1>3, <1>4, <1>5, <1>6, <2>1, <2>2 DEF Checkpoint, WritersFrozen
<1>28. CASE Close(c) \/ Crash(c)
  <2>1. /\ pc' = [pc EXCEPT ![c] = "gone"] /\ iso' = [iso EXCEPT ![c] = "none"]
        /\ cur' = [cur EXCEPT ![c] = NoTx] /\ ck' = [ck EXCEPT ![c] = NoCkpt]
        /\ UNCHANGED txId
    BY <1>28, DepartEffect
  <2> QED  BY <1>1, <1>3, <1>4, <1>5, <1>6, <2>1 DEF WritersFrozen
<1> QED  BY <1>7, <1>8, <1>9, <1>10, <1>11, <1>12, <1>13, <1>14, <1>15, <1>16, <1>17,
  <1>18, <1>19, <1>20, <1>21, <1>22, <1>23, <1>24, <1>25, <1>26, <1>27, <1>28 DEF Step, Opening, Running, Using, Checkpointing

\* Checkpoints stay within the view.
LEMMA CheckpointsWithinViewStep ==
  ASSUME ViewInv, NEW c \in Conn, Step(c)
  PROVE  CheckpointsWithinView'
<1>1. pc \in [Conn -> Tasks]  BY DEF ViewInv, TypeOK, TasksOK
<1>2. txId \in [Conn -> Nat] /\ lo \in [Conn -> Nat]  BY DEF ViewInv, TypeOK, ViewOK
<1>3. ck \in [Conn -> Checkpoint]  BY DEF ViewInv, TypeOK, TasksOK
<1>4. DOMAIN txs = Conn  BY DEF ViewInv, TypeOK, ViewOK
<1>5. ViewsContiguous /\ CheckpointsWithinView  BY DEF ViewInv
<1>6. CASE OpenLock(c) \/ OpenEmpty(c) \/ OpenCreate(c)
  BY <1>1, <1>2, <1>3, <1>4, <1>5, <1>6
  DEF Checkpoint, CheckpointsWithinView, ViewsContiguous, files, locks, ghosts, view,
      OpenLock, Goto, Ready, OpenEmpty, OpenCreate, StartFrom, WriteHeader
<1>7. CASE OpenLoad(c)
  <2>1. /\ pc[c] = "joining" /\ pc' = [pc EXCEPT ![c] = "advance"]
        /\ \E n \in Nat : txId' = [txId EXCEPT ![c] = n] /\ lo' = [lo EXCEPT ![c] = n + 1]
        /\ UNCHANGED <<txs, ck>>
    BY <1>7, OpenLoadEffect
  <2> QED  BY <1>1, <1>2, <1>3, <1>4, <1>5, <2>1 DEF Checkpoint, CheckpointsWithinView, ViewsContiguous
<1>8. CASE ReadTx(c)
  <2>1. /\ pc[c] # "copy" /\ UNCHANGED <<pc, lo, ck>>
        /\ txId' = [txId EXCEPT ![c] = txId[c] + 1]
        /\ \A d \in Conn \ {c} : txs'[d] = txs[d]
    BY <1>4, <1>8, ReadTxEffect
  <2>2. \A d \in Conn : txId'[d] \in Nat /\ txId'[d] >= txId[d]  BY <1>2, <2>1
  <2>3. \A d \in Conn : ck[d].id \in Nat  BY <1>3 DEF Checkpoint
  <2> QED  BY <1>2, <1>5, <2>1, <2>2, <2>3 DEF CheckpointsWithinView
<1>9. CASE FollowEnd(c) \/ AtEnd(c) \/ CaughtUp(c)
  <2>1. /\ pc[c] # "copy" /\ UNCHANGED <<txId, lo, txs, ck>>
        /\ \E t \in {pc[c], "ready", "fault"} : pc' = [pc EXCEPT ![c] = t] \/ UNCHANGED pc
    BY <1>9, FollowEffect
  <2>2. pc'[c] # "copy" /\ \A d \in Conn \ {c} : pc'[d] = pc[d]  BY <1>1, <2>1
  <2> QED  BY <1>5, <2>1, <2>2 DEF CheckpointsWithinView
<1>10. CASE SkipTx(c)
  <2>1. /\ pc[c] \in {"catchUp", "advance"} /\ UNCHANGED <<lo, ck>>
        /\ pc' = pc \/ pc' = [pc EXCEPT ![c] = "fault"]
        /\ txId' = [txId EXCEPT ![c] = txId[c] + 1] \/ UNCHANGED txId
    BY <1>10, SkipTxEffect DEF view
  <2>2. \A d \in Conn \ {c} : txs'[d] = txs[d]
    BY <1>10, SkipTxEffect
  <2>3. pc'[c] # "copy" /\ \A d \in Conn \ {c} : pc'[d] = pc[d]  BY <1>1, <2>1
  <2>4. \A d \in Conn : txId'[d] >= txId[d]  BY <1>2, <2>1
  <2>5. \A d \in Conn : ck[d].id \in Nat  BY <1>3 DEF Checkpoint
  <2> QED  BY <1>2, <1>5, <2>1, <2>2, <2>3, <2>4, <2>5 DEF Checkpoint, CheckpointsWithinView
<1>11. CASE BeginRead(c) \/ BeginWrite(c) \/ Upgrade(c) \/ Rejoin(c) \/ Backstop(c)
  BY <1>1, <1>2, <1>3, <1>4, <1>5, <1>11
  DEF Checkpoint, CheckpointsWithinView, ViewsContiguous, files, locks, ghosts, view,
      BeginRead, Goto, Ready, Usable, SetIso, BeginWrite, Upgrade, Rejoin, Backstop
<1>12. CASE SwapEnd(c)
  BY <1>1, <1>2, <1>3, <1>4, <1>5, <1>12
  DEF Checkpoint, CheckpointsWithinView, ViewsContiguous, files, locks, ghosts, view,
      SwapEnd, Goto, Ready, Usable, MayWrite
<1>13. CASE SwapHeader(c)
  BY <1>1, <1>2, <1>3, <1>4, <1>5, <1>13
  DEF Checkpoint, CheckpointsWithinView, ViewsContiguous, files, locks, ghosts, view,
      SwapHeader, Goto, Ready, WriteHeader
<1>14. CASE (\E p \in Page : WritePage(c, p))
  BY <1>1, <1>2, <1>3, <1>4, <1>5, <1>14
  DEF Checkpoint, CheckpointsWithinView, ViewsContiguous, files, locks, ghosts, view,
      WritePage, Goto, Ready, Usable, MayWrite
<1>15. CASE Publish(c)
  BY <1>1, <1>2, <1>3, <1>4, <1>5, <1>15
  DEF Checkpoint, CheckpointsWithinView, ViewsContiguous, files, locks, ghosts, view,
      Publish, Goto, Ready
<1>16. CASE Rollback(c)
  BY <1>1, <1>2, <1>3, <1>4, <1>5, <1>16
  DEF Checkpoint, CheckpointsWithinView, ViewsContiguous, files, locks, ghosts, view,
      Rollback, Goto, Ready, Usable, MayWrite
<1>17. CASE Commit(c)
  <2>1. /\ pc' = [pc EXCEPT ![c] = "publish"] /\ UNCHANGED <<lo, ck>>
        /\ txId' = [txId EXCEPT ![c] = txId[c] + 1]
        /\ \A d \in Conn \ {c} : txs'[d] = txs[d]
    BY <1>17, CommitEffect
  <2>2. pc'[c] # "copy" /\ \A d \in Conn \ {c} : pc'[d] = pc[d]  BY <1>1, <2>1
  <2>3. \A d \in Conn : txId'[d] \in Nat /\ txId'[d] >= txId[d]  BY <1>2, <2>1
  <2>4. \A d \in Conn : ck[d].id \in Nat  BY <1>3 DEF Checkpoint
  <2> QED  BY <1>2, <1>5, <2>1, <2>2, <2>3, <2>4 DEF CheckpointsWithinView
<1>18. CASE GrantTxIdLock(c)
  BY <1>1, <1>2, <1>3, <1>4, <1>5, <1>18
  DEF Checkpoint, CheckpointsWithinView, ViewsContiguous, files, locks, ghosts, view,
      GrantTxIdLock, Goto, Ready, ViewOf
<1>19. CASE Receive(c)
  <2>1. pc[c] = "ready" /\ UNCHANGED <<txId, ck>>  BY <1>19, ReceiveEffect
  <2>2. pc' = pc \/ pc' = [pc EXCEPT ![c] = "catchUp"]  BY <1>19, ReceiveEffect
  <2>3. \A d \in Conn \ {c} : txs'[d] = txs[d] /\ lo'[d] = lo[d]
    <3>1. \/ UNCHANGED <<lo, txs>>
          \/ \E id \in lo[c] .. txId[c] :
               /\ lo' = [lo EXCEPT ![c] = id + 1]
               /\ txs' = [txs EXCEPT ![c] = [i \in id + 1 .. txId[c] |-> txs[c][i]]]
      BY <1>19, ReceiveEffect
    <3> QED  BY <1>2, <1>4, <3>1
  <2>4. pc'[c] # "copy" /\ \A d \in Conn \ {c} : pc'[d] = pc[d]  BY <1>1, <2>1, <2>2
  <2> QED  BY <1>5, <2>1, <2>3, <2>4 DEF CheckpointsWithinView
<1>20. CASE CkptPassive(c)
  BY <1>1, <1>2, <1>3, <1>4, <1>5, <1>20
  DEF Checkpoint, CheckpointsWithinView, ViewsContiguous, files, locks, ghosts, view,
      CkptPassive, Goto, Ready, Ckpt, SomethingToCkpt, NoCkpt
<1>21. CASE CkptFull(c)
  BY <1>1, <1>2, <1>3, <1>4, <1>5, <1>21
  DEF Checkpoint, CheckpointsWithinView, ViewsContiguous, files, locks, ghosts, view,
      CkptFull, Goto, Ready, Usable, SetIso, Ckpt, NoCkpt
<1>22. CASE CkptFullLock(c)
  BY <1>1, <1>2, <1>3, <1>4, <1>5, <1>22
  DEF Checkpoint, CheckpointsWithinView, ViewsContiguous, files, locks, ghosts, view,
      CkptFullLock, Goto, Ready, Ckpt
<1>23. CASE CkptSkipped(c)
  BY <1>1, <1>2, <1>3, <1>4, <1>5, <1>23
  DEF Checkpoint, CheckpointsWithinView, ViewsContiguous, files, locks, ghosts, view,
      CkptSkipped, Goto, Ready, Ckpt
<1>24. CASE CkptQuery(c)
  BY <1>1, <1>2, <1>3, <1>4, <1>5, <1>24
  DEF Checkpoint, CheckpointsWithinView, ViewsContiguous, files, locks, ghosts, view,
      CkptQuery, Goto, Ready, Ckpt, AllReached, Held
<1>25. CASE CkptBusy(c)
  BY <1>1, <1>2, <1>3, <1>4, <1>5, <1>25
  DEF Checkpoint, CheckpointsWithinView, ViewsContiguous, files, locks, ghosts, view,
      CkptBusy, Goto, Ready, Ckpt, NoCkpt
<1>26. CASE CkptBegin(c)
  BY <1>1, <1>2, <1>3, <1>4, <1>5, <1>26
  DEF Checkpoint, CheckpointsWithinView, ViewsContiguous, files, locks, ghosts, view,
      CkptBegin, Goto, Ready, Ckpt
<1>27. CASE CkptWait(c)
  BY <1>1, <1>2, <1>3, <1>4, <1>5, <1>27
  DEF Checkpoint, CheckpointsWithinView, ViewsContiguous, files, locks, ghosts, view,
      CkptWait, Goto, Ready, Ckpt, AllDropped, Held
<1>28. CASE CkptTruncate(c)
  BY <1>1, <1>2, <1>3, <1>4, <1>5, <1>28
  DEF Checkpoint, CheckpointsWithinView, ViewsContiguous, files, locks, ghosts, view,
      CkptTruncate, Goto, Ready, Ckpt, NoCkpt
<1>29. CASE \E p \in Page : CkptCopy(c, p)
  <2> SUFFICES ASSUME NEW p \in Page, CkptCopy(c, p)
               PROVE  CheckpointsWithinView'
    BY <1>29
  <2>1. /\ UNCHANGED <<txId, lo, txs>>
        /\ pc' = pc \/ pc' = [pc EXCEPT ![c] = "fault"]
        /\ ck' = ck \/ ck' = [ck EXCEPT ![c].todo = @ \ {p}]
    BY CkptCopyEffect DEF view
  <2>2. \A d \in Conn : pc'[d] = "copy" => pc[d] = "copy"  BY <1>1, <2>1
  <2>3. \A d \in Conn : /\ ck'[d].phase = ck[d].phase /\ ck'[d].id = ck[d].id
                         /\ ck'[d].todo \subseteq ck[d].todo
    BY <1>3, <2>1 DEF Checkpoint
  <2>4. \A d \in Conn : \A i : PagesOf(txs[d][i])' = PagesOf(txs[d][i])
    BY <2>1 DEF PagesOf
  <2> QED  BY <1>5, <2>1, <2>2, <2>3, <2>4 DEF CheckpointsWithinView
<1>30. CASE CkptPost(c)
  <2>1. /\ pc' = [pc EXCEPT ![c] = "ready"] /\ UNCHANGED txId
        /\ ck' = [ck EXCEPT ![c] = [@ EXCEPT !.phase = "wait", !.polled = {}]]
        /\ \A d \in Conn \ {c} : txs'[d] = txs[d] /\ lo'[d] = lo[d]
    BY <1>30, CkptPostEffect
  <2>2. pc'[c] # "copy" /\ \A d \in Conn \ {c} : pc'[d] = pc[d]  BY <1>1, <2>1
  <2>3. ck'[c].phase = "wait" /\ \A d \in Conn \ {c} : ck'[d] = ck[d]
    BY <1>3, <2>1 DEF Checkpoint
  <2> QED  BY <1>5, <2>1, <2>2, <2>3 DEF CheckpointsWithinView
<1>31. CASE Close(c)
  BY <1>1, <1>2, <1>3, <1>4, <1>5, <1>31
  DEF Checkpoint, CheckpointsWithinView, ViewsContiguous, files, locks, ghosts, view,
      Close, Goto, Ready, Depart, SetIso, NoCkpt, Ckpt
<1>32. CASE Crash(c)
  BY <1>1, <1>2, <1>3, <1>4, <1>5, <1>32
  DEF Checkpoint, CheckpointsWithinView, ViewsContiguous, files, locks, ghosts, view,
      Crash, Goto, Ready, Depart, SetIso, NoCkpt
<1> QED  BY <1>6, <1>7, <1>8, <1>9, <1>10, <1>11, <1>12, <1>13, <1>14, <1>15, <1>16, <1>17,
  <1>18, <1>19, <1>20, <1>21, <1>22, <1>23, <1>24, <1>25, <1>26, <1>27, <1>28,
  <1>29, <1>30, <1>31, <1>32 DEF Step, Opening, Running, Using, Checkpointing

\* Connections that are alive advertise a view.
LEMMA LocksMatchTasksStep ==
  ASSUME ViewInv, NEW c \in Conn, Step(c)
  PROVE  LocksMatchTasks'
<1>1. pc \in [Conn -> Tasks]  BY DEF ViewInv, TypeOK, TasksOK
<1>2. txId \in [Conn -> Nat] /\ lo \in [Conn -> Nat]  BY DEF ViewInv, TypeOK, ViewOK
<1>3. ck \in [Conn -> Checkpoint]  BY DEF ViewInv, TypeOK, TasksOK
<1>4. pub \in [Conn -> View]  BY DEF ViewInv, TypeOK, LocksOK
<1>5. ViewsContiguous /\ LocksMatchTasks  BY DEF ViewInv
<1>6. CASE OpenLock(c) \/ OpenLoad(c) \/ OpenEmpty(c) \/ OpenCreate(c)
  BY <1>1, <1>2, <1>3, <1>4, <1>5, <1>6, NoPubFacts
  DEF Checkpoint, LocksMatchTasks, ViewsContiguous, files, locks, ghosts, view, OpenLock,
      Goto, Ready, OpenLoad, StartFrom, HeaderOf, OpenEmpty, OpenCreate, WriteHeader
<1>7. CASE SkipTx(c) \/ ReadTx(c) \/ FollowEnd(c) \/ AtEnd(c) \/ CaughtUp(c)
  BY <1>1, <1>2, <1>3, <1>4, <1>5, <1>7, NoPubFacts
  DEF Checkpoint, LocksMatchTasks, ViewsContiguous, files, locks, ghosts, view, SkipTx,
      Goto, Ready, Advancing, Next1, Activate, ReadTx, MustRead, TxRead, FollowEnd, AtEnd,
      CaughtUp, SetIso
<1>8. CASE BeginRead(c) \/ BeginWrite(c) \/ Upgrade(c) \/ Rejoin(c) \/ Backstop(c)
  BY <1>1, <1>2, <1>3, <1>4, <1>5, <1>8, NoPubFacts
  DEF Checkpoint, LocksMatchTasks, ViewsContiguous, files, locks, ghosts, view, BeginRead,
      Goto, Ready, Usable, SetIso, BeginWrite, Upgrade, Rejoin, Backstop
<1>9. CASE SwapEnd(c) \/ SwapHeader(c) \/ (\E p \in Page : WritePage(c, p)) \/ Commit(c) \/
          Publish(c) \/ Rollback(c)
  BY <1>1, <1>2, <1>3, <1>4, <1>5, <1>9, NoPubFacts
  DEF Checkpoint, LocksMatchTasks, ViewsContiguous, files, locks, ghosts, view, SwapEnd,
      Goto, Ready, Usable, MayWrite, SwapHeader, WriteHeader, WritePage, Commit, Activate,
      Publish, Rollback
<1>10. CASE Receive(c) \/ GrantTxIdLock(c)
  BY <1>1, <1>2, <1>3, <1>4, <1>5, <1>10, NoPubFacts
  DEF Checkpoint, LocksMatchTasks, ViewsContiguous, files, locks, ghosts, view, Receive,
      Goto, Ready, OnTx, Absorb, GrantTxIdLock, ViewOf
<1>11. CASE CkptPassive(c)
  BY <1>1, <1>2, <1>3, <1>4, <1>5, <1>11, NoPubFacts
  DEF Checkpoint, LocksMatchTasks, ViewsContiguous, files, locks, ghosts, view,
      CkptPassive, Goto, Ready, Ckpt, SomethingToCkpt, NoCkpt
<1>12. CASE CkptFull(c)
  BY <1>1, <1>2, <1>3, <1>4, <1>5, <1>12, NoPubFacts
  DEF Checkpoint, LocksMatchTasks, ViewsContiguous, files, locks, ghosts, view, CkptFull,
      Goto, Ready, Usable, SetIso, Ckpt, NoCkpt
<1>13. CASE CkptFullLock(c)
  BY <1>1, <1>2, <1>3, <1>4, <1>5, <1>13, NoPubFacts
  DEF Checkpoint, LocksMatchTasks, ViewsContiguous, files, locks, ghosts, view,
      CkptFullLock, Goto, Ready, Ckpt
<1>14. CASE CkptSkipped(c)
  BY <1>1, <1>2, <1>3, <1>4, <1>5, <1>14, NoPubFacts
  DEF Checkpoint, LocksMatchTasks, ViewsContiguous, files, locks, ghosts, view,
      CkptSkipped, Goto, Ready, Ckpt
<1>15. CASE CkptBusy(c)
  BY <1>1, <1>2, <1>3, <1>4, <1>5, <1>15, NoPubFacts
  DEF Checkpoint, LocksMatchTasks, ViewsContiguous, files, locks, ghosts, view, CkptBusy,
      Goto, Ready, Ckpt, NoCkpt
<1>16. CASE CkptBegin(c)
  BY <1>1, <1>2, <1>3, <1>4, <1>5, <1>16, NoPubFacts
  DEF Checkpoint, LocksMatchTasks, ViewsContiguous, files, locks, ghosts, view, CkptBegin,
      Goto, Ready, Ckpt
<1>17. CASE CkptPost(c)
  BY <1>1, <1>2, <1>3, <1>4, <1>5, <1>17, NoPubFacts
  DEF Checkpoint, LocksMatchTasks, ViewsContiguous, files, locks, ghosts, view, CkptPost,
      Goto, Ready, Ckpt, Absorb
<1>18. CASE CkptTruncate(c)
  BY <1>1, <1>2, <1>3, <1>4, <1>5, <1>18, NoPubFacts
  DEF Checkpoint, LocksMatchTasks, ViewsContiguous, files, locks, ghosts, view,
      CkptTruncate, Goto, Ready, Ckpt, NoCkpt
<1>19. CASE CkptQuery(c)
  <2>1. /\ UNCHANGED <<pc, pub>>
        /\ ck' = [ck EXCEPT ![c] = [@ EXCEPT !.phase = "go", !.polled = Held]]
    BY <1>19 DEF CkptQuery, locks
  <2> QED  BY <1>1, <1>2, <1>3, <1>4, <1>5, <2>1 DEF LocksMatchTasks, Checkpoint, Held
<1>20. CASE \E p \in Page : CkptCopy(c, p)
  <2> SUFFICES ASSUME NEW p \in Page, CkptCopy(c, p)
               PROVE  LocksMatchTasks'
    BY <1>20
  <2>1. /\ pc[c] = "copy" /\ UNCHANGED <<txId, lo, txs, pub>>
        /\ pc' = pc \/ pc' = [pc EXCEPT ![c] = "fault"]
        /\ ck' = ck \/ ck' = [ck EXCEPT ![c].todo = @ \ {p}]
    BY CkptCopyEffect DEF view, locks
  <2> QED  BY <1>1, <1>2, <1>3, <1>4, <1>5, <2>1 DEF Checkpoint, LocksMatchTasks
<1>21. CASE CkptWait(c)
  <2>1. /\ UNCHANGED <<pc, pub>>
        /\ ck' = [ck EXCEPT ![c] = [@ EXCEPT !.phase = "truncate", !.polled = Held]]
    BY <1>21 DEF CkptWait, locks
  <2> QED  BY <1>1, <1>2, <1>3, <1>4, <1>5, <2>1 DEF LocksMatchTasks, Checkpoint, Held
<1>22. CASE Close(c)
  BY <1>1, <1>2, <1>3, <1>4, <1>5, <1>22, NoPubFacts
  DEF Checkpoint, LocksMatchTasks, ViewsContiguous, files, locks, ghosts, view, Close,
      Depart, Ready, Goto, SetIso, NoCkpt
<1>23. CASE Crash(c)
  BY <1>1, <1>2, <1>3, <1>4, <1>5, <1>23, NoPubFacts
  DEF Checkpoint, LocksMatchTasks, ViewsContiguous, files, locks, ghosts, view, Crash,
      Depart, Goto, NoCkpt
<1> QED  BY <1>6, <1>7, <1>8, <1>9, <1>10, <1>11, <1>12, <1>13, <1>14, <1>15, <1>16, <1>17,
  <1>18, <1>19, <1>20, <1>21, <1>22, <1>23 DEF Step, Opening, Running, Using, Checkpointing

\* What is advertised stays conservative.
LEMMA PublishedIsConservativeStep ==
  ASSUME ViewInv, NEW c \in Conn, Step(c)
  PROVE  PublishedIsConservative'
<1>1. pc \in [Conn -> Tasks]  BY DEF ViewInv, TypeOK, TasksOK
<1>2. txId \in [Conn -> Nat] /\ lo \in [Conn -> Nat]  BY DEF ViewInv, TypeOK, ViewOK
<1>3. pub \in [Conn -> View]  BY DEF ViewInv, TypeOK, LocksOK
<1>4. ViewsContiguous /\ PublishedIsConservative /\ WritersFrozen /\ HeadersStart
  BY DEF ViewInv
<1>5. CASE OpenLock(c) \/ OpenEmpty(c) \/ OpenCreate(c)
  BY <1>1, <1>2, <1>3, <1>4, <1>5, NoPubFacts
  DEF PublishedIsConservative, ViewsContiguous, View, WritersFrozen, HeadersStart, files,
      locks, ghosts, view, OpenLock, Goto, Ready, OpenEmpty, OpenCreate, StartFrom,
      WriteHeader
<1>6. CASE OpenLoad(c)
  <2>1. /\ pc[c] = "joining" /\ UNCHANGED pub
        /\ \E n \in Nat : txId' = [txId EXCEPT ![c] = n] /\ lo' = [lo EXCEPT ![c] = n + 1]
    BY <1>6, OpenLoadEffect DEF locks
  <2> QED  BY <1>1, <1>2, <1>3, <1>4, <2>1 DEF PublishedIsConservative, ViewsContiguous, View
<1>7. CASE ReadTx(c) \/ FollowEnd(c) \/ AtEnd(c) \/ CaughtUp(c)
  BY <1>1, <1>2, <1>3, <1>4, <1>7, NoPubFacts
  DEF PublishedIsConservative, ViewsContiguous, View, WritersFrozen, HeadersStart, files,
      locks, ghosts, view, ReadTx, Goto, Ready, MustRead, Advancing, Activate, TxRead,
      FollowEnd, AtEnd, CaughtUp, SetIso
<1>8. CASE SkipTx(c)
  <2>1. /\ UNCHANGED <<lo, pub>>
        /\ txId' = [txId EXCEPT ![c] = txId[c] + 1] \/ UNCHANGED txId
    BY <1>8, SkipTxEffect DEF view, locks
  <2> QED  BY <1>1, <1>2, <1>3, <1>4, <2>1 DEF PublishedIsConservative, View
<1>9. CASE BeginRead(c) \/ BeginWrite(c) \/ Upgrade(c) \/ Rejoin(c) \/ Backstop(c)
  BY <1>1, <1>2, <1>3, <1>4, <1>9, NoPubFacts
  DEF PublishedIsConservative, ViewsContiguous, View, WritersFrozen, HeadersStart, files,
      locks, ghosts, view, BeginRead, Goto, Ready, Usable, SetIso, BeginWrite, Upgrade,
      Rejoin, Backstop
<1>10. CASE SwapEnd(c)
  BY <1>1, <1>2, <1>3, <1>4, <1>10, NoPubFacts
  DEF PublishedIsConservative, ViewsContiguous, View, WritersFrozen, HeadersStart, files,
      locks, ghosts, view, SwapEnd, Goto, Ready, Usable, MayWrite
<1>11. CASE (\E p \in Page : WritePage(c, p))
  BY <1>1, <1>2, <1>3, <1>4, <1>11, NoPubFacts
  DEF PublishedIsConservative, ViewsContiguous, View, WritersFrozen, HeadersStart, files,
      locks, ghosts, view, WritePage, Goto, Ready, Usable, MayWrite
<1>12. CASE Commit(c)
  BY <1>1, <1>2, <1>3, <1>4, <1>12, NoPubFacts
  DEF PublishedIsConservative, ViewsContiguous, View, WritersFrozen, HeadersStart, files,
      locks, ghosts, view, Commit, Goto, Ready, Usable, MayWrite, Activate
<1>13. CASE SwapHeader(c) \/ Publish(c) \/ Rollback(c)
  BY <1>1, <1>2, <1>3, <1>4, <1>13, NoPubFacts
  DEF PublishedIsConservative, ViewsContiguous, View, WritersFrozen, HeadersStart, files,
      locks, ghosts, view, SwapHeader, Goto, Ready, WriteHeader, Publish, Rollback, Usable,
      MayWrite
<1>14. CASE GrantTxIdLock(c)
  BY <1>1, <1>2, <1>3, <1>4, <1>14, NoPubFacts
  DEF PublishedIsConservative, ViewsContiguous, View, WritersFrozen, HeadersStart, files,
      locks, ghosts, view, GrantTxIdLock, Goto, Ready, ViewOf
<1>15. CASE Receive(c)
  <2>1. UNCHANGED <<txId, pub>>  BY <1>15, ReceiveEffect DEF locks
  <2>2. lo' = lo \/ \E id \in lo[c] .. txId[c] : lo' = [lo EXCEPT ![c] = id + 1]
    BY <1>15, ReceiveEffect
  <2> QED  BY <1>1, <1>2, <1>3, <1>4, <2>1, <2>2 DEF PublishedIsConservative, View
<1>16. CASE CkptPassive(c) \/ CkptSkipped(c) \/ CkptFull(c) \/ CkptFullLock(c)
  BY <1>1, <1>2, <1>3, <1>4, <1>16, NoPubFacts
  DEF PublishedIsConservative, ViewsContiguous, View, WritersFrozen, HeadersStart, files,
      locks, ghosts, view, CkptPassive, Goto, Ready, Ckpt, SomethingToCkpt, NoCkpt,
      CkptSkipped, CkptFull, Usable, SetIso, CkptFullLock
<1>17. CASE CkptQuery(c) \/ CkptBusy(c) \/ CkptBegin(c) \/ CkptWait(c) \/ CkptTruncate(c)
  BY <1>1, <1>2, <1>3, <1>4, <1>17, NoPubFacts
  DEF PublishedIsConservative, ViewsContiguous, View, WritersFrozen, HeadersStart, files,
      locks, ghosts, view, CkptQuery, Goto, Ready, Ckpt, AllReached, Held, CkptBusy,
      NoCkpt, CkptBegin, CkptWait, AllDropped, CkptTruncate
<1>18. CASE \E p \in Page : CkptCopy(c, p)
  <2> SUFFICES ASSUME NEW p \in Page, CkptCopy(c, p)
               PROVE  PublishedIsConservative'
    BY <1>18
  <2>1. /\ pc[c] = "copy" /\ UNCHANGED <<txId, lo, txs, pub>>
        /\ pc' = pc \/ pc' = [pc EXCEPT ![c] = "fault"]
        /\ ck' = ck \/ ck' = [ck EXCEPT ![c].todo = @ \ {p}]
    BY CkptCopyEffect DEF view, locks
  <2> QED  BY <1>1, <1>2, <1>3, <1>4, <2>1 DEF Checkpoint, PublishedIsConservative
<1>19. CASE CkptPost(c)
  <2>1. UNCHANGED <<txId, pub>>  BY <1>19 DEF CkptPost, locks
  <2>2. lo' = lo \/ \E id \in lo[c] .. txId[c] : lo' = [lo EXCEPT ![c] = id + 1]
    BY <1>19 DEF CkptPost, Absorb
  <2> QED  BY <1>1, <1>2, <1>3, <1>4, <2>1, <2>2 DEF PublishedIsConservative, View
<1>20. CASE Close(c)
  BY <1>1, <1>2, <1>3, <1>4, <1>20, NoPubFacts
  DEF PublishedIsConservative, ViewsContiguous, View, WritersFrozen, HeadersStart, files,
      locks, ghosts, view, Close, Goto, Ready, Depart, SetIso, NoCkpt, Ckpt
<1>21. CASE Crash(c)
  BY <1>1, <1>2, <1>3, <1>4, <1>21, NoPubFacts
  DEF PublishedIsConservative, ViewsContiguous, View, WritersFrozen, HeadersStart, files,
      locks, ghosts, view, Crash, Goto, Ready, Depart, SetIso, NoCkpt
<1> QED  BY <1>5, <1>6, <1>7, <1>8, <1>9, <1>10, <1>11, <1>12, <1>13, <1>14, <1>15, <1>16,
  <1>17, <1>18, <1>19, <1>20, <1>21 DEF Step, Opening, Running, Using, Checkpointing

\* Checkpoints respect the views that were advertised.
LEMMA CheckpointRespectsViewsStep ==
  ASSUME ViewInv, NEW c \in Conn, Step(c)
  PROVE  CheckpointRespectsViews'
<1>1. pc \in [Conn -> Tasks]  BY DEF ViewInv, TypeOK, TasksOK
<1>2. txId \in [Conn -> Nat] /\ lo \in [Conn -> Nat]  BY DEF ViewInv, TypeOK, ViewOK
<1>3. ck \in [Conn -> Checkpoint]  BY DEF ViewInv, TypeOK, TasksOK
<1>4. pub \in [Conn -> View]  BY DEF ViewInv, TypeOK, LocksOK
<1>5. /\ ViewsContiguous /\ PublishedIsConservative /\ LocksMatchTasks
      /\ CheckpointRespectsViews /\ WritersFrozen
  BY DEF ViewInv
<1>6. CASE OpenLock(c)
  BY <1>1, <1>2, <1>3, <1>4, <1>5, <1>6, NoPubFacts
  DEF Checkpoint, CheckpointRespectsViews, ViewsContiguous, PublishedIsConservative,
      LocksMatchTasks, View, WritersFrozen, files, locks, ghosts, view, OpenLock, Goto,
      Ready
<1>7. CASE OpenEmpty(c) \/ OpenCreate(c)
  BY <1>1, <1>2, <1>3, <1>4, <1>5, <1>7, NoPubFacts
  DEF Checkpoint, CheckpointRespectsViews, ViewsContiguous, PublishedIsConservative,
      LocksMatchTasks, View, WritersFrozen, files, locks, ghosts, view, OpenEmpty, Goto,
      Ready, OpenCreate, StartFrom, WriteHeader
<1>8. CASE OpenLoad(c)
  <2>1. /\ pc[c] = "joining" /\ UNCHANGED <<pub, ck>>
        /\ \E n \in Nat : txId' = [txId EXCEPT ![c] = n] /\ lo' = [lo EXCEPT ![c] = n + 1]
    BY <1>8, OpenLoadEffect DEF locks
  <2> QED  BY <1>1, <1>2, <1>3, <1>4, <1>5, <2>1 DEF Checkpoint, CheckpointRespectsViews, ViewsContiguous
<1>9. CASE ReadTx(c)
  <2>1. DOMAIN txs = Conn  BY DEF ViewInv, TypeOK, ViewOK
  <2>2. UNCHANGED <<lo, pub, ck>> /\ txId' = [txId EXCEPT ![c] = txId[c] + 1]
    BY <1>9, <2>1, ReadTxEffect DEF locks
  <2> QED  BY <1>2, <1>3, <1>5, <2>2 DEF Checkpoint, CheckpointRespectsViews
<1>10. CASE FollowEnd(c) \/ AtEnd(c) \/ CaughtUp(c)
  <2>1. UNCHANGED <<txId, lo, pub, ck>>  BY <1>10, FollowEffect DEF locks
  <2> QED  BY <1>5, <2>1 DEF CheckpointRespectsViews
<1>11. CASE SkipTx(c)
  <2>1. /\ UNCHANGED <<lo, pub, ck>>
        /\ txId' = [txId EXCEPT ![c] = txId[c] + 1] \/ UNCHANGED txId
    BY <1>11, SkipTxEffect DEF view, locks
  <2> QED  BY <1>1, <1>2, <1>3, <1>4, <1>5, <2>1 DEF Checkpoint, CheckpointRespectsViews
<1>12. CASE BeginRead(c) \/ BeginWrite(c) \/ Upgrade(c) \/ Rejoin(c) \/ Backstop(c)
  <2>1. UNCHANGED <<txId, lo, pub, ck>>
    BY <1>12 DEF BeginRead, BeginWrite, Upgrade, Rejoin, Backstop, locks, view
  <2> QED  BY <1>5, <2>1 DEF CheckpointRespectsViews
<1>13. CASE SwapEnd(c)
  <2>1. UNCHANGED <<txId, lo, pub, ck>>  BY <1>13 DEF SwapEnd, locks, view
  <2> QED  BY <1>5, <2>1 DEF CheckpointRespectsViews
<1>14. CASE \E p \in Page : WritePage(c, p)
  <2>1. UNCHANGED <<txId, lo, pub, ck>>  BY <1>14 DEF WritePage, locks, view
  <2> QED  BY <1>5, <2>1 DEF CheckpointRespectsViews
<1>15. CASE Commit(c)
  <2>1. UNCHANGED <<lo, pub, ck>> /\ txId' = [txId EXCEPT ![c] = txId[c] + 1]
    BY <1>15, CommitEffect DEF locks
  <2> QED  BY <1>2, <1>3, <1>5, <2>1 DEF Checkpoint, CheckpointRespectsViews
<1>16. CASE SwapHeader(c) \/ Publish(c) \/ Rollback(c)
  <2>1. UNCHANGED <<txId, lo, pub, ck>>
    BY <1>16 DEF SwapHeader, Publish, Rollback, locks, view
  <2> QED  BY <1>5, <2>1 DEF CheckpointRespectsViews
<1>17. CASE GrantTxIdLock(c)
  BY <1>1, <1>2, <1>3, <1>4, <1>5, <1>17, NoPubFacts
  DEF Checkpoint, CheckpointRespectsViews, ViewsContiguous, PublishedIsConservative,
      LocksMatchTasks, View, WritersFrozen, files, locks, ghosts, view, GrantTxIdLock,
      Goto, Ready, ViewOf
<1>18. CASE Receive(c)
  <2>1. /\ UNCHANGED <<txId, pub, ck>>
        /\ lo' = lo \/ \E id \in lo[c] .. txId[c] : lo' = [lo EXCEPT ![c] = id + 1]
    BY <1>18, ReceiveEffect DEF locks
  <2>2. \A d \in Conn : lo'[d] \in Nat /\ lo'[d] >= lo[d]  BY <1>2, <2>1
  <2>3. \A d \in Conn : ck[d].id \in Nat /\ ck[d].polled \subseteq Conn
    BY <1>3 DEF Checkpoint
  <2> QED  BY <1>2, <1>5, <2>1, <2>2, <2>3 DEF CheckpointRespectsViews
<1>19. CASE CkptPassive(c)
  BY <1>1, <1>2, <1>3, <1>4, <1>5, <1>19, NoPubFacts
  DEF Checkpoint, CheckpointRespectsViews, ViewsContiguous, PublishedIsConservative,
      LocksMatchTasks, View, WritersFrozen, files, locks, ghosts, view, CkptPassive, Goto,
      Ready, Ckpt, SomethingToCkpt, NoCkpt
<1>20. CASE CkptFull(c)
  <2>1. /\ UNCHANGED <<txId, lo, pub>>
        /\ ck' = [ck EXCEPT ![c] = [NoCkpt EXCEPT !.phase = "request", !.full = TRUE]]
    BY <1>20 DEF CkptFull, locks, view
  <2>2. ck'[c].polled = {} /\ \A d \in Conn \ {c} : ck'[d] = ck[d]
    BY <1>3, <2>1 DEF NoCkpt
  <2> QED  BY <1>5, <2>1, <2>2 DEF CheckpointRespectsViews
<1>21. CASE CkptFullLock(c)
  BY <1>1, <1>2, <1>3, <1>4, <1>5, <1>21, NoPubFacts
  DEF Checkpoint, CheckpointRespectsViews, ViewsContiguous, PublishedIsConservative,
      LocksMatchTasks, View, WritersFrozen, files, locks, ghosts, view, CkptFullLock, Goto,
      Ready, Ckpt
<1>22. CASE CkptSkipped(c)
  BY <1>1, <1>2, <1>3, <1>4, <1>5, <1>22, NoPubFacts
  DEF Checkpoint, CheckpointRespectsViews, ViewsContiguous, PublishedIsConservative,
      LocksMatchTasks, View, WritersFrozen, files, locks, ghosts, view, CkptSkipped, Goto,
      Ready, Ckpt
<1>23. CASE CkptQuery(c)
  BY <1>1, <1>2, <1>3, <1>4, <1>5, <1>23, NoPubFacts
  DEF Checkpoint, CheckpointRespectsViews, ViewsContiguous, PublishedIsConservative,
      LocksMatchTasks, View, WritersFrozen, files, locks, ghosts, view, CkptQuery, Goto,
      Ready, Ckpt, AllReached, Held
<1>24. CASE CkptBusy(c)
  BY <1>1, <1>2, <1>3, <1>4, <1>5, <1>24, NoPubFacts
  DEF Checkpoint, CheckpointRespectsViews, ViewsContiguous, PublishedIsConservative,
      LocksMatchTasks, View, WritersFrozen, files, locks, ghosts, view, CkptBusy, Goto,
      Ready, Ckpt, NoCkpt
<1>25. CASE CkptBegin(c)
  BY <1>1, <1>2, <1>3, <1>4, <1>5, <1>25, NoPubFacts
  DEF Checkpoint, CheckpointRespectsViews, ViewsContiguous, PublishedIsConservative,
      LocksMatchTasks, View, WritersFrozen, files, locks, ghosts, view, CkptBegin, Goto,
      Ready, Ckpt
<1>26. CASE CkptWait(c)
  BY <1>1, <1>2, <1>3, <1>4, <1>5, <1>26, NoPubFacts
  DEF Checkpoint, CheckpointRespectsViews, ViewsContiguous, PublishedIsConservative,
      LocksMatchTasks, View, WritersFrozen, files, locks, ghosts, view, CkptWait, Goto,
      Ready, Ckpt, AllDropped, Held
<1>27. CASE CkptTruncate(c)
  BY <1>1, <1>2, <1>3, <1>4, <1>5, <1>27, NoPubFacts
  DEF Checkpoint, CheckpointRespectsViews, ViewsContiguous, PublishedIsConservative,
      LocksMatchTasks, View, WritersFrozen, files, locks, ghosts, view, CkptTruncate, Goto,
      Ready, Ckpt, NoCkpt
<1>28. CASE \E p \in Page : CkptCopy(c, p)
  <2> SUFFICES ASSUME NEW p \in Page, CkptCopy(c, p)
               PROVE  CheckpointRespectsViews'
    BY <1>28
  <2>1. /\ pc[c] = "copy" /\ UNCHANGED <<txId, lo, txs, pub>>
        /\ pc' = pc \/ pc' = [pc EXCEPT ![c] = "fault"]
        /\ ck' = ck \/ ck' = [ck EXCEPT ![c].todo = @ \ {p}]
    BY CkptCopyEffect DEF view, locks
  <2> QED  BY <1>1, <1>2, <1>3, <1>4, <1>5, <2>1 DEF Checkpoint, CheckpointRespectsViews
<1>29. CASE CkptPost(c)
  <2>1. /\ UNCHANGED <<txId, pub>>
        /\ ck' = [ck EXCEPT ![c] = [@ EXCEPT !.phase = "wait", !.polled = {}]]
        /\ lo' = lo \/ \E id \in lo[c] .. txId[c] : lo' = [lo EXCEPT ![c] = id + 1]
    BY <1>29, CkptPostEffect DEF locks
  <2>2. ck'[c].phase = "wait" /\ \A d \in Conn \ {c} : ck'[d] = ck[d]
    BY <1>3, <2>1 DEF Checkpoint
  <2>3. \A d \in Conn : lo'[d] \in Nat /\ lo'[d] >= lo[d]  BY <1>2, <2>1
  <2>4. \A d \in Conn : ck[d].id \in Nat /\ ck[d].polled \subseteq Conn
    BY <1>3 DEF Checkpoint
  <2> QED  BY <1>2, <1>5, <2>1, <2>2, <2>3, <2>4 DEF CheckpointRespectsViews
<1>30. CASE Close(c) \/ Crash(c)
  <2>1. /\ UNCHANGED <<txId, lo>> /\ pub' = [pub EXCEPT ![c] = NoPub]
        /\ ck' = [ck EXCEPT ![c] = NoCkpt]
    BY <1>30, DepartEffect
  <2>2. ck'[c].polled = {} /\ \A d \in Conn \ {c} : ck'[d] = ck[d]
    BY <1>3, <2>1 DEF NoCkpt
  <2>3. \A d \in Conn : pub'[d] # NoPub => pub[d] # NoPub  BY <1>4, <2>1
  <2> QED  BY <1>5, <2>1, <2>2, <2>3 DEF CheckpointRespectsViews
<1> QED  BY <1>6, <1>7, <1>8, <1>9, <1>10, <1>11, <1>12, <1>13, <1>14, <1>15, <1>16, <1>17,
  <1>18, <1>19, <1>20, <1>21, <1>22, <1>23, <1>24, <1>25, <1>26, <1>27, <1>28,
  <1>29, <1>30 DEF Step, Opening, Running, Using, Checkpointing

-----------------------------------------------------------------------------
(* The theorems *)

\* The log starts in the invariant.
LEMMA InitInv == Init => ViewInv
<1> SUFFICES ASSUME Init
             PROVE  ViewInv
  OBVIOUS
<1>1. FilesOK
  <2>1. hdr \in [{0, 1} -> Header]  BY NothingFacts DEF Init
  <2>2. frames \in [{0, 1} -> Seq(FrameBytes)]  BY DEF Init
  <2>3. size \in [{0, 1} -> Nat] /\ db \in [Page -> Int]  BY DEF Init
  <2> QED  BY <2>1, <2>2, <2>3 DEF FilesOK
<1>2. LocksOK  BY NothingFacts DEF Init, LocksOK
<1>3. MailOK  BY DEF Init, MailOK
<1>4. HistoryOK  BY DEF Init, HistoryOK
<1>5. ViewOK
  <2>1. \A c \in Conn : Keys(c) = {}  BY DEF Init, Keys
  <2>2. \A c \in Conn : txs[c] \in [{} -> Transaction]  BY DEF Init
  <2>3. active \in [Conn -> Header]  BY NothingFacts DEF Init
  <2>4. DOMAIN txs = Conn /\ \A c \in Conn : txs[c] \in [Keys(c) -> Transaction]
    BY <2>1, <2>2 DEF Init
  <2> QED  BY <2>3, <2>4 DEF Init, ViewOK
<1>6. TasksOK
  <2>1. NoCkpt \in Checkpoint  BY DEF NoCkpt, Checkpoint, Phases
  <2> QED  BY <2>1, NothingFacts DEF Init, TasksOK, Tasks
<1>7. HeadersStart  BY DEF Init, HeadersStart, FirstHeader
<1>8. ViewsContiguous  BY DEF Init, ViewsContiguous
<1>9. WritersFrozen  BY DEF Init, WritersFrozen
<1>10. CheckpointsWithinView /\ LocksMatchTasks /\ CheckpointRespectsViews
  BY NoPubFacts
  DEF Init, CheckpointsWithinView, LocksMatchTasks, CheckpointRespectsViews, NoCkpt
<1>11. PublishedIsConservative  BY DEF Init, PublishedIsConservative
<1> QED
  BY <1>1, <1>2, <1>3, <1>4, <1>5, <1>6, <1>7, <1>8, <1>9, <1>10, <1>11 DEF ViewInv, TypeOK

\* A step that changes nothing keeps the invariant.
LEMMA StutterInv ==
  ASSUME ViewInv, UNCHANGED vars
  PROVE  ViewInv'
<1>1. UNCHANGED <<files, db, locks, chan, ghosts, pc, iso, view, pend, cur, due, ck>>
  BY DEF vars
<1>2. FilesOK' /\ LocksOK' /\ MailOK' /\ HistoryOK'
  BY <1>1
  DEF ViewInv, TypeOK, FilesOK, LocksOK, MailOK, HistoryOK, files, locks, ghosts
<1>3. ViewOK'
  <2>1. \A c \in Conn : Keys(c)' = Keys(c)  BY <1>1 DEF Keys, view
  <2> QED  BY <1>1, <2>1 DEF ViewInv, TypeOK, ViewOK, view
<1>4. TasksOK'  BY <1>1 DEF ViewInv, TypeOK, TasksOK
<1>5. HeadersStart' /\ ViewsContiguous' /\ WritersFrozen'
  BY <1>1 DEF ViewInv, HeadersStart, ViewsContiguous, WritersFrozen, files, view
<1>6. CheckpointsWithinView' /\ LocksMatchTasks'
  BY <1>1 DEF ViewInv, CheckpointsWithinView, LocksMatchTasks, locks, view
<1>7. PublishedIsConservative' /\ CheckpointRespectsViews'
  BY <1>1 DEF ViewInv, PublishedIsConservative, CheckpointRespectsViews, locks, view
<1> QED  BY <1>2, <1>3, <1>4, <1>5, <1>6, <1>7 DEF ViewInv, TypeOK

\* Every step keeps the invariant.
LEMMA StepInv == ViewInv /\ [Next]_vars => ViewInv'
<1>1. ASSUME ViewInv, NEW c \in Conn, Step(c)
      PROVE  ViewInv'
  <2>1. TypeOK' /\ HeadersStart' /\ ViewsContiguous' /\ WritersFrozen'
    BY <1>1, TypeStep, HeadersStartStep, ViewsContiguousStep, WritersFrozenStep
  <2>2. /\ CheckpointsWithinView' /\ LocksMatchTasks'
        /\ PublishedIsConservative' /\ CheckpointRespectsViews'
    BY <1>1, CheckpointsWithinViewStep, LocksMatchTasksStep, PublishedIsConservativeStep,
       CheckpointRespectsViewsStep
  <2> QED  BY <2>1, <2>2 DEF ViewInv
<1> QED  BY <1>1, StutterInv DEF Next

\* The invariant always holds.
THEOREM ViewInvariant == Spec => []ViewInv
<1> QED  BY InitInv, StepInv, PTL DEF Spec

\* Everything the model of WriteAhead.js keeps has its type: the files, the
\* locks, the messages, the views and the tasks.
THEOREM TypeCorrect == Spec => []TypeOK
<1>1. ViewInv => TypeOK  BY DEF ViewInv
<1> QED  BY <1>1, ViewInvariant, PTL

\* The lock name a connection holds never promises more than the connection
\* has read, nor that it has left transactions it still reads from the log
\* (#updateTxIdLock), whatever other connections write and checkpoint.
THEOREM AdvertisedViews == Spec => []PublishedIsConservative
<1>1. ViewInv => PublishedIsConservative  BY DEF ViewInv
<1> QED  BY <1>1, ViewInvariant, PTL

\* When a checkpoint writes pages, the connections it polled have read the
\* transactions it writes; when it truncates, they read none of them from the
\* log any more: polling the lock names once is enough (#waitForTxIdLocks).
THEOREM CheckpointSafe == Spec => []CheckpointRespectsViews
<1>1. ViewInv => CheckpointRespectsViews  BY DEF ViewInv
<1> QED  BY <1>1, ViewInvariant, PTL

=============================================================================
