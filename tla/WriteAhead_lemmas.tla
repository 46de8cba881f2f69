------------------------- MODULE WriteAhead_lemmas -------------------------
(***************************************************************************)
(* The inductive invariant of the write-ahead log, the facts about its     *)
(* data that the proofs need, what its longer actions do to the view of    *)
(* the connection that takes them, and that every step keeps the types.    *)
(***************************************************************************)
EXTENDS WriteAhead, WellFoundedInduction, TLAPS

-----------------------------------------------------------------------------
(* The strengthening *)

\* A header that was written starts at a transaction number.
HeadersStart == \A f \in {0, 1} : hdr[f] = NoHeader \/ hdr[f].nextTxId >= 1

\* The map of transactions has no gap between its lowest key and the view.
ViewsContiguous ==
  \A c \in Conn :
    /\ 1 <= lo[c] /\ lo[c] <= txId[c] + 1
    /\ pc[c] \in {"closed", "joining", "create"} => txId[c] = 0 /\ lo[c] = 1
    /\ pc[c] = "publish" => lo[c] <= txId[c]

\* A transaction in progress is the next one, of a writer that does nothing
\* that would move its view.
WritersFrozen ==
  \A c \in Conn :
    /\ cur[c] # NoTx => /\ cur[c].id = txId[c] + 1
                        /\ iso[c] = "write"
                        /\ pc[c] \in {"ready", "copy", "fault"}
                        /\ ~ck[c].full
    /\ pc[c] \in {"swap", "write"} => iso[c] = "write" /\ ~ck[c].full /\ cur[c] = NoTx

\* A checkpoint does not reach past the view of the connection that runs it.
CheckpointsWithinView ==
  \A c \in Conn :
    /\ ck[c].phase \in {"query", "go"} => ck[c].id <= txId[c]
    /\ pc[c] = "copy" => /\ ck[c].phase = "go"
                         /\ ck[c].todo \subseteq
                              UNION {PagesOf(txs[c][i]) : i \in lo[c] .. ck[c].id}

\* A connection that is alive advertises a view; one that was never opened
\* advertises none and was never polled.
LocksMatchTasks ==
  \A c \in Conn :
    /\ pc[c] \notin {"closed", "gone"} => pub[c] # NoPub
    /\ pc[c] = "closed" => pub[c] = NoPub /\ \A d \in Conn : c \notin ck[d].polled

ViewInv ==
  /\ TypeOK /\ HeadersStart /\ ViewsContiguous /\ WritersFrozen
  /\ CheckpointsWithinView /\ LocksMatchTasks
  /\ PublishedIsConservative /\ CheckpointRespectsViews

-----------------------------------------------------------------------------
(* Facts about the data *)

\* The order of the natural numbers, as a set of pairs, is well founded.
LEMMA NatOrder ==
  \E R : IsWellFoundedOn(R, Nat) /\ \A y, z \in Nat : y < z => <<y, z>> \in R
<1> DEFINE R == OpToRel(<, Nat)
<1>1. \A y, z \in Nat : y < z => <<y, z>> \in R
  <2> SUFFICES ASSUME NEW y \in Nat, NEW z \in Nat, y < z
               PROVE  <<y, z>> \in {ss \in Nat \X Nat : ss[1] < ss[2]}
    BY Zenon DEF OpToRel
  <2> QED  BY SMT
<1>2. IsWellFoundedOn(R, Nat)  BY NatLessThanWellFounded, Zenon
<1> HIDE DEF R
<1> QED  BY <1>1, <1>2

\* A bounded set of natural numbers has its maximum.
LEMMA MaxBounded ==
  ASSUME NEW S \in SUBSET Nat, NEW n \in Nat, S # {}, \A x \in S : x <= n
  PROVE  Max(S) \in S
<1> DEFINE T == {n - x : x \in S}
<1>1. T \subseteq Nat
  <2>1. \A x \in S : n - x \in Nat  OBVIOUS
  <2> QED  BY <2>1
<1>2. T # {}  OBVIOUS
<1>3. PICK R : IsWellFoundedOn(R, Nat) /\ \A y, z \in Nat : y < z => <<y, z>> \in R
  BY NatOrder
<1> HIDE DEF T
<1>4. IsWellFoundedOn(R, Nat)  BY <1>3
<1>5. \E m \in T : \A y \in T : ~ (<<y, m>> \in R)  BY <1>1, <1>2, <1>4, WFMin, Zenon
<1>6. PICK m \in T : \A y \in T : ~(y < m)  BY <1>1, <1>3, <1>5
<1>7. PICK x \in S : m = n - x  BY DEF T
<1>8. \A y \in S : n - y \in T  BY DEF T
<1>9. \A y \in S : x >= y  BY <1>6, <1>7, <1>8
<1> QED  BY <1>7, <1>9 DEF Max

\* A set of natural numbers has its minimum.
LEMMA MinExists ==
  ASSUME NEW S \in SUBSET Nat, S # {}
  PROVE  \E m \in S : \A x \in S : m <= x
<1>1. PICK R : IsWellFoundedOn(R, Nat) /\ \A y, z \in Nat : y < z => <<y, z>> \in R
  BY NatOrder
<1>2. IsWellFoundedOn(R, Nat) /\ S \subseteq Nat  BY <1>1
<1>3. \E m \in S : \A y \in S : ~ (<<y, m>> \in R)  BY <1>2, WFMin, Zenon
<1>4. PICK m \in S : \A y \in S : ~(y < m)  BY <1>1, <1>3
<1> QED  BY <1>4

\* The two files.
LEMMA FileOfFacts ==
  ASSUME NEW s \in Nat
  PROVE  FileOf(s) \in {0, 1} /\ 1 - FileOf(s) \in {0, 1}
BY DEF FileOf

\* The initial values have their types.
LEMMA NothingFacts ==
  /\ NoHeader \in Header /\ FirstHeader \in Header
  /\ NoTx \in Transaction /\ NoEntry \in PageEntry
  /\ NoPub \in View /\ [min |-> 1, max |-> 0] \in View
  /\ Junk \in FrameBytes
BY PageAssumption DEF NoHeader, FirstHeader, Header, Salt2, NoTx, NoEntry, Transaction, PageEntry,
   NoPub, View, Junk, FrameBytes

\* Appending a frame keeps the types of the files.
LEMMA WriteFrameOK ==
  ASSUME FilesOK, NEW f \in {0, 1}, NEW i \in Nat, NEW frame \in FrameBytes,
         WriteFrame(f, i, frame)
  PROVE  frames' \in [{0, 1} -> Seq(FrameBytes)] /\ size' \in [{0, 1} -> Nat]
<1> DEFINE tail == [j \in 1 .. i + 1 |-> IF j = i + 1 THEN frame
                                         ELSE IF j <= Len(frames[f]) THEN frames[f][j] ELSE Junk]
<1>1. \A j \in 1 .. i + 1 : tail[j] \in FrameBytes
  BY NothingFacts DEF FilesOK
<1>2. tail \in Seq(FrameBytes)
  BY <1>1
<1>3. frames' = [frames EXCEPT ![f] = tail]  BY DEF WriteFrame
<1> HIDE DEF tail
<1>4. frames' \in [{0, 1} -> Seq(FrameBytes)]  BY <1>2, <1>3 DEF FilesOK
<1>5. size' \in [{0, 1} -> Nat]  BY DEF WriteFrame, FilesOK
<1> QED  BY <1>4, <1>5

\* Writing a header keeps the types of the files.
LEMMA WriteHeaderOK ==
  ASSUME FilesOK, NEW h \in Header, WriteHeader(h)
  PROVE  hdr' \in [{0, 1} -> Header] /\ size' \in [{0, 1} -> Nat]
<1>1. FileOf(h.salt1) \in {0, 1}  BY FileOfFacts DEF Header
<1> QED  BY <1>1 DEF WriteHeader, FilesOK

\* A message reaches the channels.
LEMMA BroadcastOK ==
  ASSUME MailOK, NEW c \in Conn, NEW m \in Message, Broadcast(c, m)
  PROVE  chan' \in [Conn -> Seq(Message)]
BY DEF MailOK, Broadcast

\* A view that is advertised is not taken for none.
LEMMA NoPubFacts ==
  /\ [min |-> 1, max |-> 0] # NoPub
  /\ \A n, m \in Nat : n >= 1 => [min |-> n, max |-> m] # NoPub
BY DEF NoPub

-----------------------------------------------------------------------------
(* What the longer actions do to the view of the connection *)

\* A connection starts right before the first transaction of the header.
LEMMA OpenLoadEffect ==
  ASSUME ViewInv, NEW c \in Conn, OpenLoad(c)
  PROVE  /\ pc[c] = "joining" /\ pc' = [pc EXCEPT ![c] = "advance"]
         /\ \E n \in Nat : /\ txId' = [txId EXCEPT ![c] = n]
                           /\ lo' = [lo EXCEPT ![c] = n + 1]
         /\ active' \in [Conn -> Header] /\ off' = [off EXCEPT ![c] = 0]
         /\ UNCHANGED <<files, db, locks, chan, ghosts, iso, txs, sized, pend, cur, due, ck>>
<1>1. /\ hdr \in [{0, 1} -> Header] /\ active \in [Conn -> Header]
      /\ txId \in [Conn -> Nat] /\ lo \in [Conn -> Nat] /\ pc \in [Conn -> Tasks]
  BY DEF ViewInv, TypeOK, FilesOK, ViewOK, TasksOK
<1>2. HeadersStart  BY DEF ViewInv
<1>3. PICK f \in {0, 1} : HeaderOf(f) # NoHeader /\ StartFrom(c, hdr[f])
  BY DEF OpenLoad
<1>4. hdr[f] # NoHeader /\ hdr[f].nextTxId - 1 \in Nat
  BY <1>1, <1>2, <1>3 DEF HeaderOf, HeadersStart, Header
<1> DEFINE n == hdr[f].nextTxId - 1
<1>5. /\ txId' = [txId EXCEPT ![c] = n] /\ lo' = [lo EXCEPT ![c] = n + 1]
      /\ active' = [active EXCEPT ![c] = hdr[f]] /\ off' = [off EXCEPT ![c] = 0]
      /\ pc' = [pc EXCEPT ![c] = "advance"] /\ UNCHANGED <<txs, sized>>
  <2>1. hdr[f].nextTxId \in Nat  BY <1>1 DEF Header
  <2>2. n + 1 = hdr[f].nextTxId  BY <2>1
  <2> HIDE DEF n
  <2>3. txId' = [txId EXCEPT ![c] = n]  BY <1>3 DEF StartFrom, n
  <2> QED  BY <1>3, <2>2, <2>3 DEF StartFrom, Goto
<1>6. active' \in [Conn -> Header]  BY <1>1, <1>5
<1>7. /\ pc[c] = "joining"
      /\ UNCHANGED <<files, db, locks, chan, ghosts, iso, pend, cur, due, ck>>
  BY DEF OpenLoad
<1> HIDE DEF n
<1>8. n \in Nat  BY <1>4 DEF n
<1> QED  BY <1>5, <1>6, <1>7, <1>8

\* A transaction that is skipped moves the view by one, or the task ends.
LEMMA SkipTxEffect ==
  ASSUME ViewInv, NEW c \in Conn, SkipTx(c)
  PROVE  /\ pc[c] \in {"catchUp", "advance"}
         /\ \/ /\ pc' = pc
               /\ txId' = [txId EXCEPT ![c] = txId[c] + 1]
               /\ active' \in [Conn -> Header]
               /\ \E tx \in Transaction : tx.id = txId[c] + 1 /\ Activate(c, tx)
            \/ pc' = [pc EXCEPT ![c] = "fault"] /\ UNCHANGED view
         /\ UNCHANGED <<files, db, locks, chan, ghosts, iso, lo, cur, ck>>
         /\ pend' \in [Conn -> SUBSET Transaction]
         /\ \A d \in Conn \ {c} : txs'[d] = txs[d]
<1>1. /\ hdr \in [{0, 1} -> Header] /\ active \in [Conn -> Header]
      /\ txId \in [Conn -> Nat] /\ pc \in [Conn -> Tasks] /\ DOMAIN txs = Conn
      /\ pend \in [Conn -> SUBSET Transaction]
  BY DEF ViewInv, TypeOK, FilesOK, ViewOK, TasksOK, MailOK
<1>2. PICK tx \in Next1(c) :
        /\ pend' = [pend EXCEPT ![c] = @ \ {tx}]
        /\ IF tx.salt1 = active[c].salt1
             THEN Activate(c, tx) /\ Goto(c, pc[c]) /\ UNCHANGED active
             ELSE IF Follows(active[c], HeaderOf(Inactive(c)))
             THEN /\ active' = [active EXCEPT ![c] = hdr[Inactive(c)]]
                  /\ Activate(c, tx) /\ Goto(c, pc[c])
             ELSE Goto(c, "fault") /\ UNCHANGED view
  BY DEF SkipTx
<1>3. tx \in Transaction /\ tx.id = txId[c] + 1  BY <1>1, <1>2 DEF Next1
<1>4. Inactive(c) \in {0, 1}  BY <1>1, FileOfFacts DEF Inactive, Header
<1>5. \/ Activate(c, tx) /\ pc' = pc /\ active' \in [Conn -> Header]
      \/ pc' = [pc EXCEPT ![c] = "fault"] /\ UNCHANGED view
  BY <1>1, <1>2, <1>4 DEF Goto
<1>6. Activate(c, tx) => txId' = [txId EXCEPT ![c] = txId[c] + 1] /\ UNCHANGED lo
  BY <1>3 DEF Activate
<1>7. pend' \in [Conn -> SUBSET Transaction]  BY <1>1, <1>2
<1>8. pc[c] \in {"catchUp", "advance"}  BY DEF SkipTx, Advancing
<1>9. UNCHANGED <<files, db, locks, chan, ghosts, iso, cur, ck>>  BY DEF SkipTx
<1>10. UNCHANGED lo  BY <1>5, <1>6 DEF view
<1>11. \A d \in Conn \ {c} : txs'[d] = txs[d]
  <2>1. ASSUME Activate(c, tx), NEW d \in Conn \ {c}
        PROVE  txs'[d] = txs[d]
    BY <1>1, <2>1 DEF Activate
  <2> QED  BY <1>5, <2>1 DEF view
<1> QED  BY <1>3, <1>5, <1>6, <1>7, <1>8, <1>9, <1>10, <1>11

\* A checkpoint that is absorbed only raises the lowest key of the map.
LEMMA AbsorbEffect ==
  ASSUME ViewInv, NEW c \in Conn, NEW id, Absorb(c, id)
  PROVE  \/ UNCHANGED <<lo, txs>>
         \/ /\ id \in lo[c] .. txId[c] /\ lo' = [lo EXCEPT ![c] = id + 1]
            /\ txs' = [txs EXCEPT ![c] = [i \in id + 1 .. txId[c] |-> txs[c][i]]]
BY DEF Absorb

\* A message starts a task, or changes the map, or is dropped.
LEMMA ReceiveEffect ==
  ASSUME ViewInv, NEW c \in Conn, Receive(c)
  PROVE  /\ pc[c] = "ready" /\ chan[c] # <<>> /\ chan' = [chan EXCEPT ![c] = Tail(@)]
         /\ pend' \in [Conn -> SUBSET Transaction]
         /\ \/ /\ UNCHANGED <<lo, txs>>
               /\ pc' = pc \/ (iso[c] = "none" /\ pc' = [pc EXCEPT ![c] = "catchUp"])
            \/ /\ pc' = pc
               /\ \E id \in lo[c] .. txId[c] :
                    /\ lo' = [lo EXCEPT ![c] = id + 1]
                    /\ txs' = [txs EXCEPT ![c] = [i \in id + 1 .. txId[c] |-> txs[c][i]]]
         /\ UNCHANGED <<files, db, locks, ghosts, iso, txId, active, off, sized, cur, due, ck>>
<1>1. pc \in [Conn -> Tasks]  BY DEF ViewInv, TypeOK, TasksOK
<1>2. chan \in [Conn -> Seq(Message)]  BY DEF ViewInv, TypeOK, MailOK
<1>3. pend \in [Conn -> SUBSET Transaction]  BY DEF ViewInv, TypeOK, MailOK
<1>4. pc[c] = "ready" /\ chan[c] # <<>> /\ chan' = [chan EXCEPT ![c] = Tail(@)]
  BY DEF Receive, Ready
<1>5. UNCHANGED <<files, db, locks, ghosts, iso, cur, due, ck>>  BY DEF Receive
<1> DEFINE m == Head(chan[c])
<1>6. m \in Message
  <2>1. chan[c] \in Seq(Message)  BY <1>2
  <2> QED  BY <2>1, <1>4
<1>7. m.tx \in Transaction  BY <1>6 DEF Message
<1>8. \/ /\ m.type = "tx" /\ m.tx.id > txId[c]
         /\ pend' = [pend EXCEPT ![c] = {tx \in @ : tx.id # m.tx.id} \cup {m.tx}]
         /\ Goto(c, OnTx(c)) /\ UNCHANGED view
      \/ UNCHANGED <<pc, view, pend>>
      \/ Absorb(c, m.id) /\ UNCHANGED <<pc, txId, active, off, sized, pend>>
  BY DEF Receive
<1> HIDE DEF m
<1>9. CASE /\ pend' = [pend EXCEPT ![c] = {tx \in @ : tx.id # m.tx.id} \cup {m.tx}]
           /\ Goto(c, OnTx(c)) /\ UNCHANGED view
  <2>1. pend' \in [Conn -> SUBSET Transaction]  BY <1>3, <1>7, <1>9
  <2>2. pc' = pc \/ (iso[c] = "none" /\ pc' = [pc EXCEPT ![c] = "catchUp"])
    BY <1>1, <1>4, <1>9 DEF Goto, OnTx
  <2> QED  BY <1>4, <1>5, <1>9, <2>1, <2>2 DEF view
<1>10. CASE UNCHANGED <<pc, view, pend>>
  BY <1>3, <1>4, <1>5, <1>10 DEF view
<1>11. CASE Absorb(c, m.id) /\ UNCHANGED <<pc, txId, active, off, sized, pend>>
  BY <1>3, <1>4, <1>5, <1>11, AbsorbEffect
<1> QED  BY <1>8, <1>9, <1>10, <1>11

\* A page is copied, or its frame is missing and the task ends.
LEMMA CkptCopyEffect ==
  ASSUME NEW c \in Conn, NEW p \in Page, CkptCopy(c, p)
  PROVE  /\ pc[c] = "copy" /\ p \in ck[c].todo
         /\ \/ pc' = [pc EXCEPT ![c] = "fault"] /\ UNCHANGED <<db, ck>>
            \/ /\ db' = [db EXCEPT ![p] = Fetch(Newest(c, p, ck[c].id))]
               /\ ck' = [ck EXCEPT ![c].todo = @ \ {p}]
               /\ UNCHANGED pc
         /\ UNCHANGED <<files, locks, chan, ghosts, iso, view, pend, cur, due>>
<1> DEFINE v == Fetch(Newest(c, p, ck[c].id))
<1>1. \/ Goto(c, "fault") /\ UNCHANGED <<db, ck>>
      \/ /\ db' = [db EXCEPT ![p] = v]
         /\ ck' = [ck EXCEPT ![c].todo = @ \ {p}]
         /\ UNCHANGED pc
  BY DEF CkptCopy
<1> HIDE DEF v
<1>2. /\ pc[c] = "copy" /\ p \in ck[c].todo
      /\ UNCHANGED <<files, locks, chan, ghosts, iso, view, pend, cur, due>>
  BY DEF CkptCopy
<1> QED  BY <1>1, <1>2 DEF Goto, v

\* The next transaction of the log moves the view by one.
LEMMA ReadTxEffect ==
  ASSUME NEW c \in Conn, ReadTx(c), DOMAIN txs = Conn
  PROVE  /\ pc[c] \in {"catchUp", "advance"}
         /\ txId' = [txId EXCEPT ![c] = txId[c] + 1]
         /\ \A d \in Conn \ {c} : txs'[d] = txs[d]
         /\ UNCHANGED <<files, db, locks, chan, ghosts, pc, iso, lo, active, cur, ck>>
<1>1. Activate(c, TxRead(c)) /\ pc[c] \in {"catchUp", "advance"}
  BY DEF ReadTx, MustRead, Advancing
<1>2. UNCHANGED <<files, db, locks, chan, ghosts, pc, iso, active, cur, ck>>  BY DEF ReadTx
<1>3. TxRead(c).id = txId[c] + 1  BY DEF TxRead
<1> QED  BY <1>1, <1>2, <1>3 DEF Activate

\* The end of the log, or of the file, leaves the map of transactions alone.
LEMMA FollowEffect ==
  ASSUME NEW c \in Conn, FollowEnd(c) \/ AtEnd(c) \/ CaughtUp(c)
  PROVE  /\ pc[c] \in {"catchUp", "advance"}
         /\ \E t \in {pc[c], "ready", "fault"} : pc' = [pc EXCEPT ![c] = t] \/ UNCHANGED pc
         /\ UNCHANGED <<files, db, locks, chan, ghosts, iso, txId, lo, txs, cur, ck>>
<1>1. pc[c] \in {"catchUp", "advance"}
  BY DEF FollowEnd, AtEnd, CaughtUp, MustRead, Advancing
<1>2. CASE FollowEnd(c)  BY <1>1, <1>2 DEF FollowEnd
<1>3. CASE AtEnd(c)  BY <1>1, <1>3 DEF AtEnd, Goto, view
<1>4. CASE CaughtUp(c)  BY <1>1, <1>4 DEF CaughtUp, Goto, view
<1> QED  BY <1>2, <1>3, <1>4

\* A commit moves the view of the writer by one.
LEMMA CommitEffect ==
  ASSUME ViewInv, NEW c \in Conn, Commit(c)
  PROVE  /\ pc[c] = "ready" /\ iso[c] = "write" /\ ~ck[c].full /\ cur[c] # NoTx
         /\ pc' = [pc EXCEPT ![c] = "publish"]
         /\ cur' = [cur EXCEPT ![c] = NoTx]
         /\ txId' = [txId EXCEPT ![c] = txId[c] + 1]
         /\ \A d \in Conn \ {c} : txs'[d] = txs[d]
         /\ UNCHANGED <<hdr, db, locks, chan, iso, lo, active, ck>>
<1>1. /\ pc[c] = "ready" /\ iso[c] = "write" /\ ~ck[c].full /\ cur[c] # NoTx
      /\ pc' = [pc EXCEPT ![c] = "publish"]
      /\ cur' = [cur EXCEPT ![c] = NoTx]
  BY DEF Commit, MayWrite, Usable, Ready, Goto
<1>2. UNCHANGED <<hdr, db, locks, chan, iso, active, ck>>  BY DEF Commit
<1>3. cur[c].id = txId[c] + 1  BY <1>1 DEF ViewInv, WritersFrozen
<1>4. Activate(c, [cur[c] EXCEPT !.end = @ + 1])  BY DEF Commit
<1>5. cur[c] \in Transaction /\ DOMAIN txs = Conn
  BY DEF ViewInv, TypeOK, TasksOK, ViewOK
<1>6. [cur[c] EXCEPT !.end = @ + 1].id = cur[c].id  BY <1>5 DEF Transaction
<1> QED  BY <1>1, <1>2, <1>3, <1>4, <1>5, <1>6 DEF Activate

\* A checkpoint that has copied its pages raises the lowest key of the map.
LEMMA CkptPostEffect ==
  ASSUME ViewInv, NEW c \in Conn, CkptPost(c)
  PROVE  /\ pc[c] = "copy" /\ ck[c].todo = {}
         /\ pc' = [pc EXCEPT ![c] = "ready"]
         /\ ck' = [ck EXCEPT ![c] = [@ EXCEPT !.phase = "wait", !.polled = {}]]
         /\ \A d \in Conn \ {c} : txs'[d] = txs[d] /\ lo'[d] = lo[d]
         /\ lo' = lo \/ \E id \in lo[c] .. txId[c] : lo' = [lo EXCEPT ![c] = id + 1]
         /\ UNCHANGED <<files, db, locks, ghosts, iso, txId, active, cur>>
<1>1. DOMAIN txs = Conn /\ DOMAIN lo = Conn  BY DEF ViewInv, TypeOK, ViewOK
<1>2. Absorb(c, ck[c].id)  BY DEF CkptPost
<1>3. \/ UNCHANGED <<lo, txs>>
      \/ \E id \in lo[c] .. txId[c] :
           /\ lo' = [lo EXCEPT ![c] = id + 1]
           /\ txs' = [txs EXCEPT ![c] = [i \in id + 1 .. txId[c] |-> txs[c][i]]]
  BY <1>2, AbsorbEffect
<1>4. \A d \in Conn \ {c} : txs'[d] = txs[d] /\ lo'[d] = lo[d]  BY <1>1, <1>3
<1>5. lo' = lo \/ \E id \in lo[c] .. txId[c] : lo' = [lo EXCEPT ![c] = id + 1]  BY <1>3
<1> QED  BY <1>4, <1>5 DEF CkptPost, Goto

\* A connection that closes or is terminated leaves its view where it was.
LEMMA DepartEffect ==
  ASSUME NEW c \in Conn, Close(c) \/ Crash(c)
  PROVE  /\ pc[c] \notin {"closed", "gone"}
         /\ pc' = [pc EXCEPT ![c] = "gone"] /\ iso' = [iso EXCEPT ![c] = "none"]
         /\ pub' = [pub EXCEPT ![c] = NoPub] /\ ck' = [ck EXCEPT ![c] = NoCkpt]
         /\ cur' = [cur EXCEPT ![c] = NoTx] /\ txs' = [txs EXCEPT ![c] = <<>>]
         /\ UNCHANGED <<files, db, ghosts, txId, active, off, lo, sized>>
<1>1. Depart(c) /\ pc[c] \notin {"closed", "gone"}  BY DEF Close, Crash, Ready
<1> QED  BY <1>1 DEF Depart, Goto, SetIso

\* A checkpoint goes on.
LEMMA CheckpointUpdates ==
  ASSUME NEW k \in Checkpoint, NEW ph \in Phases, NEW n \in Nat, NEW S \in SUBSET Conn
  PROVE  /\ [k EXCEPT !.phase = ph, !.id = n] \in Checkpoint
         /\ [k EXCEPT !.phase = ph, !.polled = S] \in Checkpoint
BY DEF Checkpoint

\* A frame has its type.
LEMMA FrameOK ==
  ASSUME NEW h \in Header, NEW type \in {"page", "commit", "end"}, NEW p \in Page, NEW v \in Int
  PROVE  Frame(h, type, p, v) \in FrameBytes
<1>1. <<h.salt1, h.salt2>> \in Int \X Salt2  BY DEF Header
<1> QED  BY <1>1 DEF Frame, FrameBytes

\* A page that is added to a transaction.
LEMMA TransactionUpdates ==
  ASSUME NEW tx \in Transaction, NEW p \in Page, NEW e \in PageEntry
  PROVE  /\ [tx EXCEPT !.pages[p] = e, !.end = @ + 1] \in Transaction
         /\ [tx EXCEPT !.end = @ + 1] \in Transaction
<1>1. tx.end + 1 \in Nat /\ [tx.pages EXCEPT ![p] = e] \in [Page -> PageEntry]
  BY DEF Transaction
<1>2. [tx EXCEPT !.pages = [tx.pages EXCEPT ![p] = e], !.end = tx.end + 1] \in Transaction
  BY <1>1 DEF Transaction
<1>3. [tx EXCEPT !.end = tx.end + 1] \in Transaction
  BY <1>1 DEF Transaction
<1> QED  BY <1>2, <1>3

LEMMA NewTransaction ==
  ASSUME NEW n \in Nat, NEW s \in Nat, NEW i \in Nat
  PROVE  /\ [NoTx EXCEPT !.id = n, !.salt1 = s, !.end = i] \in Transaction
         /\ [NoTx EXCEPT !.id = n, !.salt1 = s, !.end = i].id = n
BY NothingFacts DEF Transaction

\* What write() does to the files and to the transaction.
LEMMA WritePageEffect ==
  ASSUME ViewInv, NEW c \in Conn, NEW p \in Page, WritePage(c, p)
  PROVE  /\ attempts' \in Nat
         /\ \E tx \in Transaction :
              /\ WriteFrame(FileOf(active[c].salt1), tx.end, Frame(active[c], "page", p, attempts'))
              /\ tx.id = IF cur[c] = NoTx THEN txId[c] + 1 ELSE cur[c].id
              /\ \E new \in Transaction : new.id = tx.id /\ cur' = [cur EXCEPT ![c] = new]
<1>1. /\ cur \in [Conn -> Transaction] /\ attempts \in Nat
      /\ txId \in [Conn -> Nat] /\ off \in [Conn -> Nat] /\ active \in [Conn -> Header]
  BY DEF ViewInv, TypeOK, TasksOK, ViewOK, HistoryOK
<1> DEFINE h == active[c]
           fresh == [NoTx EXCEPT !.id = txId[c] + 1, !.salt1 = h.salt1, !.end = off[c]]
           tx == IF cur[c] = NoTx THEN fresh ELSE cur[c]
           v == IF cur[c] = NoTx THEN attempts + 1 ELSE attempts
           e == [salt1 |-> h.salt1, at |-> tx.end + 1, cached |-> IF p = Page1 THEN v ELSE 0]
           new == [tx EXCEPT !.pages[p] = e, !.end = @ + 1]
<1>2. /\ attempts' = v
      /\ WriteFrame(FileOf(h.salt1), tx.end, Frame(h, "page", p, v))
      /\ cur' = [cur EXCEPT ![c] = new]
  BY DEF WritePage
<1>3. h.salt1 \in Nat  BY <1>1 DEF Header
<1>4. fresh \in Transaction /\ fresh.id = txId[c] + 1
  <2>1. txId[c] + 1 \in Nat /\ off[c] \in Nat  BY <1>1
  <2> QED  BY <1>3, <2>1, NewTransaction
<1> HIDE DEF fresh
<1>5. /\ tx \in Transaction /\ v \in Nat
      /\ tx.id = IF cur[c] = NoTx THEN txId[c] + 1 ELSE cur[c].id
  BY <1>1, <1>4
<1> HIDE DEF tx, v
<1>6. e \in PageEntry
  <2>1. tx.end \in Nat  BY <1>5 DEF Transaction
  <2> QED  BY <1>3, <1>5, <2>1 DEF PageEntry
<1> HIDE DEF e
<1>7. new \in Transaction  BY <1>5, <1>6, TransactionUpdates
<1>8. new.id = tx.id  BY <1>5 DEF Transaction
<1> QED  BY <1>2, <1>5, <1>7, <1>8

\* The page a checkpoint copies is read from an entry of the map.
LEMMA NewestOK ==
  ASSUME ViewInv, NEW c \in Conn, NEW p \in Page, CkptCopy(c, p)
  PROVE  Newest(c, p, ck[c].id) \in PageEntry
<1>1. /\ txId \in [Conn -> Nat] /\ lo \in [Conn -> Nat]
      /\ \A d \in Conn : txs[d] \in [Keys(d) -> Transaction]
  BY DEF ViewInv, TypeOK, ViewOK
<1>2. ck \in [Conn -> Checkpoint]  BY DEF ViewInv, TypeOK, TasksOK
<1>3. pc[c] = "copy" /\ p \in ck[c].todo  BY CkptCopyEffect
<1>4. /\ ck[c].id <= txId[c]
      /\ p \in UNION {PagesOf(txs[c][i]) : i \in lo[c] .. ck[c].id}
  BY <1>3 DEF ViewInv, CheckpointsWithinView
<1> DEFINE S == WritersUpTo(c, p, ck[c].id)
<1>5. S # {} /\ S \subseteq lo[c] .. ck[c].id  BY <1>4 DEF WritersUpTo
<1>6. ck[c].id \in Nat /\ lo[c] \in Nat /\ txId[c] \in Nat  BY <1>1, <1>2 DEF Checkpoint
<1> HIDE DEF S
<1>7. \A i \in lo[c] .. ck[c].id : i \in Nat /\ i <= ck[c].id /\ i \in lo[c] .. txId[c]
  BY <1>4, <1>6
<1>8. Max(S) \in S
  <2>1. S \in SUBSET Nat /\ \A i \in S : i <= ck[c].id  BY <1>5, <1>7
  <2> QED  BY <1>5, <1>6, <2>1, MaxBounded
<1>9. Max(S) \in Keys(c)
  <2>1. Keys(c) = lo[c] .. txId[c]  BY <1>3 DEF Keys
  <2> QED  BY <1>5, <1>7, <1>8, <2>1
<1>10. txs[c][Max(S)] \in Transaction  BY <1>1, <1>9
<1> QED  BY <1>10 DEF Newest, Transaction, S

\* What is fetched is a value.
LEMMA FetchOK ==
  ASSUME FilesOK, NEW e \in PageEntry
  PROVE  Fetch(e) \in Int
<1>1. e.salt1 \in Nat /\ e.cached \in Nat /\ e.at \in Nat  BY DEF PageEntry
<1>2. PICK f \in {0, 1} : f = FileOf(e.salt1)  BY <1>1, FileOfFacts
<1>3. frames[f] \in Seq(FrameBytes) /\ size[f] \in Nat  BY DEF FilesOK
<1>4. e.at \in 1 .. Extent(f) => e.at \in 1 .. Len(frames[f])
  <2>1. Len(frames[f]) \in Nat  BY <1>3
  <2> QED  BY <1>1, <1>3, <2>1 DEF Extent
<1>5. e.at \in 1 .. Extent(f) => frames[f][e.at] \in FrameBytes  BY <1>3, <1>4
<1>6. e.at \in 1 .. Extent(f) => frames[f][e.at].val \in Int  BY <1>5 DEF FrameBytes
<1> QED  BY <1>1, <1>2, <1>6 DEF Fetch

\* The frames within the size of a file.
LEMMA ExtentFacts ==
  ASSUME FilesOK, NEW f \in {0, 1}
  PROVE  Extent(f) \in Int
<1>1. frames[f] \in Seq(FrameBytes) /\ size[f] \in Nat  BY DEF FilesOK
<1>2. Len(frames[f]) \in Nat  BY <1>1
<1> QED  BY <1>1, <1>2 DEF Extent

\* The run of page frames stops, at the latest behind the last frame.
LEMMA StopOfFacts ==
  ASSUME ViewInv, NEW c \in Conn, TxAhead(c)
  PROVE  StopOf(c) \in Nat
<1> DEFINE h == active[c]
           n == Extent(FileOf(h.salt1))
           last == n + 1
<1>1. off[c] \in Nat /\ h.salt1 \in Nat /\ FilesOK
  BY DEF ViewInv, TypeOK, ViewOK, Header
<1>2. n \in Int  BY <1>1, FileOfFacts, ExtentFacts
<1>3. off[c] <= n  BY DEF TxAhead, InRange
<1>4. ~PageAt(h, last)
  <2>1. last \notin 1 .. n  BY <1>2
  <2> QED  BY <2>1 DEF PageAt, Readable
<1> HIDE DEF h, n
<1> DEFINE S == {i \in off[c] + 1 .. last : ~PageAt(h, i)}
<1>5. S \in SUBSET Nat /\ S # {}
  <2>1. last \in S  BY <1>1, <1>2, <1>3, <1>4
  <2>2. off[c] + 1 .. last \subseteq Nat  BY <1>1, <1>2
  <2> QED  BY <2>1, <2>2
<1>6. PICK m \in S : \A x \in S : m <= x  BY <1>5, MinExists
<1>7. \A j \in off[c] + 1 .. m - 1 : PageAt(h, j)  BY <1>1, <1>2, <1>6
<1>8. /\ m \in off[c] + 1 .. last
      /\ ~PageAt(h, m) /\ \A j \in off[c] + 1 .. m - 1 : PageAt(h, j)
  BY <1>6, <1>7
<1>9. StopOf(c) \in off[c] + 1 .. last  BY <1>8, Zenon DEF StopOf, h, n
<1> QED  BY <1>1, <1>2, <1>9

\* The transaction that was read is the next one.
LEMMA TxReadOK ==
  ASSUME ViewInv, NEW c \in Conn, TxAhead(c)
  PROVE  TxRead(c) \in Transaction /\ TxRead(c).id = txId[c] + 1
<1> DEFINE h == active[c]
           at(p) == {j \in off[c] + 1 .. StopOf(c) - 1 : frames[FileOf(h.salt1)][j].page = p}
           pages == [p \in Page |-> IF at(p) = {} THEN NoEntry
                                    ELSE [salt1 |-> h.salt1, at |-> Max(at(p)), cached |-> 0]]
<1>1. off[c] \in Nat /\ txId[c] \in Nat /\ h.salt1 \in Nat
  BY DEF ViewInv, TypeOK, ViewOK, Header
<1>2. StopOf(c) \in Nat  BY StopOfFacts
<1>3. ASSUME NEW p \in Page, at(p) # {}
      PROVE  Max(at(p)) \in Nat
  <2>1. \A j \in off[c] + 1 .. StopOf(c) - 1 : j \in Nat /\ j <= StopOf(c)  BY <1>1, <1>2
  <2>2. at(p) \in SUBSET Nat /\ \A j \in at(p) : j <= StopOf(c)  BY <2>1
  <2> HIDE DEF at
  <2>3. Max(at(p)) \in at(p)  BY <1>2, <1>3, <2>2, MaxBounded
  <2> QED  BY <2>2, <2>3
<1>4. TxRead(c) = [id |-> txId[c] + 1, pages |-> pages, salt1 |-> h.salt1, end |-> StopOf(c)]
  BY DEF TxRead
<1> HIDE DEF at, h
<1>5. pages \in [Page -> PageEntry]
  <2>1. ASSUME NEW p \in Page, at(p) # {}
        PROVE  [salt1 |-> h.salt1, at |-> Max(at(p)), cached |-> 0] \in PageEntry
    BY <1>1, <1>3, <2>1 DEF PageEntry
  <2> QED  BY <2>1, NothingFacts
<1> HIDE DEF pages
<1> QED  BY <1>1, <1>2, <1>4, <1>5 DEF Transaction

\* The map of transactions, typed.
TxsOK == DOMAIN txs = Conn /\ \A c \in Conn : txs[c] \in [Keys(c) -> Transaction]

LEMMA ActivateOK ==
  ASSUME ViewInv, NEW c \in Conn, NEW tx \in Transaction, tx.id = txId[c] + 1, Activate(c, tx),
         pc[c] # "gone", NEW t \in Tasks \ {"gone"}, pc' = [pc EXCEPT ![c] = t]
  PROVE  TxsOK'
<1>1. /\ txId \in [Conn -> Nat] /\ lo \in [Conn -> Nat] /\ pc \in [Conn -> Tasks]
      /\ DOMAIN txs = Conn /\ \A d \in Conn : txs[d] \in [Keys(d) -> Transaction]
  BY DEF ViewInv, TypeOK, ViewOK, TasksOK
<1>2. lo[c] <= txId[c] + 1  BY DEF ViewInv, ViewsContiguous
<1> DEFINE m == [i \in lo[c] .. tx.id |-> IF i = tx.id THEN tx ELSE txs[c][i]]
<1>3. txs' = [txs EXCEPT ![c] = m] /\ txId' = [txId EXCEPT ![c] = tx.id] /\ lo' = lo
  BY DEF Activate
<1>4. m \in [lo[c] .. tx.id -> Transaction]
  <2>1. txs[c] \in [lo[c] .. txId[c] -> Transaction]  BY <1>1 DEF Keys
  <2>2. \A i \in lo[c] .. tx.id : i = tx.id \/ i \in lo[c] .. txId[c]  BY <1>1
  <2> QED  BY <2>1, <2>2
<1> HIDE DEF m
<1>5. Keys(c)' = lo[c] .. tx.id  BY <1>1, <1>3 DEF Keys
<1>6. \A d \in Conn \ {c} : Keys(d)' = Keys(d)  BY <1>1, <1>3 DEF Keys
<1> QED  BY <1>1, <1>3, <1>4, <1>5, <1>6 DEF TxsOK

LEMMA AbsorbOK ==
  ASSUME ViewInv, NEW c \in Conn, NEW id \in lo[c] .. txId[c], pc[c] # "gone",
         lo' = [lo EXCEPT ![c] = id + 1], txId' = txId,
         txs' = [txs EXCEPT ![c] = [i \in id + 1 .. txId[c] |-> txs[c][i]]],
         NEW t \in Tasks \ {"gone"}, pc' = [pc EXCEPT ![c] = t]
  PROVE  TxsOK'
<1>1. /\ txId \in [Conn -> Nat] /\ lo \in [Conn -> Nat] /\ pc \in [Conn -> Tasks]
      /\ DOMAIN txs = Conn /\ \A d \in Conn : txs[d] \in [Keys(d) -> Transaction]
  BY DEF ViewInv, TypeOK, ViewOK, TasksOK
<1> DEFINE m == [i \in id + 1 .. txId[c] |-> txs[c][i]]
<1>2. m \in [id + 1 .. txId[c] -> Transaction]
  <2>1. txs[c] \in [lo[c] .. txId[c] -> Transaction]  BY <1>1 DEF Keys
  <2>2. \A i \in id + 1 .. txId[c] : i \in lo[c] .. txId[c]  BY <1>1
  <2> QED  BY <2>1, <2>2
<1>3. txs' = [txs EXCEPT ![c] = m]  OBVIOUS
<1> HIDE DEF m
<1>4. Keys(c)' = id + 1 .. txId[c]  BY <1>1 DEF Keys
<1>5. \A d \in Conn \ {c} : Keys(d)' = Keys(d)  BY <1>1 DEF Keys
<1> QED  BY <1>1, <1>2, <1>3, <1>4, <1>5 DEF TxsOK

\* A task that leaves the view alone.
LEMMA KeptOK ==
  ASSUME ViewInv, UNCHANGED <<txId, lo, txs>>,
         \A d \in Conn : (pc'[d] = "gone") <=> (pc[d] = "gone")
  PROVE  TxsOK'
<1>1. TxsOK  BY DEF ViewInv, TypeOK, ViewOK, TxsOK
<1>2. \A d \in Conn : Keys(d)' = Keys(d)  BY DEF Keys
<1> QED  BY <1>1, <1>2 DEF TxsOK

-----------------------------------------------------------------------------
(* Types: a lemma for each part of TypeOK *)

\* The files keep their types.
LEMMA FilesOKStep ==
  ASSUME ViewInv, NEW c \in Conn, Step(c)
  PROVE  FilesOK'
<1>1. FilesOK  BY DEF ViewInv, TypeOK
<1>2. active \in [Conn -> Header] /\ off \in [Conn -> Nat] /\ txId \in [Conn -> Nat]
  BY DEF ViewInv, TypeOK, ViewOK
<1>3. active[c].salt1 \in Nat /\ FileOf(active[c].salt1) \in {0, 1}
  BY <1>2, FileOfFacts DEF Header
<1>4. CASE OpenLock(c) \/ OpenLoad(c) \/ OpenEmpty(c)
  BY <1>1, <1>2, <1>3, <1>4
  DEF FilesOK, files, locks, ghosts, view, OpenLock, OpenLoad, OpenEmpty
<1>5. CASE OpenCreate(c)
  <2>1. PICK s \in {0, 1} : WriteHeader([nextTxId |-> 1, salt1 |-> s, salt2 |-> c])
    BY <1>5 DEF OpenCreate
  <2>2. [nextTxId |-> 1, salt1 |-> s, salt2 |-> c] \in Header  BY DEF Header, Salt2
  <2> QED  BY <1>1, <1>5, <2>1, <2>2, WriteHeaderOK DEF OpenCreate, FilesOK
<1>6. CASE SkipTx(c) \/ ReadTx(c) \/ FollowEnd(c) \/ AtEnd(c) \/ CaughtUp(c)
  BY <1>1, <1>2, <1>3, <1>6
  DEF FilesOK, files, locks, ghosts, view, SkipTx, ReadTx, FollowEnd, AtEnd, CaughtUp
<1>7. CASE BeginRead(c) \/ BeginWrite(c) \/ Upgrade(c) \/ Rejoin(c) \/ Backstop(c)
  BY <1>1, <1>2, <1>3, <1>7
  DEF FilesOK, files, locks, ghosts, view, BeginRead, BeginWrite, Upgrade, Rejoin, Backstop
<1>8. CASE Publish(c)
  BY <1>1, <1>2, <1>3, <1>8
  DEF FilesOK, files, locks, ghosts, view, Publish
<1>9. CASE SwapEnd(c)
  <2>1. Frame(active[c], "end", Page1, 0) \in FrameBytes  BY <1>2, FrameOK, PageAssumption
  <2>2. WriteFrame(FileOf(active[c].salt1), off[c], Frame(active[c], "end", Page1, 0))
    BY <1>9 DEF SwapEnd
  <2>3. off[c] \in Nat  BY <1>2
  <2>4. frames' \in [{0, 1} -> Seq(FrameBytes)] /\ size' \in [{0, 1} -> Nat]
    BY <1>1, <1>3, <2>1, <2>2, <2>3, WriteFrameOK
  <2> QED  BY <1>1, <1>9, <2>4 DEF SwapEnd, FilesOK
<1>10. CASE SwapHeader(c)
  <2> DEFINE h == [nextTxId |-> txId[c] + 1, salt1 |-> active[c].salt1 + 1, salt2 |-> c]
  <2>1. h \in Header  BY <1>2, <1>3 DEF Header, Salt2
  <2>2. WriteHeader(h)  BY <1>10 DEF SwapHeader
  <2> HIDE DEF h
  <2> QED  BY <1>1, <1>10, <2>1, <2>2, WriteHeaderOK DEF SwapHeader, FilesOK
<1>11. CASE \E p \in Page : WritePage(c, p)
  <2> SUFFICES ASSUME NEW p \in Page, WritePage(c, p)
               PROVE  FilesOK'
    BY <1>11
  <2>1. PICK tx \in Transaction :
          WriteFrame(FileOf(active[c].salt1), tx.end, Frame(active[c], "page", p, attempts'))
    BY WritePageEffect
  <2>2. attempts' \in Nat  BY WritePageEffect
  <2>3. Frame(active[c], "page", p, attempts') \in FrameBytes  BY <1>2, <2>2, FrameOK
  <2>4. tx.end \in Nat  BY DEF Transaction
  <2>5. frames' \in [{0, 1} -> Seq(FrameBytes)] /\ size' \in [{0, 1} -> Nat]
    BY <1>1, <1>3, <2>1, <2>3, <2>4, WriteFrameOK
  <2> QED  BY <1>1, <2>5 DEF WritePage, FilesOK
<1>12. CASE Commit(c)
  <2>1. Frame(active[c], "commit", Page1, 0) \in FrameBytes  BY <1>2, FrameOK, PageAssumption
  <2>2. WriteFrame(FileOf(active[c].salt1), cur[c].end, Frame(active[c], "commit", Page1, 0))
    BY <1>12 DEF Commit
  <2>3. cur[c].end \in Nat  BY DEF ViewInv, TypeOK, TasksOK, Transaction
  <2>4. frames' \in [{0, 1} -> Seq(FrameBytes)] /\ size' \in [{0, 1} -> Nat]
    BY <1>1, <1>3, <2>1, <2>2, <2>3, WriteFrameOK
  <2> QED  BY <1>1, <1>12, <2>4 DEF Commit, FilesOK
<1>13. CASE Rollback(c)
  <2>1. off[c] + 1 \in Nat  BY <1>2
  <2> QED  BY <1>1, <1>3, <1>13, <2>1 DEF Rollback, CutTail, FilesOK
<1>14. CASE Receive(c) \/ GrantTxIdLock(c)
  BY <1>1, <1>2, <1>3, <1>14
  DEF FilesOK, files, locks, ghosts, view, Receive, GrantTxIdLock
<1>15. CASE CkptPassive(c) \/ CkptSkipped(c) \/ CkptFull(c) \/ CkptFullLock(c)
  BY <1>1, <1>2, <1>3, <1>15
  DEF FilesOK, files, locks, ghosts, view, CkptPassive, CkptSkipped, CkptFull, CkptFullLock
<1>16. CASE CkptTruncate(c)
  BY <1>1, <1>2, <1>3, <1>16
  DEF FilesOK, files, locks, ghosts, view, CkptTruncate
<1>17. CASE CkptQuery(c) \/ CkptBusy(c) \/ CkptBegin(c) \/ CkptPost(c) \/ CkptWait(c)
  BY <1>1, <1>2, <1>3, <1>17
  DEF FilesOK, files, locks, ghosts, view, CkptQuery, CkptBusy, CkptBegin, CkptPost,
      CkptWait
<1>18. CASE \E p \in Page : CkptCopy(c, p)
  <2> SUFFICES ASSUME NEW p \in Page, CkptCopy(c, p)
               PROVE  FilesOK'
    BY <1>18
  <2>1. Fetch(Newest(c, p, ck[c].id)) \in Int  BY <1>1, NewestOK, FetchOK
  <2>2. db' = db \/ db' = [db EXCEPT ![p] = Fetch(Newest(c, p, ck[c].id))]
    BY CkptCopyEffect
  <2>3. UNCHANGED files  BY CkptCopyEffect
  <2> QED  BY <1>1, <2>1, <2>2, <2>3 DEF FilesOK, files
<1>19. CASE Close(c) \/ Crash(c)
  BY <1>1, <1>2, <1>3, <1>19
  DEF FilesOK, files, locks, ghosts, view, Close, Depart, Crash
<1> QED  BY <1>4, <1>5, <1>6, <1>7, <1>8, <1>9, <1>10, <1>11, <1>12, <1>13, <1>14, <1>15,
  <1>16, <1>17, <1>18, <1>19 DEF Step, Opening, Running, Using, Checkpointing

\* The locks keep their types.
LEMMA LocksOKStep ==
  ASSUME ViewInv, NEW c \in Conn, Step(c)
  PROVE  LocksOK'
<1>1. LocksOK  BY DEF ViewInv, TypeOK
<1>2. NoPub \in View /\ [min |-> 1, max |-> 0] \in View  BY NothingFacts
<1>3. CASE OpenLock(c)
  BY <1>1, <1>2, <1>3
  DEF LocksOK, files, locks, ghosts, view, OpenLock
<1>4. CASE OpenLoad(c) \/ OpenEmpty(c) \/ OpenCreate(c)
  BY <1>1, <1>2, <1>4
  DEF LocksOK, files, locks, ghosts, view, OpenLoad, OpenEmpty, OpenCreate
<1>5. CASE SkipTx(c) \/ ReadTx(c) \/ FollowEnd(c) \/ AtEnd(c) \/ CaughtUp(c)
  BY <1>1, <1>2, <1>5
  DEF LocksOK, files, locks, ghosts, view, SkipTx, ReadTx, FollowEnd, AtEnd, CaughtUp
<1>6. CASE BeginRead(c) \/ BeginWrite(c) \/ Upgrade(c) \/ Rejoin(c) \/ Backstop(c)
  BY <1>1, <1>2, <1>6
  DEF LocksOK, files, locks, ghosts, view, BeginRead, BeginWrite, Upgrade, Rejoin, Backstop
<1>7. CASE SwapEnd(c) \/ SwapHeader(c) \/ (\E p \in Page : WritePage(c, p)) \/ Commit(c) \/
          Publish(c) \/ Rollback(c)
  BY <1>1, <1>2, <1>7
  DEF LocksOK, files, locks, ghosts, view, SwapEnd, SwapHeader, WritePage, Commit, Publish,
      Rollback
<1>8. CASE Receive(c)
  BY <1>1, <1>2, <1>8
  DEF LocksOK, files, locks, ghosts, view, Receive
<1>9. CASE GrantTxIdLock(c)
  <2>1. ViewOf(c) \in View  BY DEF ViewInv, TypeOK, ViewOK, ViewOf, View
  <2> QED  BY <1>1, <1>9, <2>1 DEF GrantTxIdLock, LocksOK
<1>10. CASE CkptPassive(c) \/ CkptSkipped(c) \/ CkptFull(c) \/ CkptFullLock(c)
  BY <1>1, <1>2, <1>10
  DEF LocksOK, files, locks, ghosts, view, CkptPassive, CkptSkipped, CkptFull, CkptFullLock
<1>11. CASE CkptQuery(c) \/ CkptBusy(c) \/ CkptBegin(c) \/
          (\E p \in Page : CkptCopy(c, p)) \/ CkptPost(c) \/ CkptWait(c)
  BY <1>1, <1>2, <1>11
  DEF LocksOK, files, locks, ghosts, view, CkptQuery, CkptBusy, CkptBegin, CkptCopy,
      CkptPost, CkptWait
<1>12. CASE CkptTruncate(c)
  BY <1>1, <1>2, <1>12
  DEF LocksOK, files, locks, ghosts, view, CkptTruncate
<1>13. CASE Close(c)
  BY <1>1, <1>2, <1>13
  DEF LocksOK, files, locks, ghosts, view, Close, Depart
<1>14. CASE Crash(c)
  BY <1>1, <1>2, <1>14
  DEF LocksOK, files, locks, ghosts, view, Crash, Depart
<1> QED  BY <1>3, <1>4, <1>5, <1>6, <1>7, <1>8, <1>9, <1>10, <1>11, <1>12, <1>13, <1>14 DEF Step, Opening, Running, Using, Checkpointing

\* The messages keep their types.
LEMMA MailOKStep ==
  ASSUME ViewInv, NEW c \in Conn, Step(c)
  PROVE  MailOK'
<1>1. MailOK  BY DEF ViewInv, TypeOK
<1>2. CASE OpenLock(c) \/ OpenLoad(c) \/ OpenEmpty(c) \/ OpenCreate(c)
  BY <1>1, <1>2
  DEF MailOK, files, locks, ghosts, view, OpenLock, OpenLoad, OpenEmpty, OpenCreate
<1>3. CASE ReadTx(c) \/ FollowEnd(c) \/ AtEnd(c) \/ CaughtUp(c)
  BY <1>1, <1>3
  DEF MailOK, files, locks, ghosts, view, ReadTx, FollowEnd, AtEnd, CaughtUp
<1>4. CASE SkipTx(c)
  <2>1. pend' \in [Conn -> SUBSET Transaction]  BY <1>4, SkipTxEffect
  <2>2. UNCHANGED chan  BY <1>4, SkipTxEffect
  <2> QED  BY <1>1, <2>1, <2>2 DEF MailOK
<1>5. CASE BeginRead(c) \/ BeginWrite(c) \/ Upgrade(c) \/ Rejoin(c) \/ Backstop(c)
  BY <1>1, <1>5
  DEF MailOK, files, locks, ghosts, view, BeginRead, BeginWrite, Upgrade, Rejoin, Backstop
<1>6. CASE SwapEnd(c) \/ SwapHeader(c) \/ (\E p \in Page : WritePage(c, p)) \/ Commit(c) \/
          Rollback(c)
  BY <1>1, <1>6
  DEF MailOK, files, locks, ghosts, view, SwapEnd, SwapHeader, WritePage, Commit, Rollback
<1>7. CASE Publish(c)
  <2> DEFINE m == [type |-> "tx", tx |-> txs[c][txId[c]], id |-> 0]
  <2>1. pc[c] = "publish" /\ Broadcast(c, m) /\ UNCHANGED pend  BY <1>7 DEF Publish
  <2>2. lo[c] \in Nat /\ txId[c] \in Nat /\ lo[c] <= txId[c]
    BY <2>1 DEF ViewInv, TypeOK, ViewOK, ViewsContiguous
  <2>3. txId[c] \in Keys(c)  BY <2>1, <2>2 DEF Keys
  <2>4. txs[c] \in [Keys(c) -> Transaction]  BY DEF ViewInv, TypeOK, ViewOK
  <2>5. m \in Message  BY <2>3, <2>4 DEF Message
  <2> HIDE DEF m
  <2> QED  BY <1>1, <2>1, <2>5, BroadcastOK DEF MailOK
<1>8. CASE GrantTxIdLock(c)
  BY <1>1, <1>8
  DEF MailOK, files, locks, ghosts, view, GrantTxIdLock
<1>9. CASE Receive(c)
  <2>1. pend' \in [Conn -> SUBSET Transaction]  BY <1>9, ReceiveEffect
  <2>2. chan' = [chan EXCEPT ![c] = Tail(@)] /\ chan[c] # <<>>  BY <1>9, ReceiveEffect
  <2>3. Tail(chan[c]) \in Seq(Message)
    <3>1. chan[c] \in Seq(Message)  BY <1>1 DEF MailOK
    <3> QED  BY <2>2, <3>1
  <2> QED  BY <1>1, <2>1, <2>2, <2>3 DEF MailOK
<1>10. CASE CkptPassive(c) \/ CkptSkipped(c) \/ CkptFull(c) \/ CkptFullLock(c)
  BY <1>1, <1>10
  DEF MailOK, files, locks, ghosts, view, CkptPassive, CkptSkipped, CkptFull, CkptFullLock
<1>11. CASE CkptQuery(c) \/ CkptBusy(c) \/ CkptBegin(c) \/
          (\E p \in Page : CkptCopy(c, p)) \/ CkptWait(c) \/ CkptTruncate(c)
  BY <1>1, <1>11
  DEF MailOK, files, locks, ghosts, view, CkptQuery, CkptBusy, CkptBegin, CkptCopy,
      CkptWait, CkptTruncate
<1>12. CASE CkptPost(c)
  <2> DEFINE m == [type |-> "ckpt", tx |-> NoTx, id |-> ck[c].id]
  <2>1. Broadcast(c, m) /\ UNCHANGED pend  BY <1>12 DEF CkptPost
  <2>2. ck[c].id \in Nat  BY DEF ViewInv, TypeOK, TasksOK, Checkpoint
  <2>3. m \in Message  BY <2>2, NothingFacts DEF Message
  <2> HIDE DEF m
  <2> QED  BY <1>1, <2>1, <2>3, BroadcastOK DEF MailOK
<1>13. CASE Close(c)
  BY <1>1, <1>13
  DEF MailOK, files, locks, ghosts, view, Close, Depart
<1>14. CASE Crash(c)
  BY <1>1, <1>14
  DEF MailOK, files, locks, ghosts, view, Crash, Depart
<1> QED  BY <1>2, <1>3, <1>4, <1>5, <1>6, <1>7, <1>8, <1>9, <1>10, <1>11, <1>12, <1>13,
  <1>14 DEF Step, Opening, Running, Using, Checkpointing

\* The history keeps its type.
LEMMA HistoryOKStep ==
  ASSUME ViewInv, NEW c \in Conn, Step(c)
  PROVE  HistoryOK'
<1>1. HistoryOK  BY DEF ViewInv, TypeOK
<1>2. CASE OpenLock(c) \/ OpenLoad(c) \/ OpenEmpty(c) \/ OpenCreate(c)
  BY <1>1, <1>2
  DEF HistoryOK, files, locks, ghosts, view, OpenLock, OpenLoad, OpenEmpty, OpenCreate
<1>3. CASE SkipTx(c) \/ ReadTx(c) \/ FollowEnd(c) \/ AtEnd(c) \/ CaughtUp(c)
  BY <1>1, <1>3
  DEF HistoryOK, files, locks, ghosts, view, SkipTx, ReadTx, FollowEnd, AtEnd, CaughtUp
<1>4. CASE BeginRead(c) \/ BeginWrite(c) \/ Upgrade(c) \/ Rejoin(c) \/ Backstop(c)
  BY <1>1, <1>4
  DEF HistoryOK, files, locks, ghosts, view, BeginRead, BeginWrite, Upgrade, Rejoin,
      Backstop
<1>5. CASE SwapEnd(c) \/ SwapHeader(c) \/ Publish(c) \/ Rollback(c)
  BY <1>1, <1>5
  DEF HistoryOK, files, locks, ghosts, view, SwapEnd, SwapHeader, Publish, Rollback
<1>6. CASE \E p \in Page : WritePage(c, p)
  <2> SUFFICES ASSUME NEW p \in Page, WritePage(c, p)
               PROVE  HistoryOK'
    BY <1>6
  <2>1. attempts' \in Nat /\ UNCHANGED hist  BY WritePageEffect DEF WritePage
  <2> QED  BY <1>1, <2>1 DEF HistoryOK
<1>7. CASE Commit(c)
  <2>1. UNCHANGED attempts
        /\ \E S \in SUBSET Page : hist' = Append(hist, [val |-> attempts, pages |-> S])
    BY <1>7 DEF Commit, PagesOf
  <2> QED  BY <1>1, <2>1 DEF HistoryOK
<1>8. CASE Receive(c) \/ GrantTxIdLock(c)
  BY <1>1, <1>8
  DEF HistoryOK, files, locks, ghosts, view, Receive, GrantTxIdLock
<1>9. CASE CkptPassive(c) \/ CkptSkipped(c) \/ CkptFull(c) \/ CkptFullLock(c)
  BY <1>1, <1>9
  DEF HistoryOK, files, locks, ghosts, view, CkptPassive, CkptSkipped, CkptFull,
      CkptFullLock
<1>10. CASE CkptQuery(c) \/ CkptBusy(c) \/ CkptBegin(c) \/
          (\E p \in Page : CkptCopy(c, p)) \/ CkptPost(c) \/ CkptWait(c)
  BY <1>1, <1>10
  DEF HistoryOK, files, locks, ghosts, view, CkptQuery, CkptBusy, CkptBegin, CkptCopy,
      CkptPost, CkptWait
<1>11. CASE CkptTruncate(c)
  BY <1>1, <1>11
  DEF HistoryOK, files, locks, ghosts, view, CkptTruncate
<1>12. CASE Close(c) \/ Crash(c)
  BY <1>1, <1>12
  DEF HistoryOK, files, locks, ghosts, view, Close, Depart, Crash
<1> QED  BY <1>2, <1>3, <1>4, <1>5, <1>6, <1>7, <1>8, <1>9, <1>10, <1>11, <1>12 DEF Step, Opening, Running, Using, Checkpointing

\* The views keep their types.
LEMMA ScalarsStep ==
  ASSUME ViewInv, NEW c \in Conn, Step(c)
  PROVE  (/\ txId \in [Conn -> Nat] /\ off \in [Conn -> Nat] /\ lo \in [Conn -> Nat]
           /\ active \in [Conn -> Header] /\ sized \in [Conn -> BOOLEAN])'
<1>1. /\ txId \in [Conn -> Nat] /\ off \in [Conn -> Nat] /\ lo \in [Conn -> Nat]
      /\ active \in [Conn -> Header] /\ sized \in [Conn -> BOOLEAN]
  BY DEF ViewInv, TypeOK, ViewOK
<1>2. hdr \in [{0, 1} -> Header]  BY DEF ViewInv, TypeOK, FilesOK
<1>3. active[c].salt1 \in Nat /\ Inactive(c) \in {0, 1}
  BY <1>1, FileOfFacts DEF Header, Inactive
<1>4. CASE OpenLock(c) \/ OpenEmpty(c)
  BY <1>1, <1>2, <1>3, <1>4
  DEF files, locks, ghosts, view, OpenLock, OpenEmpty
<1>5. CASE OpenLoad(c)
  <2>1. /\ \E n \in Nat : txId' = [txId EXCEPT ![c] = n] /\ lo' = [lo EXCEPT ![c] = n + 1]
        /\ active' \in [Conn -> Header] /\ off' = [off EXCEPT ![c] = 0]
        /\ UNCHANGED sized
    BY <1>5, OpenLoadEffect
  <2> QED  BY <1>1, <2>1
<1>6. CASE OpenCreate(c)
  <2>1. PICK s \in {0, 1} : StartFrom(c, [nextTxId |-> 1, salt1 |-> s, salt2 |-> c])
    BY <1>6 DEF OpenCreate
  <2>2. [nextTxId |-> 1, salt1 |-> s, salt2 |-> c] \in Header  BY DEF Header, Salt2
  <2> QED  BY <1>1, <2>1, <2>2 DEF StartFrom
<1>7. CASE FollowEnd(c) \/ AtEnd(c) \/ CaughtUp(c)
  BY <1>1, <1>2, <1>3, <1>7
  DEF files, locks, ghosts, view, FollowEnd, AtEnd, CaughtUp
<1>8. CASE SkipTx(c)
  <2>1. active' \in [Conn -> Header]  BY <1>1, <1>8, SkipTxEffect DEF view
  <2>2. (\E tx \in Transaction : Activate(c, tx)) \/ UNCHANGED view  BY <1>8, SkipTxEffect
  <2>3. ASSUME NEW tx \in Transaction, Activate(c, tx)
        PROVE  /\ txId' = [txId EXCEPT ![c] = tx.id] /\ off' = [off EXCEPT ![c] = tx.end]
               /\ sized' = [sized EXCEPT ![c] = TRUE] /\ UNCHANGED lo
               /\ tx.id \in Nat /\ tx.end \in Nat
    BY <2>3 DEF Activate, Transaction
  <2> QED  BY <1>1, <2>1, <2>2, <2>3 DEF view
<1>9. CASE ReadTx(c)
  <2>1. Activate(c, TxRead(c)) /\ TxAhead(c) /\ UNCHANGED active  BY <1>9 DEF ReadTx
  <2>2. TxRead(c).id \in Nat /\ TxRead(c).end \in Nat
    BY <2>1, TxReadOK DEF Transaction
  <2> QED  BY <1>1, <2>1, <2>2 DEF Activate
<1>10. CASE BeginRead(c) \/ BeginWrite(c) \/ Upgrade(c) \/ Rejoin(c) \/ Backstop(c)
  BY <1>1, <1>2, <1>3, <1>10
  DEF files, locks, ghosts, view, BeginRead, BeginWrite, Upgrade, Rejoin, Backstop
<1>11. CASE SwapEnd(c) \/ (\E p \in Page : WritePage(c, p)) \/ Publish(c) \/ Rollback(c)
  BY <1>1, <1>2, <1>3, <1>11
  DEF files, locks, ghosts, view, SwapEnd, WritePage, Publish, Rollback
<1>12. CASE SwapHeader(c)
  <2> DEFINE h == [nextTxId |-> txId[c] + 1, salt1 |-> active[c].salt1 + 1, salt2 |-> c]
  <2>1. h \in Header  BY <1>1, <1>3 DEF Header, Salt2
  <2>2. active' = [active EXCEPT ![c] = h] /\ off' = [off EXCEPT ![c] = 0]
    BY <1>12 DEF SwapHeader
  <2> HIDE DEF h
  <2> QED  BY <1>1, <1>12, <2>1, <2>2 DEF SwapHeader
<1>13. CASE Commit(c)
  <2> DEFINE tx == [cur[c] EXCEPT !.end = @ + 1]
  <2>1. Activate(c, tx) /\ UNCHANGED active  BY <1>13 DEF Commit
  <2>2. tx \in Transaction  BY TransactionUpdates, PageAssumption, NothingFacts DEF ViewInv, TypeOK, TasksOK
  <2>3. tx.id \in Nat /\ tx.end \in Nat  BY <2>2 DEF Transaction
  <2> HIDE DEF tx
  <2> QED  BY <1>1, <2>1, <2>3 DEF Activate
<1>14. CASE GrantTxIdLock(c)
  BY <1>1, <1>2, <1>3, <1>14
  DEF files, locks, ghosts, view, GrantTxIdLock
<1>15. CASE Receive(c)
  <2>1. UNCHANGED <<txId, active, off, sized>>  BY <1>15, ReceiveEffect
  <2>2. lo' = lo \/ \E id \in lo[c] .. txId[c] : lo' = [lo EXCEPT ![c] = id + 1]
    BY <1>15, ReceiveEffect
  <2> QED  BY <1>1, <2>1, <2>2
<1>16. CASE CkptPassive(c) \/ CkptSkipped(c) \/ CkptFull(c) \/ CkptFullLock(c)
  BY <1>1, <1>2, <1>3, <1>16
  DEF files, locks, ghosts, view, CkptPassive, CkptSkipped, CkptFull, CkptFullLock
<1>17. CASE CkptQuery(c) \/ CkptBusy(c) \/ CkptBegin(c) \/
          (\E p \in Page : CkptCopy(c, p)) \/ CkptWait(c) \/ CkptTruncate(c)
  BY <1>1, <1>2, <1>3, <1>17
  DEF files, locks, ghosts, view, CkptQuery, CkptBusy, CkptBegin, CkptCopy, CkptWait,
      CkptTruncate
<1>18. CASE CkptPost(c)
  <2>1. UNCHANGED <<txId, active, off, sized>>  BY <1>18 DEF CkptPost
  <2>2. lo' = lo \/ \E id \in lo[c] .. txId[c] : lo' = [lo EXCEPT ![c] = id + 1]
    BY <1>18 DEF CkptPost, Absorb
  <2> QED  BY <1>1, <2>1, <2>2
<1>19. CASE Close(c) \/ Crash(c)
  BY <1>1, <1>2, <1>3, <1>19
  DEF files, locks, ghosts, view, Close, Depart, Crash
<1> QED  BY <1>4, <1>5, <1>6, <1>7, <1>8, <1>9, <1>10, <1>11, <1>12, <1>13, <1>14, <1>15,
  <1>16, <1>17, <1>18, <1>19 DEF Step, Opening, Running, Using, Checkpointing

\* The maps of transactions keep their type.
LEMMA TxsStep ==
  ASSUME ViewInv, NEW c \in Conn, Step(c)
  PROVE  TxsOK'
<1>1. pc \in [Conn -> Tasks]  BY DEF ViewInv, TypeOK, TasksOK
<1>2. txId \in [Conn -> Nat] /\ lo \in [Conn -> Nat]  BY DEF ViewInv, TypeOK, ViewOK
<1>3. TxsOK  BY DEF ViewInv, TypeOK, ViewOK, TxsOK
<1>4. CASE OpenLock(c) \/ OpenEmpty(c)
  BY <1>1, <1>2, <1>3, <1>4, KeptOK
  DEF files, locks, ghosts, view, OpenLock, Goto, Ready, OpenEmpty
<1>5. CASE OpenLoad(c)
  <2>1. /\ pc[c] = "joining" /\ pc' = [pc EXCEPT ![c] = "advance"]
        /\ \E n \in Nat : txId' = [txId EXCEPT ![c] = n] /\ lo' = [lo EXCEPT ![c] = n + 1]
        /\ UNCHANGED txs
    BY <1>5, OpenLoadEffect
  <2>2. txId[c] = 0 /\ lo[c] = 1  BY <2>1 DEF ViewInv, ViewsContiguous
  <2> QED  BY <1>1, <1>2, <1>3, <2>1, <2>2 DEF TxsOK, Keys
<1>6. CASE OpenCreate(c)
  <2>1. /\ pc[c] = "create" /\ pc' = [pc EXCEPT ![c] = "advance"]
        /\ txId' = [txId EXCEPT ![c] = 0] /\ lo' = [lo EXCEPT ![c] = 1]
        /\ UNCHANGED txs
    BY <1>6 DEF OpenCreate, StartFrom, Goto
  <2>2. txId[c] = 0 /\ lo[c] = 1  BY <2>1 DEF ViewInv, ViewsContiguous
  <2> QED  BY <1>1, <1>2, <1>3, <2>1, <2>2 DEF TxsOK, Keys
<1>7. CASE FollowEnd(c) \/ AtEnd(c) \/ CaughtUp(c)
  BY <1>1, <1>2, <1>3, <1>7, KeptOK
  DEF files, locks, ghosts, view, FollowEnd, Goto, Ready, MustRead, Advancing, AtEnd,
      CaughtUp
<1>8. CASE SkipTx(c)
  <2>1. pc[c] \in Tasks \ {"gone"}  BY <1>8, SkipTxEffect DEF Tasks
  <2>2. CASE UNCHANGED view
    <3>1. pc' = pc \/ pc' = [pc EXCEPT ![c] = "fault"]  BY <1>8, SkipTxEffect
    <3>2. \A d \in Conn : (pc'[d] = "gone") <=> (pc[d] = "gone")  BY <1>1, <2>1, <3>1
    <3> QED  BY <2>2, <3>2, KeptOK DEF view
  <2>3. CASE pc' = pc /\ \E tx \in Transaction : tx.id = txId[c] + 1 /\ Activate(c, tx)
    <3>1. pc' = [pc EXCEPT ![c] = pc[c]]  BY <1>1, <2>3
    <3> QED  BY <2>1, <2>3, <3>1, ActivateOK
  <2> QED  BY <1>8, <2>2, <2>3, SkipTxEffect
<1>9. CASE ReadTx(c)
  <2>1. Activate(c, TxRead(c)) /\ TxAhead(c) /\ UNCHANGED pc  BY <1>9 DEF ReadTx
  <2>2. pc[c] \in Tasks \ {"gone"}  BY <1>9 DEF ReadTx, MustRead, Advancing, Tasks
  <2>3. pc' = [pc EXCEPT ![c] = pc[c]]  BY <1>1, <2>1
  <2> QED  BY <2>1, <2>2, <2>3, TxReadOK, ActivateOK
<1>10. CASE BeginRead(c) \/ BeginWrite(c) \/ Upgrade(c)
  BY <1>1, <1>2, <1>3, <1>10, KeptOK
  DEF files, locks, ghosts, view, BeginRead, Goto, Ready, Usable, BeginWrite, Upgrade
<1>11. CASE Rejoin(c) \/ Backstop(c)
  BY <1>1, <1>2, <1>3, <1>11, KeptOK
  DEF files, locks, ghosts, view, Rejoin, Goto, Ready, Usable, Backstop
<1>12. CASE SwapEnd(c) \/ SwapHeader(c) \/ (\E p \in Page : WritePage(c, p))
  BY <1>1, <1>2, <1>3, <1>12, KeptOK
  DEF files, locks, ghosts, view, SwapEnd, Goto, Ready, Usable, MayWrite, SwapHeader,
      WritePage
<1>13. CASE Publish(c) \/ Rollback(c)
  BY <1>1, <1>2, <1>3, <1>13, KeptOK
  DEF files, locks, ghosts, view, Publish, Goto, Ready, Rollback, Usable, MayWrite
<1>14. CASE Commit(c)
  <2> DEFINE tx == [cur[c] EXCEPT !.end = @ + 1]
  <2>1. /\ Activate(c, tx) /\ pc[c] = "ready" /\ cur[c] # NoTx
        /\ pc' = [pc EXCEPT ![c] = "publish"]
    BY <1>14 DEF Commit, MayWrite, Usable, Ready, Goto
  <2>2. cur[c] \in Transaction  BY DEF ViewInv, TypeOK, TasksOK
  <2>3. tx \in Transaction  BY <2>2, TransactionUpdates, PageAssumption, NothingFacts
  <2>4. tx.id = txId[c] + 1
    <3>1. cur[c].id = txId[c] + 1  BY <2>1 DEF ViewInv, WritersFrozen
    <3> QED  BY <2>2, <3>1 DEF Transaction
  <2> HIDE DEF tx
  <2>5. "publish" \in Tasks \ {"gone"}  BY DEF Tasks
  <2> QED  BY <2>1, <2>3, <2>4, <2>5, ActivateOK
<1>15. CASE GrantTxIdLock(c)
  BY <1>1, <1>2, <1>3, <1>15, KeptOK
  DEF files, locks, ghosts, view, GrantTxIdLock, Goto, Ready
<1>16. CASE Receive(c)
  <2>1. /\ pc[c] = "ready" /\ UNCHANGED txId
        /\ pc' = pc \/ pc' = [pc EXCEPT ![c] = "catchUp"]
    BY <1>16, ReceiveEffect
  <2>2. CASE UNCHANGED <<lo, txs>>
    <3>1. \A d \in Conn : (pc'[d] = "gone") <=> (pc[d] = "gone")  BY <1>1, <2>1
    <3> QED  BY <2>1, <2>2, <3>1, KeptOK
  <2>3. CASE /\ pc' = pc
             /\ \E id \in lo[c] .. txId[c] :
                  /\ lo' = [lo EXCEPT ![c] = id + 1]
                  /\ txs' = [txs EXCEPT ![c] = [i \in id + 1 .. txId[c] |-> txs[c][i]]]
    <3>1. pc' = [pc EXCEPT ![c] = "ready"] /\ "ready" \in Tasks \ {"gone"}
      BY <1>1, <2>1, <2>3 DEF Tasks
    <3> QED  BY <2>1, <2>3, <3>1, AbsorbOK
  <2> QED  BY <1>16, <2>2, <2>3, ReceiveEffect
<1>17. CASE CkptPassive(c) \/ CkptSkipped(c) \/ CkptFull(c)
  BY <1>1, <1>2, <1>3, <1>17, KeptOK
  DEF files, locks, ghosts, view, CkptPassive, Goto, Ready, CkptSkipped, CkptFull, Usable
<1>18. CASE CkptFullLock(c)
  BY <1>1, <1>2, <1>3, <1>18, KeptOK
  DEF files, locks, ghosts, view, CkptFullLock, Goto, Ready
<1>19. CASE CkptQuery(c) \/ CkptBusy(c) \/ CkptBegin(c)
  BY <1>1, <1>2, <1>3, <1>19, KeptOK
  DEF files, locks, ghosts, view, CkptQuery, Goto, Ready, CkptBusy, CkptBegin
<1>20. CASE CkptWait(c) \/ CkptTruncate(c)
  BY <1>1, <1>2, <1>3, <1>20, KeptOK
  DEF files, locks, ghosts, view, CkptWait, Goto, Ready, CkptTruncate
<1>21. CASE \E p \in Page : CkptCopy(c, p)
  <2> SUFFICES ASSUME NEW p \in Page, CkptCopy(c, p)
               PROVE  TxsOK'
    BY <1>21
  <2>1. pc[c] = "copy" /\ UNCHANGED view /\ (pc' = pc \/ pc' = [pc EXCEPT ![c] = "fault"])
    BY CkptCopyEffect
  <2>2. \A d \in Conn : (pc'[d] = "gone") <=> (pc[d] = "gone")  BY <1>1, <2>1
  <2> QED  BY <2>1, <2>2, KeptOK DEF view
<1>22. CASE CkptPost(c)
  <2>1. /\ pc[c] = "copy" /\ UNCHANGED txId /\ Absorb(c, ck[c].id)
        /\ pc' = [pc EXCEPT ![c] = "ready"] /\ "ready" \in Tasks \ {"gone"}
    BY <1>22 DEF CkptPost, Goto, Tasks
  <2>2. CASE UNCHANGED <<lo, txs>>
    <3>1. \A d \in Conn : (pc'[d] = "gone") <=> (pc[d] = "gone")  BY <1>1, <2>1
    <3> QED  BY <2>1, <2>2, <3>1, KeptOK
  <2>3. CASE \E id \in lo[c] .. txId[c] :
               /\ lo' = [lo EXCEPT ![c] = id + 1]
               /\ txs' = [txs EXCEPT ![c] = [i \in id + 1 .. txId[c] |-> txs[c][i]]]
    BY <2>1, <2>3, AbsorbOK
  <2> QED  BY <2>1, <2>2, <2>3 DEF Absorb
<1>23. CASE Close(c)
  <2>1. Depart(c)  BY <1>23 DEF Close
  <2> QED  BY <1>1, <1>2, <1>3, <2>1 DEF Depart, Goto, TxsOK, Keys
<1>24. CASE Crash(c)
  <2>1. Depart(c)  BY <1>24 DEF Crash
  <2> QED  BY <1>1, <1>2, <1>3, <2>1 DEF Depart, Goto, TxsOK, Keys
<1> QED  BY <1>4, <1>5, <1>6, <1>7, <1>8, <1>9, <1>10, <1>11, <1>12, <1>13, <1>14, <1>15,
  <1>16, <1>17, <1>18, <1>19, <1>20, <1>21, <1>22, <1>23, <1>24 DEF Step, Opening, Running, Using, Checkpointing

\* The tasks keep their type.
LEMMA PcStep ==
  ASSUME ViewInv, NEW c \in Conn, Step(c)
  PROVE  (pc \in [Conn -> Tasks])'
<1>1. pc \in [Conn -> Tasks]  BY DEF ViewInv, TypeOK, TasksOK
<1>2. CASE OpenLock(c) \/ OpenLoad(c)
  BY <1>1, <1>2
  DEF Tasks, files, locks, ghosts, view, OpenLock, Goto, OpenLoad, StartFrom
<1>3. CASE OpenEmpty(c) \/ OpenCreate(c)
  BY <1>1, <1>3
  DEF Tasks, files, locks, ghosts, view, OpenEmpty, Goto, OpenCreate, StartFrom
<1>4. CASE SkipTx(c) \/ ReadTx(c)
  BY <1>1, <1>4
  DEF Tasks, files, locks, ghosts, view, SkipTx, Goto, Advancing, ReadTx
<1>5. CASE FollowEnd(c) \/ AtEnd(c)
  BY <1>1, <1>5
  DEF Tasks, files, locks, ghosts, view, FollowEnd, Goto, AtEnd
<1>6. CASE CaughtUp(c)
  BY <1>1, <1>6
  DEF Tasks, files, locks, ghosts, view, CaughtUp, Goto
<1>7. CASE BeginRead(c) \/ BeginWrite(c)
  BY <1>1, <1>7
  DEF Tasks, files, locks, ghosts, view, BeginRead, Goto, BeginWrite
<1>8. CASE Upgrade(c) \/ Rejoin(c)
  BY <1>1, <1>8
  DEF Tasks, files, locks, ghosts, view, Upgrade, Goto, Rejoin
<1>9. CASE Backstop(c)
  BY <1>1, <1>9
  DEF Tasks, files, locks, ghosts, view, Backstop, Goto
<1>10. CASE SwapEnd(c) \/ SwapHeader(c)
  BY <1>1, <1>10
  DEF Tasks, files, locks, ghosts, view, SwapEnd, Goto, SwapHeader
<1>11. CASE (\E p \in Page : WritePage(c, p)) \/ Commit(c)
  BY <1>1, <1>11
  DEF Tasks, files, locks, ghosts, view, WritePage, Goto, Commit
<1>12. CASE Publish(c) \/ Rollback(c)
  BY <1>1, <1>12
  DEF Tasks, files, locks, ghosts, view, Publish, Goto, Rollback
<1>13. CASE Receive(c) \/ GrantTxIdLock(c)
  BY <1>1, <1>13
  DEF Tasks, files, locks, ghosts, view, Receive, Goto, OnTx, Ready, GrantTxIdLock
<1>14. CASE CkptPassive(c) \/ CkptSkipped(c)
  BY <1>1, <1>14
  DEF Tasks, files, locks, ghosts, view, CkptPassive, Goto, CkptSkipped
<1>15. CASE CkptFull(c) \/ CkptFullLock(c)
  BY <1>1, <1>15
  DEF Tasks, files, locks, ghosts, view, CkptFull, Goto, CkptFullLock
<1>16. CASE CkptQuery(c) \/ CkptBusy(c)
  BY <1>1, <1>16
  DEF Tasks, files, locks, ghosts, view, CkptQuery, Goto, CkptBusy
<1>17. CASE CkptBegin(c) \/ (\E p \in Page : CkptCopy(c, p))
  BY <1>1, <1>17
  DEF Tasks, files, locks, ghosts, view, CkptBegin, Goto, CkptCopy
<1>18. CASE CkptPost(c) \/ CkptWait(c)
  BY <1>1, <1>18
  DEF Tasks, files, locks, ghosts, view, CkptPost, Goto, CkptWait
<1>19. CASE CkptTruncate(c)
  BY <1>1, <1>19
  DEF Tasks, files, locks, ghosts, view, CkptTruncate, Goto
<1>20. CASE Close(c) \/ Crash(c)
  BY <1>1, <1>20
  DEF Tasks, files, locks, ghosts, view, Close, Depart, Goto, Crash
<1> QED  BY <1>2, <1>3, <1>4, <1>5, <1>6, <1>7, <1>8, <1>9, <1>10, <1>11, <1>12, <1>13,
  <1>14, <1>15, <1>16, <1>17, <1>18, <1>19, <1>20 DEF Step, Opening, Running, Using, Checkpointing

\* The isolation states and the requests keep their types.
LEMMA IsoStep ==
  ASSUME ViewInv, NEW c \in Conn, Step(c)
  PROVE  (iso \in [Conn -> {"none", "read", "write"}] /\ due \in [Conn -> BOOLEAN])'
<1>1. iso \in [Conn -> {"none", "read", "write"}] /\ due \in [Conn -> BOOLEAN]
  BY DEF ViewInv, TypeOK, TasksOK
<1>2. CASE OpenLock(c) \/ OpenLoad(c) \/ OpenEmpty(c) \/ OpenCreate(c)
  BY <1>1, <1>2
  DEF files, locks, ghosts, view, OpenLock, SetIso, AskCkpt, OpenLoad, OpenEmpty,
      OpenCreate
<1>3. CASE SkipTx(c) \/ ReadTx(c) \/ FollowEnd(c) \/ AtEnd(c) \/ CaughtUp(c)
  <2>1. UNCHANGED iso  BY <1>3 DEF SkipTx, ReadTx, FollowEnd, AtEnd, CaughtUp
  <2>2. due' = due \/ due' = [due EXCEPT ![c] = TRUE]
    BY <1>3 DEF SkipTx, ReadTx, FollowEnd, AtEnd, CaughtUp, AskCkpt
  <2>3. due' \in [Conn -> BOOLEAN]  BY <1>1, <2>2, Zenon
  <2> QED  BY <1>1, <2>1, <2>3
<1>4. CASE BeginRead(c) \/ BeginWrite(c) \/ Upgrade(c) \/ Rejoin(c) \/ Backstop(c)
  BY <1>1, <1>4
  DEF files, locks, ghosts, view, BeginRead, SetIso, AskCkpt, BeginWrite, Upgrade, Rejoin,
      Backstop
<1>5. CASE SwapEnd(c) \/ SwapHeader(c) \/ (\E p \in Page : WritePage(c, p)) \/ Commit(c) \/
          Publish(c) \/ Rollback(c)
  BY <1>1, <1>5
  DEF files, locks, ghosts, view, SwapEnd, SetIso, AskCkpt, SwapHeader, WritePage, Commit,
      Publish, Rollback
<1>6. CASE Receive(c) \/ GrantTxIdLock(c)
  BY <1>1, <1>6
  DEF files, locks, ghosts, view, Receive, SetIso, AskCkpt, GrantTxIdLock
<1>7. CASE CkptPassive(c) \/ CkptSkipped(c) \/ CkptFull(c) \/ CkptFullLock(c)
  BY <1>1, <1>7
  DEF files, locks, ghosts, view, CkptPassive, SetIso, AskCkpt, CkptSkipped, CkptFull,
      CkptFullLock
<1>8. CASE CkptQuery(c) \/ CkptBusy(c) \/ CkptBegin(c) \/
          (\E p \in Page : CkptCopy(c, p)) \/ CkptPost(c) \/ CkptWait(c)
  BY <1>1, <1>8
  DEF files, locks, ghosts, view, CkptQuery, SetIso, AskCkpt, CkptBusy, CkptBegin,
      CkptCopy, CkptPost, CkptWait
<1>9. CASE CkptTruncate(c)
  BY <1>1, <1>9
  DEF files, locks, ghosts, view, CkptTruncate, SetIso, AskCkpt
<1>10. CASE Close(c) \/ Crash(c)
  BY <1>1, <1>10
  DEF files, locks, ghosts, view, Close, Depart, SetIso, Crash
<1> QED  BY <1>2, <1>3, <1>4, <1>5, <1>6, <1>7, <1>8, <1>9, <1>10 DEF Step, Opening, Running, Using, Checkpointing

\* The transactions in progress keep their type.
LEMMA CurStep ==
  ASSUME ViewInv, NEW c \in Conn, Step(c)
  PROVE  (cur \in [Conn -> Transaction])'
<1>1. cur \in [Conn -> Transaction]  BY DEF ViewInv, TypeOK, TasksOK
<1>2. CASE OpenLock(c) \/ OpenLoad(c) \/ OpenEmpty(c) \/ OpenCreate(c)
  BY <1>1, <1>2, NothingFacts
  DEF files, locks, ghosts, view, OpenLock, OpenLoad, OpenEmpty, OpenCreate
<1>3. CASE SkipTx(c) \/ ReadTx(c) \/ FollowEnd(c) \/ AtEnd(c) \/ CaughtUp(c)
  BY <1>1, <1>3, NothingFacts
  DEF files, locks, ghosts, view, SkipTx, ReadTx, FollowEnd, AtEnd, CaughtUp
<1>4. CASE BeginRead(c) \/ BeginWrite(c) \/ Upgrade(c) \/ Rejoin(c) \/ Backstop(c)
  BY <1>1, <1>4, NothingFacts
  DEF files, locks, ghosts, view, BeginRead, BeginWrite, Upgrade, Rejoin, Backstop
<1>5. CASE SwapEnd(c) \/ SwapHeader(c) \/ Commit(c) \/ Publish(c) \/ Rollback(c)
  BY <1>1, <1>5, NothingFacts
  DEF files, locks, ghosts, view, SwapEnd, SwapHeader, Commit, Publish, Rollback
<1>6. CASE \E p \in Page : WritePage(c, p)
  <2> SUFFICES ASSUME NEW p \in Page, WritePage(c, p)
               PROVE  cur' \in [Conn -> Transaction]
    BY <1>6
  <2>1. \E new \in Transaction : cur' = [cur EXCEPT ![c] = new]  BY WritePageEffect
  <2> QED  BY <1>1, <2>1
<1>7. CASE Receive(c) \/ GrantTxIdLock(c)
  BY <1>1, <1>7, NothingFacts
  DEF files, locks, ghosts, view, Receive, GrantTxIdLock
<1>8. CASE CkptPassive(c) \/ CkptSkipped(c) \/ CkptFull(c) \/ CkptFullLock(c)
  BY <1>1, <1>8, NothingFacts
  DEF files, locks, ghosts, view, CkptPassive, CkptSkipped, CkptFull, CkptFullLock
<1>9. CASE CkptQuery(c) \/ CkptBusy(c) \/ CkptBegin(c) \/
          (\E p \in Page : CkptCopy(c, p)) \/ CkptPost(c) \/ CkptWait(c)
  BY <1>1, <1>9, NothingFacts
  DEF files, locks, ghosts, view, CkptQuery, CkptBusy, CkptBegin, CkptCopy, CkptPost,
      CkptWait
<1>10. CASE CkptTruncate(c)
  BY <1>1, <1>10, NothingFacts
  DEF files, locks, ghosts, view, CkptTruncate
<1>11. CASE Close(c) \/ Crash(c)
  BY <1>1, <1>11, NothingFacts
  DEF files, locks, ghosts, view, Close, Depart, Crash
<1> QED  BY <1>2, <1>3, <1>4, <1>5, <1>6, <1>7, <1>8, <1>9, <1>10, <1>11 DEF Step, Opening, Running, Using, Checkpointing

\* The checkpoints keep their type.
LEMMA CkStep ==
  ASSUME ViewInv, NEW c \in Conn, Step(c)
  PROVE  (ck \in [Conn -> Checkpoint])'
<1>1. ck \in [Conn -> Checkpoint]  BY DEF ViewInv, TypeOK, TasksOK
<1>2. txId \in [Conn -> Nat] /\ lo \in [Conn -> Nat]  BY DEF ViewInv, TypeOK, ViewOK
<1>3. ck[c] \in Checkpoint /\ txId[c] \in Nat /\ Held \in SUBSET Conn
  BY <1>1, <1>2 DEF Held
<1>4. {{}, Held} \subseteq SUBSET Conn /\ {"query", "go", "wait", "truncate"} \subseteq Phases
  BY <1>3 DEF Phases
<1>5. NoCkpt \in Checkpoint  BY DEF NoCkpt, Checkpoint, Phases
<1>6. CASE OpenLock(c) \/ OpenLoad(c) \/ OpenEmpty(c) \/ OpenCreate(c)
  BY <1>1, <1>2, <1>3, <1>4, <1>5, <1>6
  DEF files, locks, ghosts, view, OpenLock, OpenLoad, OpenEmpty, OpenCreate
<1>7. CASE SkipTx(c) \/ ReadTx(c) \/ FollowEnd(c) \/ AtEnd(c) \/ CaughtUp(c)
  BY <1>1, <1>2, <1>3, <1>4, <1>5, <1>7
  DEF files, locks, ghosts, view, SkipTx, ReadTx, FollowEnd, AtEnd, CaughtUp
<1>8. CASE BeginRead(c) \/ BeginWrite(c) \/ Upgrade(c) \/ Rejoin(c) \/ Backstop(c)
  BY <1>1, <1>2, <1>3, <1>4, <1>5, <1>8
  DEF files, locks, ghosts, view, BeginRead, BeginWrite, Upgrade, Rejoin, Backstop
<1>9. CASE SwapEnd(c) \/ SwapHeader(c) \/ (\E p \in Page : WritePage(c, p)) \/ Commit(c) \/
          Publish(c) \/ Rollback(c)
  BY <1>1, <1>2, <1>3, <1>4, <1>5, <1>9
  DEF files, locks, ghosts, view, SwapEnd, SwapHeader, WritePage, Commit, Publish, Rollback
<1>10. CASE Receive(c) \/ GrantTxIdLock(c)
  BY <1>1, <1>2, <1>3, <1>4, <1>5, <1>10
  DEF files, locks, ghosts, view, Receive, GrantTxIdLock
<1>11. CASE CkptSkipped(c)
  BY <1>1, <1>2, <1>3, <1>4, <1>5, <1>11
  DEF files, locks, ghosts, view, CkptSkipped
<1>12. CASE CkptPassive(c)
  <2>1. active[c].nextTxId - 1 \in Nat  BY <1>2, <1>12 DEF CkptPassive, SomethingToCkpt
  <2>2. [NoCkpt EXCEPT !.phase = "query", !.id = active[c].nextTxId - 1] \in Checkpoint
    BY <1>4, <1>5, <2>1, CheckpointUpdates
  <2> QED  BY <1>1, <1>12, <2>2 DEF CkptPassive
<1>13. CASE CkptFull(c)
  <2>1. [NoCkpt EXCEPT !.phase = "request", !.full = TRUE] \in Checkpoint
    BY DEF NoCkpt, Checkpoint, Phases
  <2> QED  BY <1>1, <1>13, <2>1 DEF CkptFull
<1>14. CASE CkptFullLock(c)
  <2>1. [ck[c] EXCEPT !.phase = "query", !.id = txId[c]] \in Checkpoint
    BY <1>3, <1>4, CheckpointUpdates
  <2> QED  BY <1>1, <1>14, <2>1 DEF CkptFullLock
<1>15. CASE CkptBusy(c) \/ CkptTruncate(c)
  BY <1>1, <1>2, <1>3, <1>4, <1>5, <1>15
  DEF files, locks, ghosts, view, CkptBusy, CkptTruncate
<1>16. CASE CkptQuery(c)
  <2>1. [ck[c] EXCEPT !.phase = "go", !.polled = Held] \in Checkpoint
    BY <1>3, <1>4, CheckpointUpdates
  <2> QED  BY <1>1, <1>16, <2>1 DEF CkptQuery
<1>17. CASE CkptBegin(c)
  <2>1. UNION {PagesOf(txs[c][i]) : i \in lo[c] .. ck[c].id} \in SUBSET Page  BY DEF PagesOf
  <2> QED  BY <1>1, <1>17, <2>1 DEF CkptBegin, Checkpoint
<1>18. CASE \E p \in Page : CkptCopy(c, p)
  <2> SUFFICES ASSUME NEW p \in Page, CkptCopy(c, p)
               PROVE  ck' \in [Conn -> Checkpoint]
    BY <1>18
  <2>1. ck' = ck \/ ck' = [ck EXCEPT ![c].todo = @ \ {p}]  BY CkptCopyEffect
  <2> QED  BY <1>1, <2>1 DEF Checkpoint
<1>19. CASE CkptPost(c)
  <2>1. [ck[c] EXCEPT !.phase = "wait", !.polled = {}] \in Checkpoint
    BY <1>3, <1>4, CheckpointUpdates
  <2> QED  BY <1>1, <1>19, <2>1 DEF CkptPost
<1>20. CASE CkptWait(c)
  <2>1. [ck[c] EXCEPT !.phase = "truncate", !.polled = Held] \in Checkpoint
    BY <1>3, <1>4, CheckpointUpdates
  <2> QED  BY <1>1, <1>20, <2>1 DEF CkptWait
<1>21. CASE Close(c) \/ Crash(c)
  BY <1>1, <1>2, <1>3, <1>4, <1>5, <1>21
  DEF files, locks, ghosts, view, Close, Depart, Crash
<1> QED  BY <1>6, <1>7, <1>8, <1>9, <1>10, <1>11, <1>12, <1>13, <1>14, <1>15, <1>16, <1>17,
  <1>18, <1>19, <1>20, <1>21 DEF Step, Opening, Running, Using, Checkpointing

\* The types are kept.
LEMMA TypeStep ==
  ASSUME ViewInv, NEW c \in Conn, Step(c)
  PROVE  TypeOK'
<1>1. ViewOK'  BY ScalarsStep, TxsStep DEF ViewOK, TxsOK
<1>2. TasksOK'  BY PcStep, IsoStep, CurStep, CkStep DEF TasksOK
<1> QED
  BY <1>1, <1>2, FilesOKStep, LocksOKStep, MailOKStep, HistoryOKStep DEF TypeOK

=============================================================================
