------------------------ MODULE WriteAhead_snapshot ------------------------
(***************************************************************************)
(* Without checkpoints the log only grows: what every connection reads is  *)
(* its snapshot, no task throws, and the log implements snapshot           *)
(* isolation, for any number of connections that write, open, are          *)
(* terminated and hear of commits late, and across the swap of the files.  *)
(***************************************************************************)
EXTENDS WriteAhead_proofs

-----------------------------------------------------------------------------
(* The log without checkpoints *)

\* Nobody runs a checkpoint, and somebody has the files open from the start.
NeverCheckpoints ==
  /\ AutoCheckpointer = {} /\ PassiveCheckpointer = {} /\ FullCheckpointer = {}
  /\ OpenAtStart # {}

\* The committed transactions are a constant here, "log", and so is "border",
\* how many of them are in the first file; the others are in the second.
First(border, f) == IF f = 0 THEN 0 ELSE border
Last(log, border, f) == IF f = 0 THEN border ELSE Len(log)
Logged(log, border, f) == First(border, f) + 1 .. Last(log, border, f)

\* Where the n-th transaction ends in the file, if the file has it.
Place(log, border, f, n) == IF n = First(border, f) THEN 0 ELSE log[n].end
End(log, border, f) == Place(log, border, f, Last(log, border, f))

Swapped == hdr[1] # NoHeader
Top == IF Swapped THEN 1 ELSE 0

\* The first file has a readable end frame there.
EndFrameAt(i) == i <= Extent(0) /\ frames[0][i].type = "end"

\* The frames of the file behind "from" and up to "to" are the pages of the
\* transaction, one frame for each, and have the value v.
Holds(f, from, to, tx, v) ==
  /\ \A j \in from + 1 .. to :
       /\ frames[f][j].type = "page" /\ frames[f][j].val = v
       /\ tx.pages[frames[f][j].page].at = j
  /\ \A p \in PagesOf(tx) :
       /\ tx.pages[p].at \in from + 1 .. to
       /\ frames[f][tx.pages[p].at].page = p
  /\ \A p \in Page : tx.pages[p].at # 0 =>
       tx.pages[p].salt1 = f /\ tx.pages[p].cached \in {0, v}

\* The i-th transaction is in the file where the log says.
InLog(log, border, f, i) ==
  /\ log[i].id = i /\ log[i].salt1 = f
  /\ PagesOf(log[i]) = hist[i].pages
  /\ Place(log, border, f, i - 1) + 2 <= log[i].end
  /\ log[i].end <= End(log, border, f)
  /\ frames[f][log[i].end].type = "commit"
  /\ Holds(f, Place(log, border, f, i - 1), log[i].end - 1, log[i], hist[i].val)

LogInFiles(log, border) ==
  /\ log \in Seq(Transaction) /\ Len(log) = Len(hist)
  /\ border \in 0 .. Len(log)
  /\ \A f \in {0, 1} : \A i \in Logged(log, border, f) : InLog(log, border, f, i)

\* The first file has its first header for good; the second has none until
\* the log is swapped, which the end frame in the first announces.  Behind
\* the last transaction there may be the rest of another, but no commit.
FilesFit(log, border) ==
  /\ hdr[0] = FirstHeader /\ size[0] >= 1
  /\ hdr[1] = NoHeader => /\ border = Len(log)
                          /\ size[1] = 0 /\ frames[1] = <<>>
  /\ hdr[1] # NoHeader => /\ hdr[1].salt1 = 1 /\ hdr[1].nextTxId = border + 1
                          /\ size[1] >= 1
                          /\ EndFrameAt(End(log, border, 0) + 1)
  /\ \A f \in {0, 1} :
       /\ End(log, border, f) <= Len(frames[f])
       /\ hdr[f] # NoHeader => End(log, border, f) <= Extent(f)
       /\ \A i \in DOMAIN frames[f] :
            /\ frames[f][i].salt = <<hdr[f].salt1, hdr[f].salt2>>
            /\ i > End(log, border, f) => frames[f][i].type # "commit"

\* What a connection has of a transaction, apart from what is cached.
Same(tx, l, v) ==
  /\ tx.id = l.id /\ tx.salt1 = l.salt1 /\ tx.end = l.end
  /\ \A p \in Page : /\ tx.pages[p].at = l.pages[p].at
                     /\ tx.pages[p].at # 0 => /\ tx.pages[p].salt1 = l.pages[p].salt1
                                              /\ tx.pages[p].cached \in {0, v}

Known(log, tx) ==
  /\ tx.id \in 1 .. Len(log)
  /\ Same(tx, log[tx.id], hist[tx.id].val)

\* A connection stands in the file it reads right behind its last transaction.
StandsIn(log, border, c, f) ==
  /\ active[c] = hdr[f] /\ hdr[f] # NoHeader
  /\ txId[c] \in First(border, f) .. Last(log, border, f)
  /\ off[c] = Place(log, border, f, txId[c])

ViewFits(log, border, c) ==
  /\ txId[c] <= Len(log) /\ lo[c] = 1
  /\ \A i \in DOMAIN txs[c] : txs[c][i].id = i /\ Known(log, txs[c][i])
  /\ HasLoaded(c) => \E f \in {0, 1} : StandsIn(log, border, c, f)

MailFits(log, c) ==
  /\ \A i \in DOMAIN chan[c] : chan[c][i].type = "tx" /\ Known(log, chan[c][i].tx)
  /\ \A tx \in pend[c] : tx.id > txId[c] /\ Known(log, tx)
  /\ \A tx, ty \in pend[c] : tx.id = ty.id => tx = ty

\* A connection moves its view outside of transactions, or before it writes.
TaskFits(c) ==
  /\ pc[c] \notin {"create", "copy", "fault"} /\ ck[c] = NoCkpt /\ ~due[c]
  /\ pc[c] = "advance" => iso[c] # "read"
  /\ pc[c] \in {"catchUp", "closed", "joining", "gone"} => iso[c] = "none"
  /\ pc[c] = "publish" => iso[c] = "write"
  /\ iso[c] = "write" => wlock = c

\* A writer has seen all there is, and writes behind it.
WriterFits(log, border, c) ==
  /\ iso[c] = "write" /\ pc[c] # "advance" =>
       txId[c] = Len(log) /\ active[c] = hdr[Top]
  /\ pc[c] = "swap" => ~Swapped /\ EndFrameAt(End(log, border, 0) + 1)
  /\ cur[c] # NoTx => /\ pc[c] = "ready" /\ iso[c] = "write"
                      /\ cur[c].id = Len(log) + 1 /\ cur[c].salt1 = Top
                      /\ cur[c].end = Len(frames[Top]) /\ cur[c].end <= Extent(Top)
                      /\ attempts >= 1
                      /\ Holds(Top, End(log, border, Top), cur[c].end, cur[c], attempts)

LogFits(log, border) ==
  /\ LogInFiles(log, border) /\ FilesFit(log, border)
  /\ db = [p \in Page |-> 0] /\ attempts <= MaxAttempt
  /\ \A c \in Conn : /\ ViewFits(log, border, c) /\ MailFits(log, c)
                     /\ TaskFits(c) /\ WriterFits(log, border, c)

SnapshotInv == \E log \in Seq(Transaction) : \E border \in Nat : LogFits(log, border)

-----------------------------------------------------------------------------
(* Where things are *)

\* The places of a log are numbers.
LEMMA Places ==
  ASSUME NEW log \in Seq(Transaction), NEW border \in 0 .. Len(log), NEW f \in {0, 1}
  PROVE  /\ First(border, f) \in Nat /\ Last(log, border, f) \in Nat
         /\ First(border, f) <= Last(log, border, f) /\ Last(log, border, f) <= Len(log)
         /\ \A n \in First(border, f) .. Last(log, border, f) : Place(log, border, f, n) \in Nat
         /\ End(log, border, f) \in Nat
<1>1. Len(log) \in Nat  OBVIOUS
<1>2. /\ First(border, f) \in Nat /\ Last(log, border, f) \in Nat
      /\ First(border, f) <= Last(log, border, f) /\ Last(log, border, f) <= Len(log)
  BY <1>1 DEF First, Last
<1>3. ASSUME NEW n \in First(border, f) .. Last(log, border, f)
      PROVE  Place(log, border, f, n) \in Nat
  <2>1. n = First(border, f) \/ n \in 1 .. Len(log)  BY <1>1, <1>2
  <2>2. ASSUME n \in 1 .. Len(log)
        PROVE  log[n].end \in Nat
    <3>1. log[n] \in Transaction  BY <2>2
    <3> QED  BY <3>1 DEF Transaction
  <2> QED  BY <2>1, <2>2 DEF Place
<1>4. End(log, border, f) \in Nat  BY <1>2, <1>3 DEF End
<1> QED  BY <1>2, <1>3, <1>4

\* Every transaction is in one of the files.
LEMMA InWhichFile ==
  ASSUME NEW log \in Seq(Transaction), NEW border \in 0 .. Len(log), NEW i \in 1 .. Len(log)
  PROVE  \E f \in {0, 1} : i \in Logged(log, border, f)
<1>1. Len(log) \in Nat  OBVIOUS
<1>2. CASE i <= border  BY <1>1, <1>2 DEF Logged, First, Last
<1>3. CASE i > border  BY <1>1, <1>3 DEF Logged, First, Last
<1> QED  BY <1>1, <1>2, <1>3

\* A transaction is made of numbers.
LEMMA TransactionFacts ==
  ASSUME NEW tx \in Transaction
  PROVE  /\ tx.id \in Nat /\ tx.end \in Nat /\ tx.salt1 \in Nat
         /\ \A p \in Page : /\ tx.pages[p] \in PageEntry
                            /\ tx.pages[p].at \in Nat /\ tx.pages[p].salt1 \in Nat
                            /\ tx.pages[p].cached \in Nat
BY DEF Transaction, PageEntry

\* The parts of the invariant that a lemma about the files starts from.
LEMMA FilesFacts ==
  ASSUME ViewInv, NEW log \in Seq(Transaction), NEW border \in Nat, LogFits(log, border)
  PROVE  /\ LogInFiles(log, border) /\ FilesFit(log, border)
         /\ border \in 0 .. Len(log) /\ Len(log) = Len(hist) /\ Len(log) \in Nat
         /\ \A f \in {0, 1} : /\ frames[f] \in Seq(FrameBytes) /\ Len(frames[f]) \in Nat
                              /\ size[f] \in Nat /\ hdr[f] \in Header
                              /\ Extent(f) \in Int /\ Extent(f) <= Len(frames[f])
<1>1. FilesOK /\ hist \in Seq([val : Nat, pages : SUBSET Page])
  BY DEF ViewInv, TypeOK, HistoryOK
<1>2. LogInFiles(log, border) /\ FilesFit(log, border)  BY DEF LogFits
<1>3. border \in 0 .. Len(log) /\ Len(log) = Len(hist) /\ Len(log) \in Nat
  BY <1>2 DEF LogInFiles
<1>4. ASSUME NEW f \in {0, 1}
      PROVE  /\ frames[f] \in Seq(FrameBytes) /\ Len(frames[f]) \in Nat
             /\ size[f] \in Nat /\ hdr[f] \in Header
             /\ Extent(f) \in Int /\ Extent(f) <= Len(frames[f])
  <2>1. frames[f] \in Seq(FrameBytes) /\ size[f] \in Nat /\ hdr[f] \in Header
    BY <1>1 DEF FilesOK
  <2>2. Len(frames[f]) \in Nat  BY <2>1
  <2> QED  BY <2>1, <2>2 DEF Extent
<1> QED  BY <1>2, <1>3, <1>4

\* A file that has a header is the file of its salt, and all frames of its
\* extent can be read.
LEMMA HeaderFacts ==
  ASSUME ViewInv, NEW log \in Seq(Transaction), NEW border \in Nat, LogFits(log, border),
         NEW f \in {0, 1}, hdr[f] # NoHeader
  PROVE  /\ hdr[f].salt1 = f /\ FileOf(hdr[f].salt1) = f
         /\ HeaderOf(f) = hdr[f]
         /\ \A i \in Int : Readable(hdr[f], i) <=> i \in 1 .. Extent(f)
<1>1. FilesFit(log, border)  BY DEF LogFits
<1>2. hdr[f].salt1 = f /\ size[f] >= 1
  BY <1>1 DEF FilesFit, FirstHeader
<1>3. FileOf(hdr[f].salt1) = f  BY <1>2 DEF FileOf
<1>4. ASSUME NEW i \in 1 .. Extent(f)
      PROVE  frames[f][i].salt = <<hdr[f].salt1, hdr[f].salt2>>
  <2>1. i \in DOMAIN frames[f]  BY FilesFacts
  <2> QED  BY <1>1, <2>1 DEF FilesFit
<1>5. size[f] \in Nat  BY FilesFacts
<1> QED  BY <1>2, <1>3, <1>4, <1>5 DEF Readable, HeaderOf

\* The two headers are not taken for each other.
LEMMA TwoHeaders ==
  ASSUME ViewInv, NEW log \in Seq(Transaction), NEW border \in Nat, LogFits(log, border)
  PROVE  /\ hdr[0] # NoHeader /\ hdr[0] # hdr[1]
         /\ Top \in {0, 1} /\ hdr[Top] # NoHeader
         /\ ~Swapped => HeaderOf(1) = NoHeader
<1>1. hdr[0] = FirstHeader  BY DEF LogFits, FilesFit
<1>2. hdr[0] # NoHeader  BY <1>1 DEF FirstHeader, NoHeader
<1>3. hdr[1] = NoHeader \/ hdr[1].salt1 = 1  BY DEF LogFits, FilesFit
<1>4. hdr[0].salt1 = 0  BY <1>1 DEF FirstHeader
<1>5. ~Swapped => HeaderOf(1) = NoHeader  BY DEF LogFits, FilesFit, Swapped, HeaderOf
<1> QED  BY <1>2, <1>3, <1>4, <1>5 DEF Top, Swapped

\* What a transaction of the file is.
LEMMA LoggedFacts ==
  ASSUME ViewInv, NEW log \in Seq(Transaction), NEW border \in Nat, LogFits(log, border),
         NEW f \in {0, 1}, NEW i \in Logged(log, border, f)
  PROVE  /\ i \in 1 .. Len(log) /\ log[i] \in Transaction /\ log[i].end \in Nat
         /\ InLog(log, border, f, i)
         /\ i - 1 \in First(border, f) .. Last(log, border, f)
         /\ Place(log, border, f, i - 1) \in Nat
         /\ Place(log, border, f, i) = log[i].end
         /\ hdr[f] # NoHeader /\ log[i].end <= Extent(f)
<1>1. LogInFiles(log, border) /\ FilesFit(log, border) /\ border \in 0 .. Len(log)
      /\ Len(log) \in Nat
  BY FilesFacts
<1>2. /\ First(border, f) \in Nat /\ Last(log, border, f) \in Nat
      /\ Last(log, border, f) <= Len(log)
  BY <1>1, Places
<1>3. i \in Nat /\ First(border, f) < i /\ i <= Last(log, border, f)
  BY <1>2 DEF Logged
<1>4. i \in 1 .. Len(log) /\ i - 1 \in First(border, f) .. Last(log, border, f)
  BY <1>1, <1>2, <1>3
<1>5. log[i] \in Transaction /\ log[i].end \in Nat  BY <1>4, TransactionFacts
<1>6. InLog(log, border, f, i)  BY <1>1 DEF LogInFiles
<1>7. Place(log, border, f, i) = log[i].end  BY <1>2, <1>3 DEF Place
<1>8. Place(log, border, f, i - 1) \in Nat  BY <1>1, <1>4, Places
<1>9. hdr[f] # NoHeader
  <2>1. CASE f = 0  BY <2>1, TwoHeaders
  <2>2. CASE f = 1  BY <1>1, <1>3, <2>2 DEF FilesFit, First, Last
  <2> QED  BY <2>1, <2>2
<1>10. log[i].end <= Extent(f)
  <2>1. log[i].end <= End(log, border, f)  BY <1>6 DEF InLog
  <2>2. End(log, border, f) <= Extent(f)  BY <1>1, <1>9 DEF FilesFit
  <2>3. End(log, border, f) \in Nat /\ Extent(f) \in Int  BY <1>1, Places, FilesFacts
  <2> QED  BY <1>5, <2>1, <2>2, <2>3
<1> QED  BY <1>4, <1>5, <1>6, <1>7, <1>8, <1>9, <1>10

-----------------------------------------------------------------------------
(* What a connection finds behind its view *)

\* Behind its view is the next transaction, if the file has one.
LEMMA MoreToRead ==
  ASSUME ViewInv, NEW log \in Seq(Transaction), NEW border \in Nat, LogFits(log, border),
         NEW c \in Conn, NEW f \in {0, 1}, StandsIn(log, border, c, f),
         txId[c] < Last(log, border, f)
  PROVE  /\ txId[c] + 1 \in Logged(log, border, f)
         /\ TxAhead(c) /\ StopOf(c) = log[txId[c] + 1].end
         /\ PageAt(active[c], off[c] + 1) /\ ~EndAhead(c)
<1> DEFINE i == txId[c] + 1
           h == hdr[f]
           e == log[i].end
           n == Extent(f)
<1>1. /\ active[c] = h /\ h # NoHeader
      /\ txId[c] \in First(border, f) .. Last(log, border, f)
      /\ off[c] = Place(log, border, f, txId[c])
  BY DEF StandsIn
<1>2. i \in Logged(log, border, f)
  <2>1. First(border, f) \in Nat /\ Last(log, border, f) \in Nat  BY FilesFacts, Places
  <2> QED  BY <1>1, <2>1 DEF Logged
<1>3. /\ e \in Nat /\ InLog(log, border, f, i) /\ off[c] \in Nat /\ e <= n
      /\ off[c] = Place(log, border, f, i - 1) /\ n \in Int
  <2>1. i - 1 = txId[c]
    <3>1. txId[c] \in Nat  BY DEF ViewInv, TypeOK, ViewOK
    <3> QED  BY <3>1
  <2> HIDE DEF i
  <2> QED  BY <1>1, <1>2, <2>1, LoggedFacts, FilesFacts
<1> HIDE DEF i
<1>4. /\ off[c] + 2 <= e /\ frames[f][e].type = "commit"
      /\ \A j \in off[c] + 1 .. e - 1 : frames[f][j].type = "page"
  BY <1>3 DEF InLog, Holds
<1>5. FileOf(h.salt1) = f /\ \A j \in Int : Readable(h, j) <=> j \in 1 .. n
  BY <1>1, HeaderFacts
<1> HIDE DEF h, e, n
<1>6. /\ \A j \in off[c] + 1 .. e - 1 : PageAt(h, j)
      /\ ~PageAt(h, e) /\ CommitAt(h, e)
  BY <1>3, <1>4, <1>5 DEF PageAt, CommitAt
<1>7. PageAt(h, off[c] + 1) /\ ~EndAt(h, off[c] + 1)
  <2>1. off[c] + 1 \in off[c] + 1 .. e - 1  BY <1>3, <1>4
  <2>2. PageAt(h, off[c] + 1)  BY <1>6, <2>1
  <2> QED  BY <2>2 DEF PageAt, EndAt
<1>8. StopOf(c) = e
  <2> DEFINE P(m) == ~PageAt(h, m) /\ \A j \in off[c] + 1 .. m - 1 : PageAt(h, j)
             S == off[c] + 1 .. n + 1
  <2>1. e \in S  BY <1>3, <1>4
  <2>2. P(e)  BY <1>6
  <2>3. \A m \in S : P(m) => m = e
    <3> SUFFICES ASSUME NEW m \in S, P(m), m # e
                 PROVE  FALSE
      OBVIOUS
    <3>1. CASE m < e
      <4>1. m \in off[c] + 1 .. e - 1  BY <1>3, <3>1
      <4> QED  BY <1>6, <4>1
    <3>2. CASE m > e
      <4>1. e \in off[c] + 1 .. m - 1  BY <1>3, <1>4, <3>2
      <4> QED  BY <1>6, <4>1
    <3> QED  BY <1>3, <3>1, <3>2
  <2>4. StopOf(c) = CHOOSE m \in S : P(m)  BY <1>1, <1>5, Zenon DEF StopOf, n
  <2> HIDE DEF P, S
  <2> QED  BY <2>1, <2>2, <2>3, <2>4
<1>9. TxAhead(c)
  <2>1. InRange(c)  BY <1>1, <1>3, <1>4, <1>5 DEF InRange, n
  <2> QED  BY <1>1, <1>6, <1>8, <2>1 DEF TxAhead
<1> QED  BY <1>1, <1>2, <1>7, <1>8, <1>9 DEF EndAhead, e, i

\* Where the run of page frames stops.
LEMMA StopsAt ==
  ASSUME ViewInv, NEW log \in Seq(Transaction), NEW border \in Nat, LogFits(log, border),
         NEW c \in Conn, NEW f \in {0, 1}, StandsIn(log, border, c, f), off[c] <= Extent(f)
  PROVE  StopOf(c) \in off[c] + 1 .. Extent(f) + 1
<1>1. active[c] = hdr[f] /\ FileOf(hdr[f].salt1) = f
  BY HeaderFacts DEF StandsIn
<1> DEFINE n == Extent(f)
           h == hdr[f]
           S == {m \in off[c] + 1 .. n + 1 : ~PageAt(h, m)}
<1>2. off[c] \in Nat /\ n \in Int  BY FilesFacts DEF ViewInv, TypeOK, ViewOK
<1>3. S \in SUBSET Nat /\ S # {}
  <2>1. off[c] + 1 .. n + 1 \subseteq Nat  BY <1>2
  <2>2. ~PageAt(h, n + 1)
    <3>1. n + 1 \notin 1 .. n  BY <1>2
    <3> QED  BY <1>1, <3>1 DEF PageAt, Readable
  <2>3. n + 1 \in off[c] + 1 .. n + 1  BY <1>2
  <2> QED  BY <2>1, <2>2, <2>3
<1>4. PICK m \in S : \A x \in S : m <= x  BY <1>3, MinExists
<1>5. \A j \in off[c] + 1 .. m - 1 : PageAt(h, j)
  <2> SUFFICES ASSUME NEW j \in off[c] + 1 .. m - 1
               PROVE  PageAt(h, j)
    OBVIOUS
  <2>1. j \in off[c] + 1 .. n + 1 /\ ~(m <= j)  BY <1>2, <1>4
  <2> QED  BY <1>4, <2>1
<1> HIDE DEF n, h
<1>6. /\ m \in off[c] + 1 .. n + 1
      /\ ~PageAt(h, m) /\ \A j \in off[c] + 1 .. m - 1 : PageAt(h, j)
  BY <1>4, <1>5
<1>7. StopOf(c) \in off[c] + 1 .. n + 1  BY <1>1, <1>6, Zenon DEF StopOf, h, n
<1> QED  BY <1>7 DEF n

\* Behind the last transaction of a file is none, and an end frame counts if
\* the log was swapped.
LEMMA NoMoreToRead ==
  ASSUME ViewInv, NEW log \in Seq(Transaction), NEW border \in Nat, LogFits(log, border),
         NEW c \in Conn, NEW f \in {0, 1}, StandsIn(log, border, c, f),
         txId[c] = Last(log, border, f)
  PROVE  /\ ~TxAhead(c)
         /\ EndAhead(c) <=> f = 0 /\ Swapped
         /\ EndAhead(c) <=> EndAt(active[c], off[c] + 1)
<1>1. /\ active[c] = hdr[f] /\ hdr[f] # NoHeader
      /\ off[c] = End(log, border, f)
  BY DEF StandsIn, End
<1>2. /\ FileOf(hdr[f].salt1) = f /\ hdr[f].salt1 = f
      /\ \A j \in Int : Readable(hdr[f], j) <=> j \in 1 .. Extent(f)
  BY <1>1, HeaderFacts
<1>3. FilesFit(log, border) /\ Extent(f) \in Int /\ Extent(f) <= Len(frames[f])
      /\ frames[f] \in Seq(FrameBytes) /\ End(log, border, f) \in Nat
  BY FilesFacts, Places
<1>4. ~TxAhead(c)
  <2> SUFFICES ASSUME TxAhead(c)
               PROVE  FALSE
    OBVIOUS
  <2>1. off[c] <= Extent(f) /\ CommitAt(hdr[f], StopOf(c))
    BY <1>1, <1>2 DEF TxAhead, InRange
  <2>2. StopOf(c) \in off[c] + 1 .. Extent(f) + 1  BY <2>1, StopsAt
  <2>3. StopOf(c) \in 1 .. Extent(f) /\ frames[f][StopOf(c)].type = "commit"
    BY <1>2, <2>1 DEF CommitAt, Readable
  <2>4. StopOf(c) \in DOMAIN frames[f] /\ StopOf(c) > End(log, border, f)
    <3>1. DOMAIN frames[f] = 1 .. Len(frames[f]) /\ Len(frames[f]) \in Nat  BY <1>3
    <3> QED  BY <1>1, <1>3, <2>2, <2>3, <3>1
  <2> QED  BY <1>3, <2>3, <2>4 DEF FilesFit
<1>5. EndAhead(c) <=> EndAt(hdr[f], off[c] + 1)  BY <1>1 DEF EndAhead
<1>6. CASE f = 0 /\ Swapped
  <2>1. EndFrameAt(off[c] + 1)  BY <1>1, <1>3, <1>6 DEF FilesFit, Swapped
  <2>2. HeaderOf(1) = hdr[1] /\ hdr[1].salt1 = 1 /\ hdr[1] # NoHeader
    BY <1>6, HeaderFacts DEF Swapped
  <2>3. Readable(hdr[f], off[c] + 1) /\ frames[f][off[c] + 1].type = "end"
    BY <1>1, <1>2, <1>3, <1>6, <2>1 DEF EndFrameAt
  <2>4. Follows(hdr[f], HeaderOf(1 - f))  BY <1>2, <1>6, <2>2 DEF Follows
  <2>5. EndAt(hdr[f], off[c] + 1)  BY <1>2, <2>3, <2>4 DEF EndAt
  <2> QED  BY <1>1, <1>4, <1>5, <1>6, <2>5
<1>7. CASE f = 0 /\ ~Swapped
  <2>1. HeaderOf(1) = NoHeader  BY <1>7, TwoHeaders
  <2>2. ~EndAt(hdr[f], off[c] + 1)  BY <1>2, <1>7, <2>1 DEF EndAt, Follows
  <2> QED  BY <1>1, <1>4, <1>5, <1>7, <2>2
<1>8. CASE f = 1
  <2>1. HeaderOf(0) = hdr[0] /\ hdr[0].salt1 = 0  BY TwoHeaders, HeaderFacts
  <2>2. ~Follows(hdr[f], HeaderOf(1 - f))  BY <1>2, <1>8, <2>1 DEF Follows
  <2>3. ~EndAt(hdr[f], off[c] + 1)  BY <1>2, <2>2 DEF EndAt
  <2> QED  BY <1>1, <1>4, <1>5, <1>8, <2>3
<1> QED  BY <1>6, <1>7, <1>8

\* A connection that finds nothing behind its view has seen all there is.
LEMMA SeenAll ==
  ASSUME ViewInv, NEW log \in Seq(Transaction), NEW border \in Nat, LogFits(log, border),
         NEW c \in Conn, HasLoaded(c), ~EndAhead(c),
         ~TxAhead(c) \/ ~PageAt(active[c], off[c] + 1)
  PROVE  txId[c] = Len(log) /\ active[c] = hdr[Top]
<1>1. PICK f \in {0, 1} : StandsIn(log, border, c, f)
  BY DEF LogFits, ViewFits
<1>2. txId[c] \in First(border, f) .. Last(log, border, f)
      /\ Last(log, border, f) \in Nat /\ txId[c] \in Nat /\ FilesFit(log, border)
  BY <1>1, FilesFacts, Places DEF StandsIn, ViewInv, TypeOK, ViewOK
<1>3. txId[c] = Last(log, border, f)  BY <1>1, <1>2, MoreToRead
<1>4. ~(f = 0 /\ Swapped)  BY <1>1, <1>3, NoMoreToRead
<1>5. CASE f = 0
  <2>1. ~Swapped  BY <1>4, <1>5
  <2>2. border = Len(log)  BY <1>2, <2>1 DEF FilesFit, Swapped
  <2> QED  BY <1>1, <1>3, <1>5, <2>1, <2>2 DEF StandsIn, Last, Top
<1>6. CASE f = 1  BY <1>1, <1>3, <1>6 DEF StandsIn, Last, Top, Swapped
<1> QED  BY <1>5, <1>6

-----------------------------------------------------------------------------
(* What a connection reads *)

\* The pages of a transaction of the log are where the log says, and are read
\* as they were written, from the cache or from the file.
LEMMA KnownFacts ==
  ASSUME ViewInv, NEW log \in Seq(Transaction), NEW border \in Nat, LogFits(log, border),
         NEW tx, Known(log, tx)
  PROVE  /\ PagesOf(tx) = hist[tx.id].pages
         /\ \A p \in PagesOf(tx) : Fetch(tx.pages[p]) = hist[tx.id].val
<1> DEFINE i == tx.id
           v == hist[i].val
<1>1. i \in 1 .. Len(log) /\ Same(tx, log[i], v)  BY DEF Known
<1>2. border \in 0 .. Len(log)  BY FilesFacts
<1>3. PICK f \in {0, 1} : i \in Logged(log, border, f)  BY <1>1, <1>2, InWhichFile
<1> HIDE DEF i, v
<1>4. /\ InLog(log, border, f, i) /\ log[i] \in Transaction /\ log[i].end \in Nat
      /\ Place(log, border, f, i - 1) \in Nat /\ hdr[f] # NoHeader
      /\ log[i].end <= Extent(f) /\ Extent(f) \in Int
  BY <1>3, LoggedFacts, FilesFacts
<1>5. /\ PagesOf(log[i]) = hist[i].pages
      /\ Holds(f, Place(log, border, f, i - 1), log[i].end - 1, log[i], v)
  BY <1>4 DEF InLog, v
<1>6. \A p \in Page : p \in PagesOf(tx) <=> p \in PagesOf(log[i])
  BY <1>1 DEF PagesOf, Same
<1>7. PagesOf(tx) = PagesOf(log[i])  BY <1>6 DEF PagesOf
<1>8. ASSUME NEW p \in PagesOf(tx)
      PROVE  Fetch(tx.pages[p]) = v
  <2> DEFINE e == tx.pages[p]
  <2>1. p \in Page /\ p \in PagesOf(log[i]) /\ log[i].pages[p].at # 0
    BY <1>7, <1>8 DEF PagesOf
  <2>2. /\ e.at = log[i].pages[p].at /\ e.salt1 = log[i].pages[p].salt1
        /\ e.cached \in {0, v}
    BY <1>1, <2>1 DEF Same
  <2>3. /\ e.at \in Place(log, border, f, i - 1) + 1 .. log[i].end - 1
        /\ e.salt1 = f
    BY <1>5, <2>1, <2>2 DEF Holds
  <2>4. frames[f][e.at].val = v  BY <1>5, <2>3 DEF Holds
  <2>5. FileOf(e.salt1) = f  BY <2>3 DEF FileOf
  <2> HIDE DEF e
  <2>6. e.at \in 1 .. Extent(f)
    <3> DEFINE s == Place(log, border, f, i - 1)
               n == Extent(f)
               m == log[i].end
    <3>1. s \in Nat /\ n \in Int /\ m \in Nat /\ m <= n /\ e.at \in s + 1 .. m - 1
      BY <1>4, <2>3
    <3> HIDE DEF s, n, m
    <3>2. e.at \in 1 .. n  BY ONLY <3>1
    <3> QED  BY <3>2 DEF n
  <2>7. Fetch(e) = v  BY <2>2, <2>4, <2>5, <2>6 DEF Fetch
  <2> QED  BY <2>7 DEF e
<1> QED  BY <1>5, <1>7, <1>8 DEF i, v

\* What #readTx returns is the next transaction of the log.
LEMMA ReadIsKnown ==
  ASSUME ViewInv, NEW log \in Seq(Transaction), NEW border \in Nat, LogFits(log, border),
         NEW c \in Conn, NEW f \in {0, 1}, StandsIn(log, border, c, f), TxAhead(c)
  PROVE  /\ txId[c] + 1 \in Logged(log, border, f)
         /\ TxRead(c) \in Transaction /\ TxRead(c).id = txId[c] + 1
         /\ TxRead(c).end = log[txId[c] + 1].end
         /\ Known(log, TxRead(c))
<1> DEFINE i == txId[c] + 1
           e == log[i].end
           at(p) == {j \in off[c] + 1 .. e - 1 : frames[f][j].page = p}
           v == hist[i].val
<1>1. /\ active[c] = hdr[f] /\ hdr[f] # NoHeader
      /\ txId[c] \in First(border, f) .. Last(log, border, f)
      /\ off[c] = Place(log, border, f, txId[c])
      /\ Last(log, border, f) \in Nat /\ txId[c] \in Nat
  BY FilesFacts, Places DEF StandsIn, ViewInv, TypeOK, ViewOK
<1>2. txId[c] < Last(log, border, f)  BY <1>1, NoMoreToRead
<1>3. i \in Logged(log, border, f) /\ StopOf(c) = e  BY <1>2, MoreToRead
<1>4. i - 1 = txId[c]  BY <1>1
<1>5. FileOf(hdr[f].salt1) = f /\ hdr[f].salt1 = f  BY <1>1, HeaderFacts
<1>6. /\ TxRead(c).id = i /\ TxRead(c).salt1 = f /\ TxRead(c).end = e
      /\ TxRead(c).pages = [p \in Page |-> IF at(p) = {} THEN NoEntry
                                           ELSE [salt1 |-> f, at |-> Max(at(p)), cached |-> 0]]
  BY <1>1, <1>3, <1>5 DEF TxRead
<1> HIDE DEF i
<1>7. /\ InLog(log, border, f, i) /\ i \in 1 .. Len(log)
      /\ off[c] = Place(log, border, f, i - 1) /\ off[c] \in Nat /\ e \in Nat
      /\ log[i] \in Transaction
  BY <1>1, <1>3, <1>4, LoggedFacts
<1>8. log[i].id = i /\ log[i].salt1 = f /\ Holds(f, off[c], e - 1, log[i], v)
  BY <1>7 DEF InLog
<1> HIDE DEF e, v
<1>9. ASSUME NEW p \in Page, log[i].pages[p].at # 0
      PROVE  /\ at(p) # {} /\ Max(at(p)) = log[i].pages[p].at
             /\ log[i].pages[p].salt1 = f
  <2> DEFINE a == log[i].pages[p].at
  <2>1. /\ a \in off[c] + 1 .. e - 1 /\ frames[f][a].page = p
        /\ log[i].pages[p].salt1 = f
    BY <1>8, <1>9 DEF Holds, PagesOf
  <2>2. \A j \in at(p) : j = a  BY <1>8 DEF Holds
  <2>3. at(p) = {a}  BY <2>1, <2>2
  <2>4. a \in Nat  BY <1>7, TransactionFacts
  <2> HIDE DEF a, at
  <2>5. Max(at(p)) = a
    <3>1. at(p) \in SUBSET Nat /\ at(p) # {} /\ \A x \in at(p) : x <= a  BY <2>3, <2>4
    <3>2. Max(at(p)) \in at(p)  BY <2>4, <3>1, MaxBounded
    <3> QED  BY <2>3, <3>2
  <2> QED  BY <2>1, <2>3, <2>5 DEF a
<1>10. ASSUME NEW p \in Page, log[i].pages[p].at = 0
       PROVE  at(p) = {}
  <2>1. \A j \in at(p) : log[i].pages[p].at = j /\ j \in Nat /\ j # 0
    BY <1>7, <1>8 DEF Holds
  <2> QED  BY <1>10, <2>1
<1> HIDE DEF at
<1>11. ASSUME NEW p \in Page
       PROVE  /\ TxRead(c).pages[p].at = log[i].pages[p].at
              /\ TxRead(c).pages[p].at # 0 =>
                   /\ TxRead(c).pages[p].salt1 = log[i].pages[p].salt1
                   /\ TxRead(c).pages[p].cached \in {0, v}
  <2>1. CASE log[i].pages[p].at = 0
    BY <1>6, <1>10, <2>1 DEF NoEntry
  <2>2. CASE log[i].pages[p].at # 0
    BY <1>6, <1>9, <2>2
  <2> QED  BY <2>1, <2>2
<1>12. Same(TxRead(c), log[i], v)  BY <1>6, <1>8, <1>11 DEF Same, e
<1>13. Known(log, TxRead(c))  BY <1>6, <1>7, <1>12 DEF Known, v
<1> QED  BY <1>3, <1>6, <1>13, TxReadOK DEF i, e

\* An end frame that counts is where the first file ends.
LEMMA EndIsBorder ==
  ASSUME ViewInv, NEW log \in Seq(Transaction), NEW border \in Nat, LogFits(log, border),
         NEW c \in Conn, NEW f \in {0, 1}, StandsIn(log, border, c, f), EndAhead(c)
  PROVE  f = 0 /\ Swapped /\ txId[c] = border /\ hdr[Inactive(c)] = hdr[1]
<1>1. /\ active[c] = hdr[f] /\ hdr[f] # NoHeader
      /\ txId[c] \in First(border, f) .. Last(log, border, f)
      /\ Last(log, border, f) \in Nat /\ txId[c] \in Nat
  BY FilesFacts, Places DEF StandsIn, ViewInv, TypeOK, ViewOK
<1>2. txId[c] = Last(log, border, f)  BY <1>1, MoreToRead
<1>3. f = 0 /\ Swapped  BY <1>2, NoMoreToRead
<1>4. FileOf(active[c].salt1) = 0  BY <1>1, <1>3, HeaderFacts
<1> QED  BY <1>2, <1>3, <1>4 DEF Last, Inactive

\* A transaction that came by message, the next one, is in the file that is
\* read, or it is the first of the other one.
LEMMA NextIsThere ==
  ASSUME ViewInv, NEW log \in Seq(Transaction), NEW border \in Nat, LogFits(log, border),
         NEW c \in Conn, NEW f \in {0, 1}, StandsIn(log, border, c, f),
         NEW tx, Known(log, tx), tx.id = txId[c] + 1
  PROVE  \/ /\ tx.salt1 = active[c].salt1
            /\ tx.id \in Logged(log, border, f) /\ tx.end = Place(log, border, f, tx.id)
         \/ /\ tx.salt1 # active[c].salt1 /\ f = 0 /\ Swapped
            /\ Follows(active[c], HeaderOf(Inactive(c))) /\ hdr[Inactive(c)] = hdr[1]
            /\ tx.id \in Logged(log, border, 1) /\ tx.end = Place(log, border, 1, tx.id)
<1> DEFINE i == tx.id
<1>1. /\ active[c] = hdr[f] /\ hdr[f] # NoHeader /\ hdr[f].salt1 = f
      /\ txId[c] \in First(border, f) .. Last(log, border, f)
  BY HeaderFacts DEF StandsIn
<1>2. i \in 1 .. Len(log) /\ tx.salt1 = log[i].salt1 /\ tx.end = log[i].end
  BY DEF Known, Same
<1>3. border \in 0 .. Len(log) /\ Len(log) \in Nat  BY FilesFacts
<1>4. PICK g \in {0, 1} : i \in Logged(log, border, g)  BY <1>2, <1>3, InWhichFile
<1>5. /\ log[i].salt1 = g /\ Place(log, border, g, i) = log[i].end /\ hdr[g] # NoHeader
  <2>1. /\ InLog(log, border, g, i) /\ Place(log, border, g, i) = log[i].end
        /\ hdr[g] # NoHeader
    BY <1>4, LoggedFacts
  <2> QED  BY <2>1 DEF InLog
<1>6. CASE f = g  BY <1>1, <1>2, <1>4, <1>5, <1>6
<1>7. CASE f # g
  <2>1. f = 0 /\ g = 1
    <3>1. CASE f = 1 /\ g = 0
      BY <1>1, <1>3, <1>4, <3>1 DEF Logged, First, Last
    <3> QED  BY <1>7, <3>1
  <2>2. Swapped /\ HeaderOf(1) = hdr[1] /\ hdr[1].salt1 = 1
    BY <1>5, <2>1, HeaderFacts DEF Swapped
  <2>3. FileOf(active[c].salt1) = 0  BY <1>1, <2>1 DEF FileOf
  <2>4. Inactive(c) = 1  BY <2>3 DEF Inactive
  <2> QED  BY <1>1, <1>2, <1>4, <1>5, <2>1, <2>2, <2>4 DEF Follows, Swapped
<1> QED  BY <1>6, <1>7

-----------------------------------------------------------------------------
(* What a step leaves alone *)

\* The steps there are when nobody runs a checkpoint.
LogStep(c) ==
  \/ OpenLock(c) \/ OpenLoad(c)
  \/ SkipTx(c) \/ ReadTx(c) \/ FollowEnd(c) \/ AtEnd(c) \/ CaughtUp(c)
  \/ BeginRead(c) \/ BeginWrite(c) \/ Upgrade(c) \/ Rejoin(c)
  \/ Publish(c) \/ Receive(c) \/ GrantTxIdLock(c) \/ Backstop(c)
  \/ SwapEnd(c) \/ SwapHeader(c) \/ (\E p \in Page : WritePage(c, p))
  \/ Commit(c) \/ Rollback(c)
  \/ Close(c) \/ Crash(c)

\* No other step is possible.
LEMMA OnlyLogSteps ==
  ASSUME NeverCheckpoints, ViewInv, NEW log \in Seq(Transaction), NEW border \in Nat,
         LogFits(log, border), NEW c \in Conn, Step(c)
  PROVE  LogStep(c)
<1>1. /\ pc[c] \notin {"create", "copy", "fault"} /\ ck[c] = NoCkpt /\ ~due[c]
  BY DEF LogFits, TaskFits
<1>2. ck[c].phase = "off"  BY <1>1 DEF NoCkpt
<1>3. ~OpenEmpty(c) /\ ~OpenCreate(c)
  <2>1. HeaderOf(0) # NoHeader  BY TwoHeaders, HeaderFacts
  <2> QED  BY <1>1, <2>1 DEF OpenEmpty, OpenCreate
<1>4. ~(\E p \in Page : CkptCopy(c, p)) /\ ~CkptPost(c)  BY <1>1 DEF CkptCopy, CkptPost
<1>5. ~CkptPassive(c) /\ ~CkptFull(c) /\ ~CkptSkipped(c)
  BY <1>1 DEF CkptPassive, CkptFull, CkptSkipped, NeverCheckpoints
<1>6. /\ ~CkptFullLock(c) /\ ~CkptQuery(c) /\ ~CkptBusy(c) /\ ~CkptBegin(c)
      /\ ~CkptWait(c) /\ ~CkptTruncate(c)
  BY <1>2
  DEF CkptFullLock, CkptQuery, CkptBusy, CkptBegin, CkptWait, CkptTruncate, Ckpt
<1>7. ~Checkpointing(c)  BY <1>5, <1>6 DEF Checkpointing
<1>8. Opening(c) => OpenLock(c) \/ OpenLoad(c)  BY <1>3 DEF Opening
<1>9. Running(c) => \/ SkipTx(c) \/ ReadTx(c) \/ FollowEnd(c) \/ AtEnd(c) \/ CaughtUp(c)
                    \/ SwapHeader(c) \/ (\E p \in Page : WritePage(c, p)) \/ Publish(c)
  BY <1>4 DEF Running
<1>10. Using(c) => \/ BeginRead(c) \/ BeginWrite(c) \/ Upgrade(c)
                   \/ SwapEnd(c) \/ (\E p \in Page : WritePage(c, p))
                   \/ Commit(c) \/ Rollback(c)
  BY DEF Using
<1> QED  BY <1>5, <1>7, <1>8, <1>9, <1>10, Zenon DEF Step, LogStep

\* Nobody else is changed, except that a commit is announced.
Stays(d) ==
  /\ UNCHANGED <<pc[d], iso[d], txId[d], active[d], off[d], lo[d], txs[d]>>
  /\ UNCHANGED <<pend[d], cur[d], due[d], ck[d]>>

\* A step changes the connection that takes it only.
LEMMA OthersStay ==
  ASSUME ViewInv, NEW c \in Conn, LogStep(c), NEW d \in Conn, d # c
  PROVE  Stays(d) /\ (chan'[d] = chan[d] \/ Publish(c))
<1>1. /\ pc \in [Conn -> Tasks] /\ iso \in [Conn -> {"none", "read", "write"}]
      /\ txId \in [Conn -> Nat] /\ off \in [Conn -> Nat] /\ lo \in [Conn -> Nat]
      /\ active \in [Conn -> Header] /\ DOMAIN txs = Conn
      /\ pend \in [Conn -> SUBSET Transaction] /\ chan \in [Conn -> Seq(Message)]
      /\ cur \in [Conn -> Transaction] /\ due \in [Conn -> BOOLEAN] /\ ck \in [Conn -> Checkpoint]
  BY DEF ViewInv, TypeOK, ViewOK, TasksOK, MailOK
<1> USE DEF Stays
<1>2. CASE OpenLock(c) \/ OpenLoad(c)
  BY <1>1, <1>2 DEF OpenLock, OpenLoad, StartFrom, Goto, view
<1>3. CASE SkipTx(c)
  BY <1>1, <1>3 DEF SkipTx, Activate, AskCkpt, Goto, view
<1>4. CASE ReadTx(c)
  <2>1. Activate(c, TxRead(c)) /\ AskCkpt(c, pc[c] = "catchUp")
        /\ UNCHANGED <<chan, pc, iso, active, pend, cur, ck>>
    BY <1>4 DEF ReadTx
  <2> QED  BY <1>1, <2>1 DEF Activate, AskCkpt
<1>5. CASE FollowEnd(c) \/ AtEnd(c) \/ CaughtUp(c)
  BY <1>1, <1>5 DEF FollowEnd, AtEnd, CaughtUp, Goto, view
<1>6. CASE BeginRead(c) \/ BeginWrite(c) \/ Upgrade(c) \/ Rejoin(c)
  BY <1>1, <1>6 DEF BeginRead, BeginWrite, Upgrade, Rejoin, Goto, SetIso, view
<1>7. CASE Publish(c)
  BY <1>1, <1>7 DEF Publish, AskCkpt, Goto, view
<1>8. CASE Receive(c)
  BY <1>1, <1>8 DEF Receive, Absorb, Goto, view
<1>9. CASE GrantTxIdLock(c) \/ Backstop(c)
  BY <1>1, <1>9 DEF GrantTxIdLock, Backstop, Goto, view
<1>10. CASE SwapEnd(c) \/ SwapHeader(c) \/ Rollback(c)
  BY <1>1, <1>10 DEF SwapEnd, SwapHeader, Rollback, Goto, view
<1>11. CASE \E p \in Page : WritePage(c, p)
  <2>1. PICK p \in Page : WritePage(c, p)  BY <1>11
  <2>2. \E tx : cur' = [cur EXCEPT ![c] = tx]  BY <2>1, WritePageEffect
  <2>3. pc' = [pc EXCEPT ![c] = "ready"] /\ UNCHANGED <<chan, iso, view, pend, due, ck>>
    BY <2>1 DEF WritePage, Goto
  <2> QED  BY <1>1, <2>2, <2>3 DEF view
<1>12. CASE Commit(c)
  BY <1>1, <1>12 DEF Commit, Activate, Goto
<1>13. CASE Close(c) \/ Crash(c)
  <2>1. Depart(c)  BY <1>13 DEF Close, Crash
  <2> QED  BY <1>1, <2>1 DEF Depart, Goto, SetIso
<1> QED
  BY <1>2, <1>3, <1>4, <1>5, <1>6, <1>7, <1>8, <1>9, <1>10, <1>11, <1>12, <1>13, Zenon
  DEF LogStep

\* The log only grows, and its files keep their headers.
Grows(log, border, newLog, newBorder) ==
  /\ newLog \in Seq(Transaction) /\ Len(log) <= Len(newLog)
  /\ \A i \in 1 .. Len(log) : newLog[i] = log[i] /\ hist'[i] = hist[i]
  /\ \A f \in {0, 1} : hdr[f] # NoHeader =>
       /\ hdr'[f] = hdr[f] /\ First(newBorder, f) = First(border, f)
       /\ Last(log, border, f) <= Last(newLog, newBorder, f)

\* The same log, over the same headers and history.
LEMMA Unchanged ==
  ASSUME NEW log \in Seq(Transaction), NEW border \in 0 .. Len(log), hdr' = hdr, hist' = hist
  PROVE  Grows(log, border, log, border)
<1>1. \A f \in {0, 1} : Last(log, border, f) \in Nat  BY Places
<1> QED  BY <1>1 DEF Grows

\* What is known stays known.
LEMMA KnownGrows ==
  ASSUME NEW log \in Seq(Transaction), NEW border, NEW newLog, NEW newBorder,
         Grows(log, border, newLog, newBorder),
         NEW tx, Known(log, tx)
  PROVE  Known(newLog, tx)'
<1>1. tx.id \in 1 .. Len(log) /\ Len(log) \in Nat /\ Len(newLog) \in Nat  BY DEF Known, Grows
<1>2. tx.id \in 1 .. Len(newLog) /\ newLog[tx.id] = log[tx.id] /\ hist'[tx.id] = hist[tx.id]
  BY <1>1 DEF Grows
<1> QED  BY <1>2 DEF Known

\* A view that does not move still fits.
LEMMA ViewKept ==
  ASSUME ViewInv, NEW log \in Seq(Transaction), NEW border \in Nat, LogFits(log, border),
         NEW newLog \in Seq(Transaction), NEW newBorder \in 0 .. Len(newLog),
         Grows(log, border, newLog, newBorder), NEW d \in Conn,
         UNCHANGED <<txId[d], lo[d], txs[d], active[d], off[d]>>,
         HasLoaded(d)' => HasLoaded(d)
  PROVE  ViewFits(newLog, newBorder, d)'
<1>1. ViewFits(log, border, d) /\ border \in 0 .. Len(log)  BY FilesFacts DEF LogFits
<1>2. txId[d] \in Nat /\ Len(log) \in Nat /\ Len(newLog) \in Nat
  BY DEF ViewInv, TypeOK, ViewOK
<1>3. txId'[d] <= Len(newLog) /\ lo'[d] = 1  BY <1>1, <1>2 DEF ViewFits, Grows
<1>4. (\A i \in DOMAIN txs[d] : txs[d][i].id = i /\ Known(newLog, txs[d][i]))'
  <2> SUFFICES ASSUME NEW i \in DOMAIN txs'[d]
               PROVE  (txs[d][i].id = i /\ Known(newLog, txs[d][i]))'
    OBVIOUS
  <2>1. txs'[d] = txs[d] /\ txs[d][i].id = i /\ Known(log, txs[d][i])
    BY <1>1 DEF ViewFits
  <2>2. PICK tx : tx = txs[d][i]  OBVIOUS
  <2>3. Known(newLog, tx)'  BY <2>1, <2>2, KnownGrows
  <2>4. tx = txs'[d][i]  BY <2>1, <2>2
  <2> QED  BY <2>1, <2>3, <2>4
<1>5. ASSUME HasLoaded(d)'
      PROVE  \E f \in {0, 1} : StandsIn(newLog, newBorder, d, f)'
  <2>1. PICK f \in {0, 1} : StandsIn(log, border, d, f)  BY <1>1, <1>5 DEF ViewFits
  <2>2. /\ active[d] = hdr[f] /\ hdr[f] # NoHeader
        /\ txId[d] \in First(border, f) .. Last(log, border, f)
        /\ off[d] = Place(log, border, f, txId[d])
    BY <2>1 DEF StandsIn
  <2>3. /\ hdr'[f] = hdr[f] /\ First(newBorder, f) = First(border, f)
        /\ Last(log, border, f) <= Last(newLog, newBorder, f)
        /\ \A i \in 1 .. Len(log) : newLog[i] = log[i]
    BY <2>2 DEF Grows
  <2>4. /\ First(border, f) \in Nat /\ Last(log, border, f) \in Nat
        /\ Last(log, border, f) <= Len(log) /\ Last(newLog, newBorder, f) \in Nat
    BY <1>1, Places
  <2>5. txId[d] \in First(newBorder, f) .. Last(newLog, newBorder, f)
    BY <1>2, <2>2, <2>3, <2>4
  <2>6. Place(newLog, newBorder, f, txId[d]) = Place(log, border, f, txId[d])
    <3>1. txId[d] # First(border, f) => txId[d] \in 1 .. Len(log)  BY <1>2, <2>2, <2>4
    <3> QED  BY <2>3, <3>1 DEF Place
  <2>7. StandsIn(newLog, newBorder, d, f)'  BY <2>2, <2>3, <2>5, <2>6 DEF StandsIn
  <2> QED  BY <2>7
<1> QED  BY <1>3, <1>4, <1>5 DEF ViewFits

\* Messages stay good, and so does one that is added.
LEMMA MailKept ==
  ASSUME ViewInv, NEW log \in Seq(Transaction), NEW border \in Nat, LogFits(log, border),
         NEW newLog \in Seq(Transaction), NEW newBorder \in Nat,
         Grows(log, border, newLog, newBorder), NEW d \in Conn,
         UNCHANGED <<txId[d], pend[d]>>,
         \/ chan'[d] = chan[d]
         \/ \E m : m.type = "tx" /\ Known(log, m.tx) /\ chan'[d] = Append(chan[d], m)
  PROVE  MailFits(newLog, d)'
<1>1. MailFits(log, d)  BY DEF LogFits
<1>2. (\A tx \in pend[d] : tx.id > txId[d] /\ Known(newLog, tx))'
  BY <1>1, KnownGrows DEF MailFits
<1>3. \A tx, ty \in pend'[d] : tx.id = ty.id => tx = ty  BY <1>1 DEF MailFits
<1>4. \A i \in DOMAIN chan[d] :
        chan[d][i].type = "tx" /\ \E tx : tx = chan[d][i].tx /\ Known(newLog, tx)'
  BY <1>1, KnownGrows DEF MailFits
<1>5. (\A i \in DOMAIN chan[d] : chan[d][i].type = "tx" /\ Known(newLog, chan[d][i].tx))'
  <2> SUFFICES ASSUME NEW i \in DOMAIN chan'[d]
               PROVE  (chan[d][i].type = "tx" /\ Known(newLog, chan[d][i].tx))'
    OBVIOUS
  <2>1. CASE chan'[d] = chan[d]
    <3>1. PICK tx : tx = chan[d][i].tx /\ Known(newLog, tx)'  BY <1>4, <2>1
    <3>2. chan'[d][i].type = "tx" /\ tx = chan'[d][i].tx  BY <1>4, <2>1, <3>1
    <3> QED  BY <3>1, <3>2
  <2>2. CASE chan'[d] # chan[d]
    <3>1. PICK m : m.type = "tx" /\ Known(log, m.tx) /\ chan'[d] = Append(chan[d], m)
      BY <2>2
    <3>2. Known(newLog, m.tx)'  BY <3>1, KnownGrows
    <3>3. chan[d] \in Seq(Message)  BY DEF ViewInv, TypeOK, MailOK
    <3>4. (i \in DOMAIN chan[d] /\ chan'[d][i] = chan[d][i]) \/ chan'[d][i] = m
      BY <3>1, <3>3
    <3>5. PICK tx : tx = chan'[d][i].tx /\ Known(newLog, tx)'
      BY <1>4, <3>2, <3>4
    <3>6. chan'[d][i].type = "tx"  BY <1>4, <3>1, <3>4
    <3> QED  BY <3>5, <3>6
  <2> QED  BY <2>1, <2>2
<1> QED  BY <1>2, <1>3, <1>5 DEF MailFits

\* Only a connection that has the write lock, or finds it free, changes it.
LEMMA WlockStep ==
  ASSUME ViewInv, NEW log \in Seq(Transaction), NEW border \in Nat, LogFits(log, border),
         NEW c \in Conn, LogStep(c)
  PROVE  \/ wlock' = wlock
         \/ wlock = None /\ wlock' = c /\ (BeginWrite(c) \/ Upgrade(c))
         \/ wlock = c /\ wlock' = None /\ (Rejoin(c) \/ Close(c) \/ Crash(c))
<1>1. TaskFits(c)  BY DEF LogFits
<1>2. CASE OpenLock(c) \/ OpenLoad(c) \/ FollowEnd(c) \/ AtEnd(c) \/ CaughtUp(c)
  BY <1>2 DEF OpenLock, OpenLoad, FollowEnd, AtEnd, CaughtUp, locks
<1>3. CASE SkipTx(c)  BY <1>3 DEF SkipTx, locks
<1>4. CASE ReadTx(c)  BY <1>4 DEF ReadTx, locks
<1>5. CASE BeginRead(c) \/ BeginWrite(c) \/ Upgrade(c)
  BY <1>5 DEF BeginRead, BeginWrite, Upgrade, locks
<1>6. CASE Rejoin(c)
  BY <1>1, <1>6 DEF Rejoin, locks, TaskFits
<1>7. CASE Publish(c)  BY <1>7 DEF Publish, locks
<1>8. CASE Receive(c)  BY <1>8 DEF Receive, locks
<1>9. CASE GrantTxIdLock(c) \/ Backstop(c)  BY <1>9 DEF GrantTxIdLock, Backstop, locks
<1>10. CASE SwapEnd(c) \/ SwapHeader(c) \/ Rollback(c)
  BY <1>10 DEF SwapEnd, SwapHeader, Rollback, locks
<1>11. CASE (\E p \in Page : WritePage(c, p)) \/ Commit(c)
  BY <1>11 DEF WritePage, Commit, locks
<1>12. CASE Close(c) \/ Crash(c)
  <2>1. Depart(c)  BY <1>12 DEF Close, Crash
  <2> QED  BY <1>12, <2>1 DEF Depart
<1> QED
  BY <1>2, <1>3, <1>4, <1>5, <1>6, <1>7, <1>8, <1>9, <1>10, <1>11, <1>12, Zenon
  DEF LogStep

\* A connection announces what it has committed.
LEMMA PublishKnown ==
  ASSUME ViewInv, NEW log \in Seq(Transaction), NEW border \in Nat, LogFits(log, border),
         NEW c \in Conn, Publish(c), NEW d \in Conn
  PROVE  \/ chan'[d] = chan[d]
         \/ \E m : m.type = "tx" /\ Known(log, m.tx) /\ chan'[d] = Append(chan[d], m)
<1> DEFINE m == [type |-> "tx", tx |-> txs[c][txId[c]], id |-> 0]
<1>1. pc[c] = "publish" /\ Broadcast(c, m)  BY DEF Publish
<1>2. Known(log, txs[c][txId[c]])
  <2>1. lo[c] <= txId[c] /\ lo[c] \in Nat /\ txId[c] \in Nat
    BY <1>1 DEF ViewInv, ViewsContiguous, TypeOK, ViewOK
  <2>2. txId[c] \in DOMAIN txs[c]
    <3>1. txs[c] \in [Keys(c) -> Transaction] /\ Keys(c) = lo[c] .. txId[c]
      BY <1>1 DEF ViewInv, TypeOK, ViewOK, Keys
    <3> QED  BY <2>1, <3>1
  <2> QED  BY <2>2 DEF LogFits, ViewFits
<1>3. m.type = "tx" /\ Known(log, m.tx)  BY <1>2
<1>4. chan'[d] = chan[d] \/ chan'[d] = Append(chan[d], m)  BY <1>1 DEF Broadcast
<1> HIDE DEF m
<1> QED  BY <1>3, <1>4

\* The other connections still fit after a step: files and log are as before,
\* or the step is the writer's.
LEMMA OthersFit ==
  ASSUME ViewInv, NEW log \in Seq(Transaction), NEW border \in Nat, LogFits(log, border),
         NEW newLog \in Seq(Transaction), NEW newBorder \in 0 .. Len(newLog),
         Grows(log, border, newLog, newBorder), NEW c \in Conn, LogStep(c),
         \/ newLog = log /\ newBorder = border /\ UNCHANGED <<files, attempts>>
         \/ iso[c] = "write",
         NEW d \in Conn, d # c
  PROVE  /\ ViewFits(newLog, newBorder, d)' /\ MailFits(newLog, d)'
         /\ TaskFits(d)' /\ WriterFits(newLog, newBorder, d)'
<1>1. Stays(d) /\ (chan'[d] = chan[d] \/ Publish(c))  BY OthersStay
<1>2. HasLoaded(d)' => HasLoaded(d)  BY <1>1 DEF Stays, HasLoaded, IsOpen
<1>3. ViewFits(newLog, newBorder, d)'  BY <1>1, <1>2, ViewKept DEF Stays
<1>4. MailFits(newLog, d)'
  <2>1. \/ chan'[d] = chan[d]
        \/ \E m : m.type = "tx" /\ Known(log, m.tx) /\ chan'[d] = Append(chan[d], m)
    BY <1>1, PublishKnown
  <2>2. UNCHANGED <<txId[d], pend[d]>> /\ newBorder \in Nat  BY <1>1 DEF Stays
  <2> QED  BY <2>1, <2>2, MailKept
<1>5. TaskFits(d) /\ TaskFits(c) /\ WriterFits(log, border, d)  BY DEF LogFits
<1>6. TaskFits(d)'
  <2>1. iso[d] = "write" => wlock' = d
    <3>1. None \notin Conn  BY ConnAssumption
    <3> QED  BY <1>5, <3>1, WlockStep DEF TaskFits
  <2> QED  BY <1>1, <1>5, <2>1 DEF TaskFits, Stays
<1>7. WriterFits(newLog, newBorder, d)'
  <2>1. CASE newLog = log /\ newBorder = border /\ UNCHANGED <<files, attempts>>
    <3>1. UNCHANGED <<Top, Swapped>> /\ \A i : EndFrameAt(i)' <=> EndFrameAt(i)
      BY <2>1 DEF files, Top, Swapped, EndFrameAt, Extent
    <3>2. /\ UNCHANGED <<pc[d], iso[d], txId[d], active[d], cur[d]>>
          /\ UNCHANGED <<hdr, frames, size, attempts>> /\ UNCHANGED Extent(Top)
      BY <1>1, <2>1, <3>1 DEF Stays, files, Extent
    <3>3. Holds(Top, End(log, border, Top), cur[d].end, cur[d], attempts)' <=>
            Holds(Top, End(log, border, Top), cur[d].end, cur[d], attempts)
      BY <3>1, <3>2 DEF Holds, End, Place, First, Last
    <3> QED  BY <1>5, <2>1, <3>1, <3>2, <3>3 DEF WriterFits, End, Place, First, Last
  <2>2. CASE iso[c] = "write"
    <3>1. iso[d] # "write"  BY <1>5, <2>2 DEF TaskFits
    <3>2. pc[d] # "swap" /\ cur[d] = NoTx  BY <3>1 DEF ViewInv, WritersFrozen
    <3>3. iso'[d] # "write" /\ pc'[d] # "swap" /\ cur'[d] = NoTx
      BY <1>1, <3>1, <3>2 DEF Stays
    <3> QED  BY <3>3 DEF WriterFits
  <2> QED  BY <2>1, <2>2
<1> QED  BY <1>3, <1>4, <1>6, <1>7

-----------------------------------------------------------------------------
(* Steps that write no file *)

\* Every step of a connection but those of a writer to the files.
Quiet(c) ==
  \/ OpenLock(c) \/ OpenLoad(c)
  \/ SkipTx(c) \/ ReadTx(c) \/ FollowEnd(c) \/ AtEnd(c) \/ CaughtUp(c)
  \/ BeginRead(c) \/ BeginWrite(c) \/ Upgrade(c) \/ Rejoin(c)
  \/ Publish(c) \/ Receive(c) \/ GrantTxIdLock(c) \/ Backstop(c)
  \/ Close(c) \/ Crash(c)

\* They leave the log where it is.
LEMMA QuietFiles ==
  ASSUME NEW c \in Conn, Quiet(c)
  PROVE  UNCHANGED <<files, db, hist, attempts>>
<1>1. CASE OpenLock(c) \/ OpenLoad(c)
  BY <1>1 DEF OpenLock, OpenLoad, ghosts
<1>2. CASE SkipTx(c)  BY <1>2 DEF SkipTx, ghosts
<1>3. CASE ReadTx(c)  BY <1>3 DEF ReadTx, ghosts
<1>4. CASE FollowEnd(c) \/ AtEnd(c) \/ CaughtUp(c)
  BY <1>4 DEF FollowEnd, AtEnd, CaughtUp, ghosts
<1>5. CASE BeginRead(c) \/ BeginWrite(c) \/ Upgrade(c) \/ Rejoin(c)
  BY <1>5 DEF BeginRead, BeginWrite, Upgrade, Rejoin, ghosts
<1>6. CASE Publish(c)  BY <1>6 DEF Publish, ghosts
<1>7. CASE Receive(c)  BY <1>7 DEF Receive, ghosts
<1>8. CASE GrantTxIdLock(c) \/ Backstop(c)  BY <1>8 DEF GrantTxIdLock, Backstop, ghosts
<1>9. CASE Close(c) \/ Crash(c)
  BY <1>9, DepartEffect DEF ghosts
<1> QED
  BY <1>1, <1>2, <1>3, <1>4, <1>5, <1>6, <1>7, <1>8, <1>9, Zenon DEF Quiet

\* Log and files fit as long as neither changes.
LEMMA QuietLog ==
  ASSUME ViewInv, NEW log \in Seq(Transaction), NEW border \in Nat, LogFits(log, border),
         UNCHANGED <<files, hist>>
  PROVE  LogInFiles(log, border)' /\ FilesFit(log, border)'
<1>1. LogInFiles(log, border) /\ FilesFit(log, border)  BY DEF LogFits
<1>2. hdr' = hdr /\ frames' = frames /\ size' = size /\ hist' = hist  BY DEF files
<1>3. LogInFiles(log, border)'
  BY <1>1, <1>2 DEF LogInFiles, InLog, Holds, Place, End, Logged, First, Last
<1>4. FilesFit(log, border)'
  BY <1>1, <1>2 DEF FilesFit, EndFrameAt, Extent, Place, End, First, Last
<1> QED  BY <1>3, <1>4

\* A connection that is no writer, or a current one, is a good one.
LEMMA QuietWriter ==
  ASSUME ViewInv, NEW log \in Seq(Transaction), NEW border \in Nat, LogFits(log, border),
         NEW c \in Conn, UNCHANGED <<files, attempts>>, pc'[c] # "swap",
         iso'[c] = "write" /\ pc'[c] # "advance" =>
           txId'[c] = Len(log) /\ active'[c] = hdr[Top],
         cur'[c] = NoTx \/ UNCHANGED <<cur[c], pc[c], iso[c]>>
  PROVE  WriterFits(log, border, c)'
<1>1. WriterFits(log, border, c)  BY DEF LogFits
<1>2. UNCHANGED <<hdr, frames, size, attempts>> /\ UNCHANGED <<Top, Extent(Top)>>
  BY DEF files, Top, Swapped, Extent
<1>3. CASE cur'[c] = NoTx  BY <1>2, <1>3 DEF WriterFits
<1>4. CASE UNCHANGED <<cur[c], pc[c], iso[c]>>
  <2>1. Holds(Top, End(log, border, Top), cur[c].end, cur[c], attempts)' <=>
          Holds(Top, End(log, border, Top), cur[c].end, cur[c], attempts)
    BY <1>2, <1>4 DEF Holds, End, Place, First, Last
  <2> QED  BY <1>1, <1>2, <1>4, <2>1 DEF WriterFits
<1> QED  BY <1>3, <1>4

\* Steps that leave view and mail alone.
LEMMA StandingStep ==
  ASSUME ViewInv, NEW log \in Seq(Transaction), NEW border \in Nat, LogFits(log, border),
         NEW c \in Conn,
         \/ OpenLock(c) \/ AtEnd(c) \/ CaughtUp(c) \/ GrantTxIdLock(c) \/ Backstop(c)
         \/ BeginRead(c) \/ BeginWrite(c) \/ Upgrade(c) \/ Rejoin(c)
  PROVE  /\ UNCHANGED <<txId[c], lo[c], txs[c], active[c], off[c]>>
         /\ UNCHANGED <<pend[c], chan[c], cur[c], ck[c], due[c]>>
         /\ HasLoaded(c)' => HasLoaded(c)
<1>1. pc \in [Conn -> Tasks]  BY DEF ViewInv, TypeOK, TasksOK
<1>2. CASE OpenLock(c)  BY <1>1, <1>2 DEF OpenLock, Goto, view, HasLoaded, IsOpen
<1>3. CASE AtEnd(c) \/ CaughtUp(c) \/ Backstop(c)
  <2>1. HasLoaded(c)
    BY <1>3 DEF AtEnd, CaughtUp, Backstop, MustRead, Advancing, Ready, HasLoaded, IsOpen
  <2> QED  BY <1>1, <1>3, <2>1 DEF AtEnd, CaughtUp, Backstop, view
<1>4. CASE GrantTxIdLock(c) \/ BeginRead(c) \/ BeginWrite(c) \/ Upgrade(c) \/ Rejoin(c)
  <2>1. HasLoaded(c)
    BY <1>4 DEF GrantTxIdLock, BeginRead, BeginWrite, Upgrade, Rejoin, Ready, Usable,
        HasLoaded, IsOpen
  <2> QED  BY <1>1, <1>4, <2>1 DEF GrantTxIdLock, BeginRead, BeginWrite, Upgrade, Rejoin, view
<1> QED  BY <1>2, <1>3, <1>4

\* Nobody has a transaction in progress outside of his turn to write.
LEMMA NoCurrent ==
  ASSUME ViewInv, NEW c \in Conn, iso[c] # "write" \/ pc[c] \notin {"ready", "copy", "fault"}
  PROVE  cur[c] = NoTx
BY DEF ViewInv, WritersFrozen

\* Nothing is pending for a connection that has seen all.
LEMMA NothingIsPending ==
  ASSUME ViewInv, NEW log \in Seq(Transaction), NEW border \in Nat, LogFits(log, border),
         NEW c \in Conn, txId[c] = Len(log)
  PROVE  pend[c] = {}
<1>1. MailFits(log, c)  BY DEF LogFits
<1>2. \A tx \in pend[c] : tx.id > Len(log) /\ tx.id \in 1 .. Len(log)
  BY <1>1 DEF MailFits, Known
<1>3. Len(log) \in Nat  OBVIOUS
<1> QED  BY <1>2, <1>3

\* What those steps make of the task.
LEMMA StandingTask ==
  ASSUME ViewInv, NEW log \in Seq(Transaction), NEW border \in Nat, LogFits(log, border),
         NEW c \in Conn,
         \/ OpenLock(c) \/ AtEnd(c) \/ CaughtUp(c) \/ GrantTxIdLock(c) \/ Backstop(c)
         \/ BeginRead(c) \/ BeginWrite(c) \/ Upgrade(c) \/ Rejoin(c)
  PROVE  TaskFits(c)' /\ WriterFits(log, border, c)'
<1>1. /\ pc \in [Conn -> Tasks] /\ iso \in [Conn -> {"none", "read", "write"}]
      /\ txId \in [Conn -> Nat]
  BY DEF ViewInv, TypeOK, TasksOK, ViewOK
<1>2. TaskFits(c) /\ WriterFits(log, border, c)  BY DEF LogFits
<1>3. /\ UNCHANGED <<txId[c], active[c], pend[c], cur[c], ck[c], due[c]>>
      /\ UNCHANGED <<files, attempts>>
  <2>1. Quiet(c)  BY DEF Quiet
  <2> QED  BY <2>1, StandingStep, QuietFiles
<1>4. CASE OpenLock(c)
  <2>1. pc[c] = "closed" /\ pc'[c] = "joining" /\ UNCHANGED <<iso, wlock>>
    BY <1>1, <1>4 DEF OpenLock, Goto
  <2>2. iso[c] = "none" /\ cur[c] = NoTx  BY <1>2, <2>1, NoCurrent DEF TaskFits
  <2>3. TaskFits(c)'  BY <1>2, <1>3, <2>1, <2>2 DEF TaskFits
  <2> QED  BY <1>3, <2>1, <2>2, <2>3, QuietWriter
<1>5. CASE AtEnd(c)
  <2>1. pc[c] \in {"catchUp", "advance"} /\ HasLoaded(c)
    BY <1>5 DEF AtEnd, MustRead, Advancing, HasLoaded, IsOpen
  <2>2. txId[c] = Len(log) /\ active[c] = hdr[Top]
    BY <1>5, <2>1, SeenAll DEF AtEnd
  <2>3. pend[c] = {} /\ cur[c] = NoTx  BY <2>1, <2>2, NothingIsPending, NoCurrent
  <2>4. pc'[c] = "ready" /\ UNCHANGED <<iso, wlock>>
    BY <1>1, <1>5, <2>3 DEF AtEnd, Goto, locks
  <2>5. TaskFits(c)'  BY <1>2, <1>3, <2>4 DEF TaskFits
  <2> QED  BY <1>3, <2>2, <2>3, <2>4, <2>5, QuietWriter
<1>6. CASE CaughtUp(c)
  <2>1. pc[c] = "catchUp" /\ pc'[c] = "ready" /\ UNCHANGED <<iso, wlock>>
    BY <1>1, <1>6 DEF CaughtUp, Goto, locks
  <2>2. iso[c] = "none" /\ cur[c] = NoTx  BY <1>2, <2>1, NoCurrent DEF TaskFits
  <2>3. TaskFits(c)'  BY <1>2, <1>3, <2>1 DEF TaskFits
  <2> QED  BY <1>3, <2>1, <2>2, <2>3, QuietWriter
<1>7. CASE GrantTxIdLock(c)
  <2>1. pc[c] = "ready" /\ UNCHANGED <<pc, iso, wlock>>
    BY <1>7 DEF GrantTxIdLock, Ready
  <2>2. TaskFits(c)'  BY <1>2, <1>3, <2>1 DEF TaskFits
  <2>3. iso[c] = "write" => txId[c] = Len(log) /\ active[c] = hdr[Top]
    BY <1>2, <2>1 DEF WriterFits
  <2> QED  BY <1>3, <2>1, <2>2, <2>3, QuietWriter
<1>8. CASE Backstop(c)
  <2>1. iso[c] = "none" /\ pc'[c] = "advance" /\ UNCHANGED <<iso, wlock>>
    BY <1>1, <1>8 DEF Backstop, Goto, locks
  <2>2. cur[c] = NoTx  BY <2>1, NoCurrent
  <2>3. TaskFits(c)'  BY <1>2, <1>3, <2>1 DEF TaskFits
  <2> QED  BY <1>3, <2>1, <2>2, <2>3, QuietWriter
<1>9. CASE BeginRead(c)
  <2>1. pc[c] = "ready" /\ iso[c] = "none" /\ iso'[c] = "read" /\ UNCHANGED <<pc, wlock>>
    BY <1>1, <1>9 DEF BeginRead, SetIso, Usable, Ready, locks
  <2>2. cur[c] = NoTx  BY <2>1, NoCurrent
  <2>3. TaskFits(c)'  BY <1>2, <1>3, <2>1 DEF TaskFits
  <2> QED  BY <1>3, <2>1, <2>2, <2>3, QuietWriter
<1>10. CASE BeginWrite(c)
  <2>1. iso[c] = "none" /\ iso'[c] = "write" /\ pc'[c] = "advance" /\ wlock' = c
    BY <1>1, <1>10 DEF BeginWrite, SetIso, Goto
  <2>2. cur[c] = NoTx  BY <2>1, NoCurrent
  <2>3. TaskFits(c)'  BY <1>2, <1>3, <2>1 DEF TaskFits
  <2> QED  BY <1>3, <2>1, <2>2, <2>3, QuietWriter
<1>11. CASE Upgrade(c)
  <2>1. /\ pc[c] = "ready" /\ iso[c] = "read" /\ iso'[c] = "write" /\ UNCHANGED pc
        /\ wlock' = c /\ SnapshotIsLatest(c)
    BY <1>1, <1>11 DEF Upgrade, SetIso, Usable, Ready
  <2>2. HasLoaded(c)  BY <2>1 DEF HasLoaded, IsOpen
  <2>3. txId[c] = Len(log) /\ active[c] = hdr[Top]
    BY <2>1, <2>2, SeenAll DEF SnapshotIsLatest, EndAhead
  <2>4. cur[c] = NoTx  BY <2>1, NoCurrent
  <2>5. TaskFits(c)'  BY <1>2, <1>3, <2>1 DEF TaskFits
  <2> QED  BY <1>3, <2>1, <2>3, <2>4, <2>5, QuietWriter
<1>12. CASE Rejoin(c)
  <2>1. /\ pc[c] = "ready" /\ pc'[c] \in {"ready", "catchUp"} /\ iso'[c] = "none"
        /\ cur[c] = NoTx
    BY <1>1, <1>12 DEF Rejoin, SetIso, Goto, Usable, Ready
  <2>2. TaskFits(c)'  BY <1>2, <1>3, <2>1 DEF TaskFits
  <2> QED  BY <1>3, <2>1, <2>2, QuietWriter
<1> QED  BY <1>4, <1>5, <1>6, <1>7, <1>8, <1>9, <1>10, <1>11, <1>12

\* The next transaction extends the view by one.
LEMMA ActivateFits ==
  ASSUME ViewInv, NEW log \in Seq(Transaction), NEW border \in Nat, LogFits(log, border),
         NEW c \in Conn, pc[c] # "gone", UNCHANGED <<hdr, hist>>,
         NEW tx \in Transaction, Activate(c, tx), Known(log, tx), tx.id = txId[c] + 1,
         NEW f \in {0, 1}, active'[c] = hdr[f], hdr[f] # NoHeader,
         tx.id \in Logged(log, border, f), tx.end = Place(log, border, f, tx.id)
  PROVE  ViewFits(log, border, c)'
<1>1. ViewFits(log, border, c)  BY DEF LogFits
<1>2. /\ txId \in [Conn -> Nat] /\ lo \in [Conn -> Nat] /\ off \in [Conn -> Nat]
      /\ DOMAIN txs = Conn /\ txs[c] \in [Keys(c) -> Transaction]
  BY DEF ViewInv, TypeOK, ViewOK
<1>3. Keys(c) = lo[c] .. txId[c]  BY DEF Keys
<1>4. /\ txId'[c] = tx.id /\ off'[c] = tx.end /\ lo'[c] = lo[c]
      /\ txs'[c] = [i \in lo[c] .. tx.id |-> IF i = tx.id THEN tx ELSE txs[c][i]]
  BY <1>2 DEF Activate
<1>5. Len(log) \in Nat /\ tx.id \in 1 .. Len(log)  BY DEF Known
<1>6. (\A i \in DOMAIN txs[c] : txs[c][i].id = i /\ Known(log, txs[c][i]))'
  <2> SUFFICES ASSUME NEW i \in DOMAIN txs'[c]
               PROVE  (txs[c][i].id = i /\ Known(log, txs[c][i]))'
    OBVIOUS
  <2>1. i \in lo[c] .. tx.id /\ txs'[c][i] = (IF i = tx.id THEN tx ELSE txs[c][i])
    BY <1>4
  <2>2. PICK t : t = txs'[c][i]  OBVIOUS
  <2>3. t.id = i /\ Known(log, t)
    <3>1. CASE i = tx.id  BY <2>1, <2>2, <3>1
    <3>2. CASE i # tx.id
      <4>1. i \in DOMAIN txs[c]  BY <1>2, <1>3, <2>1, <3>2
      <4> QED  BY <1>1, <2>1, <2>2, <3>2, <4>1 DEF ViewFits
    <3> QED  BY <3>1, <3>2
  <2>4. Known(log, t)'  BY <2>3 DEF Known
  <2> QED  BY <2>2, <2>3, <2>4
<1>7. StandsIn(log, border, c, f)'
  <2>1. tx.id \in First(border, f) .. Last(log, border, f)
    <3>1. First(border, f) \in Nat /\ Last(log, border, f) \in Nat  BY FilesFacts, Places
    <3> QED  BY <3>1 DEF Logged
  <2> QED  BY <1>4, <2>1 DEF StandsIn
<1>8. txId'[c] <= Len(log) /\ lo'[c] = 1  BY <1>1, <1>4, <1>5 DEF ViewFits
<1> QED  BY <1>6, <1>7, <1>8 DEF ViewFits

\* A transaction that came by message is applied.
LEMMA SkipTxFits ==
  ASSUME NeverCheckpoints, ViewInv, NEW log \in Seq(Transaction), NEW border \in Nat,
         LogFits(log, border), NEW c \in Conn, SkipTx(c)
  PROVE  /\ ViewFits(log, border, c)' /\ MailFits(log, c)'
         /\ TaskFits(c)' /\ WriterFits(log, border, c)'
<1>1. /\ pc \in [Conn -> Tasks] /\ txId \in [Conn -> Nat] /\ active \in [Conn -> Header]
      /\ pend \in [Conn -> SUBSET Transaction] /\ chan \in [Conn -> Seq(Message)]
  BY DEF ViewInv, TypeOK, TasksOK, ViewOK, MailOK
<1>2. TaskFits(c) /\ MailFits(log, c) /\ ViewFits(log, border, c)  BY DEF LogFits
<1>3. /\ pc[c] \in {"catchUp", "advance"} /\ UNCHANGED <<files, locks, chan, iso, cur, ck>>
      /\ UNCHANGED <<hist, attempts>> /\ due' = due
  BY DEF SkipTx, Advancing, ghosts, AskCkpt, NeverCheckpoints
<1>4. PICK tx \in Next1(c) :
        /\ pend' = [pend EXCEPT ![c] = @ \ {tx}]
        /\ IF tx.salt1 = active[c].salt1
             THEN Activate(c, tx) /\ Goto(c, pc[c]) /\ UNCHANGED active
             ELSE IF Follows(active[c], HeaderOf(Inactive(c)))
             THEN /\ active' = [active EXCEPT ![c] = hdr[Inactive(c)]]
                  /\ Activate(c, tx) /\ Goto(c, pc[c])
             ELSE Goto(c, "fault") /\ UNCHANGED view
  BY DEF SkipTx
<1>5. tx \in pend[c] /\ tx.id = txId[c] + 1 /\ tx \in Transaction /\ Known(log, tx)
  BY <1>1, <1>2, <1>4 DEF Next1, MailFits
<1>6. HasLoaded(c)  BY <1>3 DEF HasLoaded, IsOpen
<1>7. PICK f \in {0, 1} : StandsIn(log, border, c, f)  BY <1>2, <1>6 DEF ViewFits
<1>8. /\ Activate(c, tx) /\ pc' = pc
      /\ \E g \in {0, 1} : /\ active'[c] = hdr[g] /\ hdr[g] # NoHeader
                           /\ tx.id \in Logged(log, border, g)
                           /\ tx.end = Place(log, border, g, tx.id)
  <2>1. CASE /\ tx.salt1 = active[c].salt1
             /\ tx.id \in Logged(log, border, f) /\ tx.end = Place(log, border, f, tx.id)
    BY <1>1, <1>4, <1>7, <2>1 DEF Goto, StandsIn
  <2>2. CASE /\ tx.salt1 # active[c].salt1 /\ f = 0 /\ Swapped
             /\ Follows(active[c], HeaderOf(Inactive(c))) /\ hdr[Inactive(c)] = hdr[1]
             /\ tx.id \in Logged(log, border, 1) /\ tx.end = Place(log, border, 1, tx.id)
    BY <1>1, <1>4, <2>2 DEF Goto, Swapped
  <2> QED  BY <1>5, <1>7, <2>1, <2>2, NextIsThere
<1>9. ViewFits(log, border, c)'
  BY <1>3, <1>5, <1>8, ActivateFits DEF files
<1>10. MailFits(log, c)'
  <2>1. pend'[c] = pend[c] \ {tx} /\ txId'[c] = txId[c] + 1 /\ txId[c] \in Nat
    BY <1>1, <1>4, <1>5, <1>8 DEF Activate
  <2>2. ASSUME NEW t \in pend'[c]
        PROVE  t.id > txId'[c] /\ Known(log, t)'
    <3>1. t \in pend[c] /\ t # tx  BY <2>1
    <3>2. t.id > txId[c] /\ t.id # tx.id /\ Known(log, t)  BY <1>2, <1>5, <3>1 DEF MailFits
    <3>3. t.id \in Nat  BY <1>1, <3>1, TransactionFacts
    <3>4. Known(log, t)'  BY <1>3, <3>2 DEF Known
    <3> QED  BY <1>5, <2>1, <3>2, <3>3, <3>4
  <2>3. \A s, t \in pend'[c] : s.id = t.id => s = t  BY <1>2, <2>1 DEF MailFits
  <2>4. (\A i \in DOMAIN chan[c] : chan[c][i].type = "tx" /\ Known(log, chan[c][i].tx))'
    BY <1>2, <1>3 DEF MailFits, Known
  <2> QED  BY <2>2, <2>3, <2>4 DEF MailFits
<1>11. TaskFits(c)'  BY <1>2, <1>3, <1>8 DEF TaskFits, locks
<1>12. WriterFits(log, border, c)'
  <2>1. cur'[c] = NoTx  BY <1>3, NoCurrent
  <2>2. iso[c] = "write" => pc'[c] = "advance"  BY <1>2, <1>3, <1>8 DEF TaskFits
  <2>3. pc'[c] # "swap"  BY <1>3, <1>8
  <2> QED  BY <1>3, <2>1, <2>2, <2>3, QuietWriter
<1> QED  BY <1>9, <1>10, <1>11, <1>12

\* The next transaction is read from the file.
LEMMA ReadTxFits ==
  ASSUME NeverCheckpoints, ViewInv, NEW log \in Seq(Transaction), NEW border \in Nat,
         LogFits(log, border), NEW c \in Conn, ReadTx(c)
  PROVE  /\ ViewFits(log, border, c)' /\ MailFits(log, c)'
         /\ TaskFits(c)' /\ WriterFits(log, border, c)'
<1>1. /\ txId \in [Conn -> Nat] /\ DOMAIN txs = Conn
      /\ pend \in [Conn -> SUBSET Transaction] /\ chan \in [Conn -> Seq(Message)]
  BY DEF ViewInv, TypeOK, TasksOK, ViewOK, MailOK
<1>2. TaskFits(c) /\ MailFits(log, c) /\ ViewFits(log, border, c)  BY DEF LogFits
<1>3. /\ UNCHANGED <<files, locks, chan, pc, iso, active, pend, cur, ck>>
      /\ UNCHANGED <<hist, attempts>> /\ due' = due
      /\ TxAhead(c) /\ Activate(c, TxRead(c))
  BY DEF ReadTx, ghosts, AskCkpt, NeverCheckpoints
<1>4. /\ pc[c] \in {"catchUp", "advance"}
      /\ \A tx \in pend[c] : tx.id # txId[c] + 1
  BY DEF ReadTx, MustRead, Advancing, Next1
<1>5. HasLoaded(c)  BY <1>4 DEF HasLoaded, IsOpen
<1>6. PICK f \in {0, 1} : StandsIn(log, border, c, f)  BY <1>2, <1>5 DEF ViewFits
<1>7. PICK tx : tx = TxRead(c)  OBVIOUS
<1>8. /\ tx \in Transaction /\ tx.id = txId[c] + 1 /\ Known(log, tx)
      /\ tx.id \in Logged(log, border, f) /\ tx.end = log[tx.id].end
  BY <1>3, <1>6, <1>7, ReadIsKnown
<1>9. tx.end = Place(log, border, f, tx.id)  BY <1>8, LoggedFacts
<1>10. Activate(c, tx)  BY <1>3, <1>7
<1>11. active'[c] = hdr[f] /\ hdr[f] # NoHeader  BY <1>3, <1>6 DEF StandsIn
<1>12. ViewFits(log, border, c)'
  <2>1. pc[c] # "gone" /\ UNCHANGED <<hdr, hist>>  BY <1>3, <1>4 DEF files
  <2> QED  BY <1>8, <1>9, <1>10, <1>11, <2>1, ActivateFits
<1>13. MailFits(log, c)'
  <2>1. txId'[c] = txId[c] + 1 /\ txId[c] \in Nat  BY <1>1, <1>8, <1>10 DEF Activate
  <2>2. ASSUME NEW t \in pend'[c]
        PROVE  t.id > txId'[c] /\ Known(log, t)'
    <3>1. t \in pend[c] /\ t.id > txId[c] /\ t.id # txId[c] + 1 /\ Known(log, t)
      BY <1>2, <1>3, <1>4 DEF MailFits
    <3>2. t.id \in Nat  BY <1>1, <3>1, TransactionFacts
    <3>3. Known(log, t)'  BY <1>3, <3>1 DEF Known
    <3> QED  BY <2>1, <3>1, <3>2, <3>3
  <2>3. \A s, t \in pend'[c] : s.id = t.id => s = t  BY <1>2, <1>3 DEF MailFits
  <2>4. (\A i \in DOMAIN chan[c] : chan[c][i].type = "tx" /\ Known(log, chan[c][i].tx))'
    BY <1>2, <1>3 DEF MailFits, Known
  <2> QED  BY <2>2, <2>3, <2>4 DEF MailFits
<1>14. TaskFits(c)'  BY <1>2, <1>3 DEF TaskFits, locks
<1>15. WriterFits(log, border, c)'
  <2>1. cur'[c] = NoTx  BY <1>3, <1>4, NoCurrent
  <2>2. iso[c] = "write" => pc'[c] = "advance"  BY <1>2, <1>3, <1>4 DEF TaskFits
  <2>3. pc'[c] # "swap"  BY <1>3, <1>4
  <2> QED  BY <1>3, <2>1, <2>2, <2>3, QuietWriter
<1> QED  BY <1>12, <1>13, <1>14, <1>15

\* The other file is followed.
LEMMA FollowEndFits ==
  ASSUME ViewInv, NEW log \in Seq(Transaction), NEW border \in Nat, LogFits(log, border),
         NEW c \in Conn, FollowEnd(c)
  PROVE  /\ ViewFits(log, border, c)' /\ MailFits(log, c)'
         /\ TaskFits(c)' /\ WriterFits(log, border, c)'
<1>1. active \in [Conn -> Header] /\ off \in [Conn -> Nat]  BY DEF ViewInv, TypeOK, ViewOK
<1>2. TaskFits(c) /\ MailFits(log, c) /\ ViewFits(log, border, c)  BY DEF LogFits
<1>3. /\ UNCHANGED <<files, locks, chan, pc, iso, txId, lo, txs, pend, cur, due, ck>>
      /\ UNCHANGED <<hist, attempts>> /\ EndAhead(c)
      /\ pc[c] \in {"catchUp", "advance"}
      /\ active'[c] = hdr[Inactive(c)] /\ off'[c] = 0
  BY <1>1 DEF FollowEnd, ghosts, MustRead, Advancing
<1>4. HasLoaded(c)  BY <1>3 DEF HasLoaded, IsOpen
<1>5. PICK f \in {0, 1} : StandsIn(log, border, c, f)  BY <1>2, <1>4 DEF ViewFits
<1>6. Swapped /\ txId[c] = border /\ active'[c] = hdr[1]
  BY <1>3, <1>5, EndIsBorder
<1>7. StandsIn(log, border, c, 1)'
  <2>1. border \in First(border, 1) .. Last(log, border, 1)
        /\ Place(log, border, 1, border) = 0
    BY FilesFacts DEF First, Last, Place
  <2> QED  BY <1>3, <1>6, <2>1 DEF StandsIn, Swapped, files
<1>8. ViewFits(log, border, c)'
  <2>1. (\A i \in DOMAIN txs[c] : txs[c][i].id = i /\ Known(log, txs[c][i]))'
    BY <1>2, <1>3 DEF ViewFits, Known
  <2> QED  BY <1>2, <1>3, <1>7, <2>1 DEF ViewFits
<1>9. MailFits(log, c)'  BY <1>2, <1>3 DEF MailFits, Known
<1>10. TaskFits(c)'  BY <1>2, <1>3 DEF TaskFits, locks
<1>11. WriterFits(log, border, c)'
  <2>1. cur'[c] = NoTx  BY <1>3, NoCurrent
  <2>2. iso[c] = "write" => pc'[c] = "advance"  BY <1>2, <1>3 DEF TaskFits
  <2>3. pc'[c] # "swap"  BY <1>3
  <2> QED  BY <1>3, <2>1, <2>2, <2>3, QuietWriter
<1> QED  BY <1>8, <1>9, <1>10, <1>11

\* A connection that opens starts with the first file.
LEMMA OpenLoadFits ==
  ASSUME ViewInv, NEW log \in Seq(Transaction), NEW border \in Nat, LogFits(log, border),
         NEW c \in Conn, OpenLoad(c)
  PROVE  /\ ViewFits(log, border, c)' /\ MailFits(log, c)'
         /\ TaskFits(c)' /\ WriterFits(log, border, c)'
<1>1. /\ pc \in [Conn -> Tasks] /\ txId \in [Conn -> Nat] /\ lo \in [Conn -> Nat]
      /\ off \in [Conn -> Nat] /\ active \in [Conn -> Header]
  BY DEF ViewInv, TypeOK, TasksOK, ViewOK
<1>2. TaskFits(c) /\ MailFits(log, c) /\ ViewFits(log, border, c)  BY DEF LogFits
<1>3. /\ UNCHANGED <<files, locks, chan, iso, pend, cur, due, ck>>
      /\ UNCHANGED <<hist, attempts>> /\ pc[c] = "joining"
  BY DEF OpenLoad, ghosts
<1>4. PICK f \in {0, 1} : /\ HeaderOf(f) # NoHeader /\ StartFrom(c, hdr[f])
                          /\ HeaderOf(1 - f) # NoHeader => IsFirst(f)
  BY DEF OpenLoad
<1>5. hdr[0] = FirstHeader /\ hdr[0].nextTxId = 1  BY DEF LogFits, FilesFit, FirstHeader
<1>6. f = 0
  <2> SUFFICES ASSUME f = 1
               PROVE  FALSE
    OBVIOUS
  <2>1. HeaderOf(0) # NoHeader  BY TwoHeaders, HeaderFacts
  <2>2. hdr[1].nextTxId < 1  BY <1>4, <1>5, <2>1 DEF IsFirst
  <2>3. hdr[1] # NoHeader  BY <1>4 DEF HeaderOf
  <2>4. hdr[1].nextTxId = border + 1  BY <2>3 DEF LogFits, FilesFit
  <2> QED  BY <2>2, <2>4
<1>7. /\ txId'[c] = 0 /\ lo'[c] = 1 /\ active'[c] = hdr[0] /\ off'[c] = 0
      /\ txs' = txs /\ pc'[c] = "advance"
  BY <1>1, <1>4, <1>5, <1>6 DEF StartFrom, Goto
<1>8. txId[c] = 0  BY <1>3 DEF ViewInv, ViewsContiguous
<1>9. StandsIn(log, border, c, 0)'
  <2>1. 0 \in First(border, 0) .. Last(log, border, 0) /\ Place(log, border, 0, 0) = 0
    BY DEF First, Last, Place
  <2>2. hdr[0] # NoHeader /\ hdr' = hdr  BY <1>3, TwoHeaders DEF files
  <2> QED  BY <1>7, <2>1, <2>2 DEF StandsIn
<1>10. ViewFits(log, border, c)'
  <2>1. (\A i \in DOMAIN txs[c] : txs[c][i].id = i /\ Known(log, txs[c][i]))'
    BY <1>2, <1>3, <1>7 DEF ViewFits, Known
  <2>2. 0 <= Len(log)  OBVIOUS
  <2> QED  BY <1>7, <1>9, <2>1, <2>2 DEF ViewFits
<1>11. MailFits(log, c)'
  BY <1>2, <1>3, <1>7, <1>8 DEF MailFits, Known
<1>12. iso[c] = "none" /\ cur[c] = NoTx  BY <1>2, <1>3, NoCurrent DEF TaskFits
<1>13. TaskFits(c)'  BY <1>2, <1>3, <1>7, <1>12 DEF TaskFits
<1>14. WriterFits(log, border, c)'
  BY <1>3, <1>7, <1>12, QuietWriter
<1> QED  BY <1>10, <1>11, <1>13, <1>14

\* A message is a transaction of the log.
LEMMA ReceiveFits ==
  ASSUME ViewInv, NEW log \in Seq(Transaction), NEW border \in Nat, LogFits(log, border),
         NEW c \in Conn, Receive(c)
  PROVE  /\ ViewFits(log, border, c)' /\ MailFits(log, c)'
         /\ TaskFits(c)' /\ WriterFits(log, border, c)'
<1>1. /\ pc \in [Conn -> Tasks] /\ chan \in [Conn -> Seq(Message)]
      /\ pend \in [Conn -> SUBSET Transaction]
  BY DEF ViewInv, TypeOK, TasksOK, MailOK
<1>2. TaskFits(c) /\ MailFits(log, c) /\ ViewFits(log, border, c) /\ WriterFits(log, border, c)
  BY DEF LogFits
<1>3. /\ UNCHANGED <<files, locks, iso, cur, due, ck>> /\ UNCHANGED <<hist, attempts>>
      /\ pc[c] = "ready" /\ chan[c] # <<>> /\ chan'[c] = Tail(chan[c])
  BY <1>1 DEF Receive, Ready, ghosts
<1>4. PICK m : m = Head(chan[c])  OBVIOUS
<1>5. m.type = "tx" /\ Known(log, m.tx)
  <2>1. chan[c] \in Seq(Message)  BY <1>1
  <2>2. 1 \in DOMAIN chan[c] /\ m = chan[c][1]  BY <1>3, <1>4, <2>1
  <2> QED  BY <1>2, <2>2 DEF MailFits
<1>6. /\ UNCHANGED view
      /\ \/ /\ m.tx.id > txId[c] /\ pc'[c] = OnTx(c)
            /\ pend'[c] = {tx \in pend[c] : tx.id # m.tx.id} \cup {m.tx}
         \/ UNCHANGED <<pc, pend>>
  BY <1>1, <1>4, <1>5 DEF Receive, Goto
<1>7. MailFits(log, c)'
  <2>1. ASSUME NEW t \in pend'[c]
        PROVE  t.id > txId'[c] /\ Known(log, t)'
    <3>1. t \in pend[c] \/ (t = m.tx /\ m.tx.id > txId[c])  BY <1>6, <2>1
    <3>2. t.id > txId[c] /\ Known(log, t)  BY <1>2, <1>5, <3>1 DEF MailFits
    <3> QED  BY <1>3, <1>6, <3>2 DEF Known, view
  <2>2. \A s, t \in pend'[c] : s.id = t.id => s = t  BY <1>2, <1>6 DEF MailFits
  <2>3. (\A i \in DOMAIN chan[c] : chan[c][i].type = "tx" /\ Known(log, chan[c][i].tx))'
    <3> SUFFICES ASSUME NEW i \in DOMAIN chan'[c]
                 PROVE  (chan[c][i].type = "tx" /\ Known(log, chan[c][i].tx))'
      OBVIOUS
    <3>1. chan[c] \in Seq(Message)  BY <1>1
    <3>2. i + 1 \in DOMAIN chan[c] /\ chan'[c][i] = chan[c][i + 1]
      BY <1>3, <3>1
    <3>3. PICK t : t = chan[c][i + 1]  OBVIOUS
    <3>4. t.type = "tx" /\ Known(log, t.tx)  BY <1>2, <3>2, <3>3 DEF MailFits
    <3>5. Known(log, t.tx)'  BY <1>3, <3>4 DEF Known
    <3> QED  BY <3>2, <3>3, <3>4, <3>5
  <2> QED  BY <2>1, <2>2, <2>3 DEF MailFits
<1>8. /\ pc'[c] \in {"ready", "catchUp"}
      /\ pc'[c] = "catchUp" => iso[c] = "none"
      /\ pc'[c] # pc[c] => iso[c] = "none"
  BY <1>3, <1>6 DEF OnTx
<1>9. TaskFits(c)'  BY <1>2, <1>3, <1>8 DEF TaskFits, locks
<1>10. ViewFits(log, border, c)'
  <2>1. HasLoaded(c) /\ UNCHANGED <<txId[c], lo[c], txs[c], active[c], off[c]>>
    BY <1>3, <1>6 DEF HasLoaded, IsOpen, view
  <2>2. border \in 0 .. Len(log) /\ Grows(log, border, log, border)
    BY <1>3, FilesFacts, Unchanged DEF files
  <2> QED  BY <2>1, <2>2, ViewKept
<1>11. WriterFits(log, border, c)'
  <2>1. iso[c] = "write" => txId'[c] = Len(log) /\ active'[c] = hdr[Top]
    BY <1>2, <1>3, <1>6 DEF WriterFits, view
  <2>2. cur'[c] = NoTx \/ UNCHANGED <<cur[c], pc[c], iso[c]>>
    BY <1>3, <1>8, NoCurrent
  <2> QED  BY <1>3, <1>8, <2>1, <2>2, QuietWriter
<1> QED  BY <1>7, <1>9, <1>10, <1>11

\* A commit is announced.
LEMMA PublishFits ==
  ASSUME NeverCheckpoints, ViewInv, NEW log \in Seq(Transaction), NEW border \in Nat,
         LogFits(log, border), NEW c \in Conn, Publish(c)
  PROVE  /\ ViewFits(log, border, c)' /\ MailFits(log, c)'
         /\ TaskFits(c)' /\ WriterFits(log, border, c)'
<1>1. pc \in [Conn -> Tasks]  BY DEF ViewInv, TypeOK, TasksOK
<1>2. TaskFits(c) /\ WriterFits(log, border, c)  BY DEF LogFits
<1>3. /\ UNCHANGED <<files, locks, iso, view, pend, cur, ck>> /\ UNCHANGED <<hist, attempts>>
      /\ due' = due /\ pc[c] = "publish" /\ pc'[c] = "ready"
  BY <1>1 DEF Publish, ghosts, AskCkpt, Goto, NeverCheckpoints
<1>4. border \in 0 .. Len(log) /\ Grows(log, border, log, border)
  BY <1>3, FilesFacts, Unchanged DEF files
<1>5. ViewFits(log, border, c)'
  <2>1. HasLoaded(c) /\ UNCHANGED <<txId[c], lo[c], txs[c], active[c], off[c]>>
    BY <1>3 DEF HasLoaded, IsOpen, view
  <2> QED  BY <1>4, <2>1, ViewKept
<1>6. MailFits(log, c)'
  <2>1. \/ chan'[c] = chan[c]
        \/ \E m : m.type = "tx" /\ Known(log, m.tx) /\ chan'[c] = Append(chan[c], m)
    BY PublishKnown
  <2>2. UNCHANGED <<txId[c], pend[c]>>  BY <1>3 DEF view
  <2> QED  BY <1>4, <2>1, <2>2, MailKept
<1>7. TaskFits(c)'  BY <1>2, <1>3 DEF TaskFits, locks
<1>8. WriterFits(log, border, c)'
  <2>1. iso[c] = "write" /\ cur[c] = NoTx  BY <1>2, <1>3, NoCurrent DEF TaskFits
  <2>2. txId'[c] = Len(log) /\ active'[c] = hdr[Top]
    BY <1>2, <1>3, <2>1 DEF WriterFits, view
  <2> QED  BY <1>3, <2>1, <2>2, QuietWriter
<1> QED  BY <1>5, <1>6, <1>7, <1>8

\* A connection that has left keeps nothing.
LEMMA DepartFits ==
  ASSUME ViewInv, NEW log \in Seq(Transaction), NEW border \in Nat, LogFits(log, border),
         NEW c \in Conn, Close(c) \/ Crash(c)
  PROVE  /\ ViewFits(log, border, c)' /\ MailFits(log, c)'
         /\ TaskFits(c)' /\ WriterFits(log, border, c)'
<1>1. /\ pc \in [Conn -> Tasks] /\ iso \in [Conn -> {"none", "read", "write"}]
      /\ DOMAIN txs = Conn /\ chan \in [Conn -> Seq(Message)]
      /\ pend \in [Conn -> SUBSET Transaction] /\ cur \in [Conn -> Transaction]
      /\ due \in [Conn -> BOOLEAN] /\ ck \in [Conn -> Checkpoint]
  BY DEF ViewInv, TypeOK, TasksOK, ViewOK, MailOK
<1>2. Depart(c)  BY DEF Close, Crash
<1>3. /\ pc'[c] = "gone" /\ iso'[c] = "none" /\ chan'[c] = <<>> /\ pend'[c] = {}
      /\ txs'[c] = <<>> /\ cur'[c] = NoTx /\ ~due'[c] /\ ck'[c] = NoCkpt
      /\ UNCHANGED <<files, hist, attempts, txId, lo>>
  BY <1>1, <1>2 DEF Depart, Goto, SetIso, ghosts
<1>4. ViewFits(log, border, c)'
  BY <1>3 DEF LogFits, ViewFits, HasLoaded, IsOpen
<1>5. MailFits(log, c)'  BY <1>3 DEF MailFits
<1>6. TaskFits(c)'  BY <1>3 DEF TaskFits
<1>7. WriterFits(log, border, c)'  BY <1>3, QuietWriter
<1> QED  BY <1>4, <1>5, <1>6, <1>7

\* A step that writes no file leaves a log that fits.
LEMMA QuietStep ==
  ASSUME NeverCheckpoints, ViewInv, NEW log \in Seq(Transaction), NEW border \in Nat,
         LogFits(log, border), NEW c \in Conn, Quiet(c)
  PROVE  LogFits(log, border)'
<1>1. UNCHANGED <<files, db, hist, attempts>>  BY QuietFiles
<1>2. LogInFiles(log, border)' /\ FilesFit(log, border)'  BY <1>1, QuietLog
<1>3. db' = [p \in Page |-> 0] /\ attempts' <= MaxAttempt  BY <1>1 DEF LogFits
<1>4. border \in 0 .. Len(log) /\ Grows(log, border, log, border)
  BY <1>1, FilesFacts, Unchanged DEF files
<1>5. ASSUME NEW d \in Conn, d # c
      PROVE  /\ ViewFits(log, border, d)' /\ MailFits(log, d)'
             /\ TaskFits(d)' /\ WriterFits(log, border, d)'
  <2>1. LogStep(c)  BY Zenon DEF Quiet, LogStep
  <2> QED  BY <1>1, <1>4, <1>5, <2>1, OthersFit
<1>6. /\ ViewFits(log, border, c)' /\ MailFits(log, c)'
      /\ TaskFits(c)' /\ WriterFits(log, border, c)'
  <2>1. CASE \/ OpenLock(c) \/ AtEnd(c) \/ CaughtUp(c) \/ GrantTxIdLock(c) \/ Backstop(c)
             \/ BeginRead(c) \/ BeginWrite(c) \/ Upgrade(c) \/ Rejoin(c)
    <3>1. /\ UNCHANGED <<txId[c], lo[c], txs[c], active[c], off[c]>>
          /\ UNCHANGED <<pend[c], chan[c]>>
          /\ HasLoaded(c)' => HasLoaded(c)
      BY <2>1, StandingStep
    <3>2. ViewFits(log, border, c)'  BY <1>4, <3>1, ViewKept
    <3>3. MailFits(log, c)'  BY <1>4, <3>1, MailKept
    <3> QED  BY <2>1, <3>2, <3>3, StandingTask
  <2>2. CASE OpenLoad(c)  BY <2>2, OpenLoadFits
  <2>3. CASE SkipTx(c)  BY <2>3, SkipTxFits
  <2>4. CASE ReadTx(c)  BY <2>4, ReadTxFits
  <2>5. CASE FollowEnd(c)  BY <2>5, FollowEndFits
  <2>6. CASE Publish(c)  BY <2>6, PublishFits
  <2>7. CASE Receive(c)  BY <2>7, ReceiveFits
  <2>8. CASE Close(c) \/ Crash(c)  BY <2>8, DepartFits
  <2> QED  BY <2>1, <2>2, <2>3, <2>4, <2>5, <2>6, <2>7, <2>8, Zenon DEF Quiet
<1> QED  BY <1>2, <1>3, <1>5, <1>6 DEF LogFits

-----------------------------------------------------------------------------
(* Steps that write the files *)

\* The frame is the last of the file, and the other file is as it was.
FrameWritten(f, o, i, frame) ==
  /\ Len(frames'[f]) = i + 1 /\ DOMAIN frames'[f] = 1 .. i + 1
  /\ frames'[f][i + 1] = frame
  /\ \A j \in 1 .. i : frames'[f][j] = frames[f][j]
  /\ frames'[o] = frames[o] /\ size'[o] = size[o]
  /\ Extent(f)' = i + 1 /\ size'[f] >= 1

\* A frame behind what is there, or over the rest of it, ends the file.
LEMMA WriteFrameFacts ==
  ASSUME FilesOK, NEW f \in {0, 1}, NEW o \in {0, 1}, o # f,
         NEW i \in Nat, NEW frame, WriteFrame(f, i, frame), i <= Len(frames[f])
  PROVE  FrameWritten(f, o, i, frame)
<1>1. /\ frames \in [{0, 1} -> Seq(FrameBytes)] /\ size \in [{0, 1} -> Nat]
      /\ Len(frames[f]) \in Nat
  BY DEF FilesOK
<1>2. frames'[f] = [j \in 1 .. i + 1 |-> IF j = i + 1 THEN frame
                     ELSE IF j <= Len(frames[f]) THEN frames[f][j] ELSE Junk]
  BY <1>1 DEF WriteFrame
<1>3. size'[f] = IF size[f] < i + 2 THEN i + 2 ELSE size[f]  BY <1>1 DEF WriteFrame
<1>4. frames'[o] = frames[o] /\ size'[o] = size[o]
  BY <1>1 DEF WriteFrame
<1>5. Len(frames'[f]) = i + 1 /\ DOMAIN frames'[f] = 1 .. i + 1  BY <1>2
<1>6. frames'[f][i + 1] = frame /\ \A j \in 1 .. i : frames'[f][j] = frames[f][j]
  BY <1>1, <1>2
<1>7. size'[f] \in Nat /\ size'[f] >= i + 2  BY <1>1, <1>3
<1>8. Extent(f)' = i + 1  BY <1>5, <1>7 DEF Extent
<1> QED  BY <1>4, <1>5, <1>6, <1>7, <1>8 DEF FrameWritten

\* Headers and sizes may change without harm to what is in the log.
LEMMA SameFrames ==
  ASSUME NEW log, NEW border, LogInFiles(log, border), hist' = hist, frames' = frames
  PROVE  LogInFiles(log, border)'
<1>1. ASSUME NEW f \in {0, 1}, NEW i \in Logged(log, border, f), InLog(log, border, f, i)
      PROVE  InLog(log, border, f, i)'
  BY <1>1 DEF InLog, Holds, Place, End, First, Last
<1> QED  BY <1>1 DEF LogInFiles, Logged, First, Last

\* A transaction stays in its frames as long as they are there.
LEMMA HoldsKept ==
  ASSUME NEW f, NEW from, NEW to, NEW tx, NEW v, Holds(f, from, to, tx, v),
         \A j \in from + 1 .. to : frames'[f][j] = frames[f][j]
  PROVE  Holds(f, from, to, tx, v)'
BY DEF Holds

\* What is in the log stays there when only what is behind it is written.
LEMMA InLogKept ==
  ASSUME ViewInv, NEW log \in Seq(Transaction), NEW border \in Nat, LogFits(log, border),
         NEW newLog \in Seq(Transaction), NEW newBorder \in 0 .. Len(newLog),
         Grows(log, border, newLog, newBorder), NEW f \in {0, 1},
         End(log, border, f) <= End(newLog, newBorder, f),
         \A j \in 1 .. End(log, border, f) : frames'[f][j] = frames[f][j],
         NEW i \in Logged(log, border, f)
  PROVE  InLog(newLog, newBorder, f, i)'
<1> DEFINE s == Place(log, border, f, i - 1)
           e == log[i].end
           n == End(log, border, f)
<1>1. /\ i \in 1 .. Len(log) /\ log[i] \in Transaction /\ e \in Nat
      /\ InLog(log, border, f, i) /\ s \in Nat /\ hdr[f] # NoHeader
      /\ i - 1 \in First(border, f) .. Last(log, border, f)
  BY LoggedFacts
<1>2. newLog[i] = log[i] /\ hist'[i] = hist[i] /\ First(newBorder, f) = First(border, f)
  BY <1>1 DEF Grows
<1>3. Place(newLog, newBorder, f, i - 1) = s
  <2>1. /\ First(border, f) \in Nat /\ Last(log, border, f) \in Nat
        /\ Last(log, border, f) <= Len(log)
    BY FilesFacts, Places
  <2>2. i - 1 # First(border, f) => i - 1 \in 1 .. Len(log)  BY <1>1, <2>1
  <2> QED  BY <1>2, <2>2 DEF Place, Grows
<1>4. /\ log[i].id = i /\ log[i].salt1 = f /\ PagesOf(log[i]) = hist[i].pages
      /\ s + 2 <= e /\ e <= n /\ frames[f][e].type = "commit"
      /\ Holds(f, s, e - 1, log[i], hist[i].val)
  BY <1>1 DEF InLog
<1>5. n \in Nat /\ End(newLog, newBorder, f) \in Nat  BY FilesFacts, Places
<1> HIDE DEF s, e, n
<1>6. \A j \in 1 .. e : frames'[f][j] = frames[f][j]
  <2>1. 1 .. e \subseteq 1 .. n  BY <1>1, <1>4, <1>5 DEF e
  <2> QED  BY <2>1 DEF n
<1>7. frames'[f][e].type = "commit"
  <2>1. e \in 1 .. e  BY <1>1, <1>4
  <2> QED  BY <1>4, <1>6, <2>1
<1>8. e <= End(newLog, newBorder, f)  BY <1>1, <1>4, <1>5 DEF n, e
<1>9. /\ newLog[i].id = i /\ newLog[i].salt1 = f /\ newLog[i].end = e
      /\ PagesOf(newLog[i]) = hist'[i].pages
      /\ Place(newLog, newBorder, f, i - 1) + 2 <= newLog[i].end
      /\ newLog[i].end <= End(newLog, newBorder, f)
      /\ frames'[f][newLog[i].end].type = "commit"
  BY <1>2, <1>3, <1>4, <1>7, <1>8 DEF e
<1>10. PICK v : v = hist[i].val  OBVIOUS
<1>11. PICK from : from = Place(newLog, newBorder, f, i - 1)  OBVIOUS
<1>12. PICK tx : tx = newLog[i]  OBVIOUS
<1>13. Holds(f, from, tx.end - 1, tx, v)'
  <2>1. \A j \in s + 1 .. e - 1 : frames'[f][j] = frames[f][j]
    <3>1. s + 1 .. e - 1 \subseteq 1 .. e  BY <1>1
    <3> QED  BY <1>6, <3>1
  <2>2. from = s /\ tx.end = e /\ tx = log[i]  BY <1>2, <1>3, <1>9, <1>11, <1>12
  <2>3. Holds(f, from, tx.end - 1, tx, v)  BY <1>4, <1>10, <2>2
  <2> QED  BY <2>1, <2>2, <2>3, HoldsKept
<1>14. Holds(f, Place(newLog, newBorder, f, i - 1), newLog[i].end - 1, newLog[i], hist[i].val)'
  <2>1. v = hist'[i].val  BY <1>2, <1>10
  <2> QED  BY <1>11, <1>12, <1>13, <2>1 DEF Holds
<1> QED  BY <1>9, <1>14 DEF InLog

\* A writer stands at the end of the log, and nothing is pending for it.
LEMMA WriterFacts ==
  ASSUME ViewInv, NEW log \in Seq(Transaction), NEW border \in Nat, LogFits(log, border),
         NEW c \in Conn, iso[c] = "write", pc[c] # "advance"
  PROVE  /\ txId[c] = Len(log) /\ active[c] = hdr[Top] /\ HasLoaded(c) /\ pend[c] = {}
         /\ Top \in {0, 1} /\ active[c].salt1 = Top /\ FileOf(active[c].salt1) = Top
         /\ Inactive(c) = 1 - Top
         /\ Last(log, border, Top) = Len(log) /\ off[c] = End(log, border, Top)
         /\ End(log, border, Top) \in Nat /\ End(log, border, Top) <= Len(frames[Top])
         /\ border \in 0 .. Len(log) /\ Len(log) \in Nat
         /\ ~Swapped => border = Len(log)
<1>1. TaskFits(c) /\ WriterFits(log, border, c) /\ ViewFits(log, border, c)
      /\ FilesFit(log, border)
  BY DEF LogFits
<1>2. txId[c] = Len(log) /\ active[c] = hdr[Top]  BY <1>1 DEF WriterFits
<1>3. HasLoaded(c)  BY <1>1 DEF TaskFits, HasLoaded, IsOpen
<1>4. pend[c] = {}  BY <1>2, NothingIsPending
<1>5. Top \in {0, 1} /\ hdr[Top] # NoHeader /\ hdr[0] # hdr[1]  BY TwoHeaders
<1>6. active[c].salt1 = Top /\ FileOf(active[c].salt1) = Top  BY <1>2, <1>5, HeaderFacts
<1>7. border \in 0 .. Len(log) /\ Len(log) \in Nat  BY FilesFacts
<1>8. ~Swapped => border = Len(log)  BY <1>1 DEF FilesFit, Swapped
<1>9. Last(log, border, Top) = Len(log)  BY <1>8 DEF Top, Last
<1>10. PICK f \in {0, 1} : StandsIn(log, border, c, f)  BY <1>1, <1>3 DEF ViewFits
<1>11. f = Top  BY <1>2, <1>5, <1>10 DEF StandsIn
<1>12. off[c] = End(log, border, Top)  BY <1>2, <1>9, <1>10, <1>11 DEF StandsIn, End
<1>13. End(log, border, Top) \in Nat  BY <1>5, <1>7, Places
<1>14. End(log, border, Top) <= Len(frames[Top])  BY <1>1, <1>5 DEF FilesFit
<1> QED
  BY <1>2, <1>3, <1>4, <1>5, <1>6, <1>7, <1>8, <1>9, <1>12, <1>13, <1>14 DEF Inactive

\* A frame behind the log leaves files that fit; a commit frame extends it.
LEMMA FrameFits ==
  ASSUME ViewInv, NEW log \in Seq(Transaction), NEW border \in Nat, LogFits(log, border),
         NEW newLog \in Seq(Transaction), NEW newBorder \in 0 .. Len(newLog),
         Grows(log, border, newLog, newBorder), hdr' = hdr,
         NEW g \in {0, 1}, g = Top, NEW o \in {0, 1}, o # g,
         IF Swapped THEN newBorder = border ELSE newBorder = Len(newLog),
         NEW i \in Nat, NEW frame \in FrameBytes, WriteFrame(g, i, frame),
         End(log, border, g) <= i, i <= Len(frames[g]),
         frame.salt = <<hdr[g].salt1, hdr[g].salt2>>,
         End(log, border, g) <= End(newLog, newBorder, g),
         End(newLog, newBorder, g) <= i + 1,
         End(newLog, newBorder, o) = End(log, border, o),
         frame.type = "commit" => End(newLog, newBorder, g) = i + 1
  PROVE  /\ FilesFit(newLog, newBorder)'
         /\ \A f \in {0, 1} : \A n \in Logged(log, border, f) :
              InLog(newLog, newBorder, f, n)'
<1>1. FilesOK /\ FilesFit(log, border) /\ hdr[g] # NoHeader
      /\ (g = 1 <=> Swapped) /\ border \in 0 .. Len(log)
  BY TwoHeaders, FilesFacts DEF ViewInv, TypeOK, LogFits, Top
<1>2. /\ Len(frames'[g]) = i + 1 /\ DOMAIN frames'[g] = 1 .. i + 1
      /\ frames'[g][i + 1] = frame
      /\ \A j \in 1 .. i : frames'[g][j] = frames[g][j]
      /\ frames'[o] = frames[o] /\ size'[o] = size[o]
      /\ size'[g] >= 1
  <2>1. FrameWritten(g, o, i, frame)  BY <1>1, WriteFrameFacts, Zenon
  <2> QED  BY ONLY <2>1 DEF FrameWritten
<1>3. \A f \in {0, 1} : f = g => Extent(f)' = i + 1
  <2> SUFFICES ASSUME NEW f \in {0, 1}, f = g
               PROVE  Extent(f)' = i + 1
    OBVIOUS
  <2>1. WriteFrame(f, i, frame) /\ i <= Len(frames[f]) /\ o # f  BY Zenon
  <2>2. FrameWritten(f, o, i, frame)  BY <1>1, <2>1, WriteFrameFacts, Zenon
  <2> QED  BY ONLY <2>2 DEF FrameWritten
<1>4. \A f \in {0, 1} : End(log, border, f) \in Nat /\ End(newLog, newBorder, f) \in Nat
  BY <1>1, Places
<1>5. \A f \in {0, 1} : \A n \in Logged(log, border, f) : InLog(newLog, newBorder, f, n)'
  <2> SUFFICES ASSUME NEW f \in {0, 1}, NEW n \in Logged(log, border, f)
               PROVE  InLog(newLog, newBorder, f, n)'
    OBVIOUS
  <2>1. End(log, border, f) <= End(newLog, newBorder, f)
    <3>1. f = g \/ f = o  BY <1>1
    <3>2. End(log, border, f) <= End(log, border, f)  BY <1>4
    <3> QED  BY <3>1, <3>2, Zenon
  <2>2. \A j \in 1 .. End(log, border, f) : frames'[f][j] = frames[f][j]
    <3>1. CASE f = g
      <4>1. End(log, border, f) <= i  BY <3>1, Zenon
      <4>2. 1 .. End(log, border, f) \subseteq 1 .. i  BY ONLY <1>4, <4>1, i \in Nat
      <4> QED  BY <1>2, <3>1, <4>2, Zenon
    <3>2. CASE f = o  BY <1>2, <3>2, Zenon
    <3> QED  BY <1>1, <3>1, <3>2
  <2> QED  BY <2>1, <2>2, InLogKept
<1>6. hdr'[0] = FirstHeader /\ size'[0] >= 1
  BY <1>1, <1>2 DEF FilesFit
<1>7. hdr'[1] = NoHeader => /\ newBorder = Len(newLog)
                            /\ size'[1] = 0 /\ frames'[1] = <<>>
  BY <1>1, <1>2 DEF FilesFit, Swapped
<1>8. ASSUME hdr'[1] # NoHeader
      PROVE  /\ hdr'[1].salt1 = 1 /\ hdr'[1].nextTxId = newBorder + 1 /\ size'[1] >= 1
             /\ EndFrameAt(End(newLog, newBorder, 0) + 1)'
  <2>1. g = 1 /\ newBorder = border /\ hdr[1] # NoHeader  BY <1>1, <1>8 DEF Swapped
  <2>2. frames'[0] = frames[0] /\ size'[0] = size[0]  BY <1>2, <2>1
  <2>3. PICK n : n = End(newLog, newBorder, 0) + 1  OBVIOUS
  <2>4. EndFrameAt(n)
    <3>1. n = End(log, border, 0) + 1  BY <2>1, <2>3
    <3> QED  BY <1>1, <2>1, <3>1 DEF FilesFit
  <2>5. EndFrameAt(n)'  BY <2>2, <2>4 DEF EndFrameAt, Extent
  <2>6. EndFrameAt(End(newLog, newBorder, 0) + 1)'  BY <2>3, <2>5 DEF EndFrameAt
  <2> QED  BY <1>1, <1>2, <1>8, <2>1, <2>6 DEF FilesFit
<1>9. \A f \in {0, 1} :
        /\ End(newLog, newBorder, f) <= Len(frames'[f])
        /\ hdr'[f] # NoHeader => End(newLog, newBorder, f) <= Extent(f)'
        /\ \A j \in DOMAIN frames'[f] :
             /\ frames'[f][j].salt = <<hdr'[f].salt1, hdr'[f].salt2>>
             /\ j > End(newLog, newBorder, f) => frames'[f][j].type # "commit"
  <2> SUFFICES ASSUME NEW f \in {0, 1}
               PROVE  /\ End(newLog, newBorder, f) <= Len(frames'[f])
                      /\ hdr'[f] # NoHeader => End(newLog, newBorder, f) <= Extent(f)'
                      /\ \A j \in DOMAIN frames'[f] :
                           /\ frames'[f][j].salt = <<hdr'[f].salt1, hdr'[f].salt2>>
                           /\ j > End(newLog, newBorder, f) => frames'[f][j].type # "commit"
    OBVIOUS
  <2>1. CASE f = g
    <3>1. ASSUME NEW j \in DOMAIN frames'[f]
          PROVE  /\ frames'[f][j].salt = <<hdr'[f].salt1, hdr'[f].salt2>>
                 /\ j > End(newLog, newBorder, f) => frames'[f][j].type # "commit"
      <4>1. CASE j = i + 1
        <5>1. frames'[f][j] = frame /\ hdr'[f] = hdr[g]  BY <1>2, <2>1, <4>1, Zenon
        <5>2. frame.type = "commit" => End(newLog, newBorder, f) = j
          BY <2>1, <4>1, Zenon
        <5>3. j \in Nat /\ ~(j > j)  BY ONLY <4>1, i \in Nat
        <5> QED  BY <5>1, <5>2, <5>3, Zenon
      <4>2. CASE j # i + 1
        <5>1. j \in 1 .. i /\ j \in DOMAIN frames[f]
          <6>1. j \in 1 .. i + 1  BY <1>2, <2>1, <3>1, Zenon
          <6>2. j \in 1 .. i  BY ONLY <4>2, <6>1, i \in Nat
          <6>3. DOMAIN frames[f] = 1 .. Len(frames[f]) /\ Len(frames[f]) \in Nat
            BY FilesFacts
          <6>4. i <= Len(frames[f])  BY <2>1, Zenon
          <6> QED  BY ONLY <6>2, <6>3, <6>4, i \in Nat
        <5>2. frames'[f][j] = frames[f][j]  BY <1>2, <2>1, <5>1
        <5>3. /\ frames[f][j].salt = <<hdr[f].salt1, hdr[f].salt2>>
              /\ j > End(log, border, f) => frames[f][j].type # "commit"
          BY <1>1, <5>1 DEF FilesFit
        <5>4. j > End(newLog, newBorder, f) => j > End(log, border, f)
          <6>1. End(log, border, f) <= End(newLog, newBorder, f)  BY <2>1, Zenon
          <6> QED  BY ONLY <1>4, <5>1, <6>1
        <5> QED  BY <5>2, <5>3, <5>4
      <4> QED  BY <4>1, <4>2
    <3>2. Len(frames'[f]) = i + 1 /\ Extent(f)' = i + 1  BY <1>2, <1>3, <2>1, Zenon
    <3>3. End(newLog, newBorder, f) <= i + 1  BY <2>1, Zenon
    <3> QED  BY <3>1, <3>2, <3>3, Zenon
  <2>2. CASE f = o
    <3>1. Extent(f)' = Extent(f) /\ frames'[f] = frames[f]  BY <1>2, <2>2 DEF Extent
    <3>2. End(newLog, newBorder, f) = End(log, border, f)  BY <2>2, Zenon
    <3>3. /\ End(log, border, f) <= Len(frames[f])
          /\ hdr[f] # NoHeader => End(log, border, f) <= Extent(f)
          /\ \A j \in DOMAIN frames[f] :
               /\ frames[f][j].salt = <<hdr[f].salt1, hdr[f].salt2>>
               /\ j > End(log, border, f) => frames[f][j].type # "commit"
      BY <1>1, Zenon DEF FilesFit
    <3> QED  BY <3>1, <3>2, <3>3, Zenon
  <2> QED  BY <1>1, <2>1, <2>2
<1>10. FilesFit(newLog, newBorder)'
  BY <1>6, <1>7, <1>8, <1>9 DEF FilesFit
<1> QED  BY <1>5, <1>10

\* A step of the writer leaves a log that fits, if its files and the writer do.
LEMMA WrittenFits ==
  ASSUME ViewInv, NEW log \in Seq(Transaction), NEW border \in Nat, LogFits(log, border),
         NEW newLog \in Seq(Transaction), NEW newBorder \in 0 .. Len(newLog),
         Grows(log, border, newLog, newBorder), NEW c \in Conn, LogStep(c), iso[c] = "write",
         LogInFiles(newLog, newBorder)', FilesFit(newLog, newBorder)',
         db' = db, attempts' <= MaxAttempt,
         ViewFits(newLog, newBorder, c)', MailFits(newLog, c)',
         TaskFits(c)', WriterFits(newLog, newBorder, c)'
  PROVE  LogFits(newLog, newBorder)'
<1>1. ASSUME NEW d \in Conn
      PROVE  /\ ViewFits(newLog, newBorder, d)' /\ MailFits(newLog, d)'
             /\ TaskFits(d)' /\ WriterFits(newLog, newBorder, d)'
  <2>1. CASE d = c  BY <2>1, Zenon
  <2>2. CASE d # c  BY <2>2, OthersFit
  <2> QED  BY <2>1, <2>2
<1>2. db' = [p \in Page |-> 0]  BY DEF LogFits
<1> QED  BY <1>1, <1>2, Zenon DEF LogFits

\* The end frame is written where the first file ends.
LEMMA SwapEndFits ==
  ASSUME ViewInv, NEW log \in Seq(Transaction), NEW border \in Nat, LogFits(log, border),
         NEW c \in Conn, SwapEnd(c)
  PROVE  LogFits(log, border)'
<1>1. /\ pc \in [Conn -> Tasks] /\ txId \in [Conn -> Nat] /\ active \in [Conn -> Header]
  BY DEF ViewInv, TypeOK, TasksOK, ViewOK
<1>2. TaskFits(c) /\ FilesFit(log, border) /\ LogInFiles(log, border)  BY DEF LogFits
<1>3. /\ pc[c] = "ready" /\ iso[c] = "write" /\ pc'[c] = "swap" /\ cur[c] = NoTx
      /\ UNCHANGED <<hdr, db, locks, chan, ghosts, iso, view, pend, cur, due, ck>>
      /\ InactiveFileEmpty(c)
      /\ WriteFrame(FileOf(active[c].salt1), off[c], Frame(active[c], "end", Page1, 0))
  BY <1>1 DEF SwapEnd, MayWrite, Usable, Ready, Goto, MustSwap
<1>4. /\ txId[c] = Len(log) /\ active[c] = hdr[Top] /\ HasLoaded(c)
      /\ Top \in {0, 1} /\ FileOf(active[c].salt1) = Top /\ Inactive(c) = 1 - Top
      /\ off[c] = End(log, border, Top) /\ End(log, border, Top) \in Nat
      /\ End(log, border, Top) <= Len(frames[Top])
      /\ border \in 0 .. Len(log) /\ Len(log) \in Nat
      /\ ~Swapped => border = Len(log)
  BY <1>3, WriterFacts
<1>5. ~Swapped /\ Top = 0
  <2>1. HeaderOf(0) # NoHeader  BY TwoHeaders, HeaderFacts
  <2> QED  BY <1>3, <1>4, <2>1 DEF InactiveFileEmpty, Top
<1>6. Grows(log, border, log, border)  BY <1>3, <1>4, Unchanged DEF ghosts
<1>7. PICK frame : frame = Frame(active[c], "end", Page1, 0)  OBVIOUS
<1>8. /\ frame \in FrameBytes /\ frame.type = "end"
      /\ frame.salt = <<hdr[0].salt1, hdr[0].salt2>>
      /\ WriteFrame(0, off[c], frame) /\ off[c] = End(log, border, 0) /\ off[c] \in Nat
  <2>1. frame \in FrameBytes  BY <1>1, <1>7, FrameOK, PageAssumption
  <2> QED  BY <1>3, <1>4, <1>5, <1>7, <2>1 DEF Frame
<1>9. /\ FilesFit(log, border)'
      /\ \A f \in {0, 1} : \A n \in Logged(log, border, f) : InLog(log, border, f, n)'
  <2>1. off[c] <= off[c] /\ off[c] <= off[c] + 1  BY <1>8
  <2>2. off[c] <= Len(frames[0])  BY <1>4, <1>5
  <2> QED  BY <1>3, <1>4, <1>5, <1>6, <1>8, <2>1, <2>2, FrameFits
<1>10. LogInFiles(log, border)'
  BY <1>2, <1>3, <1>9 DEF LogInFiles, ghosts, Logged, First, Last
<1>11. ViewFits(log, border, c)'
  <2>1. UNCHANGED <<txId[c], lo[c], txs[c], active[c], off[c]>>  BY <1>3 DEF view
  <2> QED  BY <1>4, <1>6, <2>1, ViewKept
<1>12. MailFits(log, c)'
  <2>1. UNCHANGED <<txId[c], pend[c]>> /\ chan'[c] = chan[c]  BY <1>3 DEF view
  <2> QED  BY <1>6, <2>1, MailKept
<1>13. TaskFits(c)'  BY <1>2, <1>3 DEF TaskFits, locks
<1>14. WriterFits(log, border, c)'
  <2>1. FilesOK /\ Len(frames[0]) \in Nat  BY FilesFacts DEF ViewInv, TypeOK
  <2>2. Extent(0)' = off[c] + 1 /\ frames'[0][off[c] + 1] = frame
    <3>1. off[c] <= Len(frames[0])  BY <1>4, <1>5
    <3>2. FrameWritten(0, 1, off[c], frame)  BY <1>8, <2>1, <3>1, WriteFrameFacts
    <3> QED  BY ONLY <3>2 DEF FrameWritten
  <2>3. PICK n : n = off[c] + 1  OBVIOUS
  <2>4. EndFrameAt(n)'  BY <1>8, <2>2, <2>3 DEF EndFrameAt
  <2>5. EndFrameAt(End(log, border, 0) + 1)'  BY <1>8, <2>3, <2>4 DEF EndFrameAt
  <2>6. ~Swapped' /\ Top' = Top  BY <1>3, <1>5 DEF Swapped, Top
  <2>7. txId'[c] = Len(log) /\ active'[c] = hdr'[Top'] /\ cur'[c] = NoTx
    BY <1>3, <1>4, <2>6 DEF view
  <2> QED  BY <2>5, <2>6, <2>7 DEF WriterFits
<1>15. /\ LogStep(c) /\ db' = db /\ attempts' <= MaxAttempt
  BY <1>3 DEF LogStep, LogFits, ghosts
<1> QED
  BY <1>3, <1>4, <1>6, <1>9, <1>10, <1>11, <1>12, <1>13, <1>14, <1>15, WrittenFits

\* The second file begins with its header behind everything in the first.
LEMMA SwapHeaderFits ==
  ASSUME ViewInv, NEW log \in Seq(Transaction), NEW border \in Nat, LogFits(log, border),
         NEW c \in Conn, SwapHeader(c)
  PROVE  LogFits(log, border)'
<1>1. /\ pc \in [Conn -> Tasks] /\ txId \in [Conn -> Nat] /\ active \in [Conn -> Header]
      /\ off \in [Conn -> Nat]
      /\ hdr \in [{0, 1} -> Header] /\ size \in [{0, 1} -> Nat]
  BY DEF ViewInv, TypeOK, TasksOK, ViewOK, FilesOK
<1>2. /\ TaskFits(c) /\ FilesFit(log, border) /\ LogInFiles(log, border)
      /\ WriterFits(log, border, c) /\ ViewFits(log, border, c)
  BY DEF LogFits
<1>3. PICK h : h = [nextTxId |-> txId[c] + 1, salt1 |-> active[c].salt1 + 1, salt2 |-> c]
  OBVIOUS
<1>4. /\ pc[c] = "swap" /\ pc'[c] = "write" /\ off'[c] = 0
      /\ UNCHANGED <<frames, db, locks, chan, ghosts, iso, txId, lo, txs, pend, cur, due, ck>>
      /\ WriteHeader(h) /\ active'[c] = h
  BY <1>1, <1>3 DEF SwapHeader, Goto
<1>5. iso[c] = "write" /\ cur[c] = NoTx  BY <1>4 DEF ViewInv, WritersFrozen
<1>6. ~Swapped /\ EndFrameAt(End(log, border, 0) + 1)  BY <1>2, <1>4 DEF WriterFits
<1>7. /\ txId[c] = Len(log) /\ active[c].salt1 = Top
      /\ border \in 0 .. Len(log) /\ Len(log) \in Nat /\ border = Len(log)
  BY <1>4, <1>5, <1>6, WriterFacts
<1>8. active[c].salt1 = 0  BY <1>6, <1>7 DEF Top
<1>9. h.nextTxId = border + 1 /\ h.salt1 = 1 /\ h # NoHeader
  BY <1>3, <1>7, <1>8 DEF NoHeader
<1>10. hdr[1] = NoHeader /\ size[1] = 0 /\ frames[1] = <<>>
  BY <1>2, <1>6 DEF Swapped, FilesFit
<1>11. /\ hdr'[1] = h /\ hdr'[0] = hdr[0] /\ size'[1] = 1 /\ size'[0] = size[0]
       /\ frames' = frames
  BY <1>1, <1>4, <1>9, <1>10 DEF WriteHeader, FileOf
<1>12. Grows(log, border, log, border)
  <2>1. \A f \in {0, 1} : Last(log, border, f) \in Nat  BY <1>7, Places
  <2> QED  BY <1>4, <1>10, <1>11, <2>1 DEF Grows, ghosts
<1>13. LogInFiles(log, border)'
  <2>1. hist' = hist  BY <1>4 DEF ghosts
  <2> QED  BY <1>2, <1>11, <2>1, SameFrames, Zenon
<1>14. FilesFit(log, border)'
  <2>1. PICK n : n = End(log, border, 0) + 1  OBVIOUS
  <2>2. EndFrameAt(n)'  BY <1>6, <1>11, <2>1 DEF EndFrameAt, Extent
  <2>3. EndFrameAt(End(log, border, 0) + 1)'  BY <2>1, <2>2 DEF EndFrameAt
  <2>4. End(log, border, 1) = 0  BY <1>7 DEF End, Place, First, Last
  <2>5. Extent(1)' = 0 /\ Extent(0)' = Extent(0)
    <3>1. Len(frames'[1]) = 0  BY <1>10, <1>11
    <3> QED  BY <1>11, <3>1 DEF Extent
  <2>6. ASSUME NEW f \in {0, 1}
        PROVE  /\ End(log, border, f) <= Len(frames'[f])
               /\ hdr'[f] # NoHeader => End(log, border, f) <= Extent(f)'
               /\ \A i \in DOMAIN frames'[f] :
                    /\ frames'[f][i].salt = <<hdr'[f].salt1, hdr'[f].salt2>>
                    /\ i > End(log, border, f) => frames'[f][i].type # "commit"
    <3>1. CASE f = 0
      <4>1. hdr[0] # NoHeader  BY TwoHeaders
      <4> QED  BY <1>2, <1>11, <2>5, <3>1, <4>1 DEF FilesFit
    <3>2. CASE f = 1
      <4>1. frames'[f] = <<>>  BY <1>10, <1>11, <3>2
      <4> QED  BY <2>4, <2>5, <3>2, <4>1
    <3> QED  BY <3>1, <3>2
  <2>7. hdr'[0] = FirstHeader /\ size'[0] >= 1  BY <1>2, <1>11 DEF FilesFit
  <2>8. /\ hdr'[1] # NoHeader /\ hdr'[1].salt1 = 1 /\ hdr'[1].nextTxId = border + 1
        /\ size'[1] >= 1
    BY <1>9, <1>11
  <2> QED  BY <2>3, <2>6, <2>7, <2>8 DEF FilesFit
<1>15. ViewFits(log, border, c)'
  <2>1. (\A i \in DOMAIN txs[c] : txs[c][i].id = i /\ Known(log, txs[c][i]))'
    BY <1>2, <1>4 DEF ViewFits, Known, ghosts
  <2>2. StandsIn(log, border, c, 1)'
    <3>1. Place(log, border, 1, border) = 0 /\ border \in First(border, 1) .. Last(log, border, 1)
      BY <1>7 DEF Place, First, Last
    <3> QED  BY <1>4, <1>7, <1>9, <1>11, <3>1 DEF StandsIn
  <2> QED  BY <1>2, <1>4, <2>1, <2>2 DEF ViewFits
<1>16. MailFits(log, c)'
  <2>1. UNCHANGED <<txId[c], pend[c]>> /\ chan'[c] = chan[c]  BY <1>4
  <2> QED  BY <1>12, <2>1, MailKept
<1>17. TaskFits(c)'  BY <1>2, <1>4, <1>5 DEF TaskFits, locks
<1>18. WriterFits(log, border, c)'
  <2>1. Top' = 1  BY <1>9, <1>11 DEF Top, Swapped
  <2> QED  BY <1>4, <1>5, <1>7, <1>11, <2>1 DEF WriterFits
<1>19. LogStep(c) /\ db' = db /\ attempts' <= MaxAttempt
  BY <1>4 DEF LogStep, LogFits, ghosts
<1> QED
  BY <1>5, <1>7, <1>12, <1>13, <1>14, <1>15, <1>16, <1>17, <1>18, <1>19, WrittenFits

\* The file is cut behind the log.
LEMMA RollbackFits ==
  ASSUME ViewInv, NEW log \in Seq(Transaction), NEW border \in Nat, LogFits(log, border),
         NEW c \in Conn, Rollback(c)
  PROVE  LogFits(log, border)'
<1>1. cur \in [Conn -> Transaction] /\ size \in [{0, 1} -> Nat]
  BY DEF ViewInv, TypeOK, TasksOK, FilesOK
<1>2. /\ TaskFits(c) /\ FilesFit(log, border) /\ LogInFiles(log, border)
      /\ WriterFits(log, border, c)
  BY DEF LogFits
<1>3. /\ pc[c] = "ready" /\ iso[c] = "write" /\ cur'[c] = NoTx
      /\ UNCHANGED <<hdr, frames, db, locks, chan, ghosts, pc, iso, view, pend, due, ck>>
      /\ size' = [size EXCEPT ![FileOf(active[c].salt1)] = off[c] + 1]
  BY <1>1 DEF Rollback, MayWrite, Usable, Ready, CutTail
<1>4. /\ txId[c] = Len(log) /\ active[c] = hdr[Top] /\ HasLoaded(c)
      /\ Top \in {0, 1} /\ FileOf(active[c].salt1) = Top
      /\ off[c] = End(log, border, Top) /\ End(log, border, Top) \in Nat
      /\ End(log, border, Top) <= Len(frames[Top])
      /\ border \in 0 .. Len(log) /\ Len(log) \in Nat
  BY <1>3, WriterFacts
<1>5. Grows(log, border, log, border)  BY <1>3, <1>4, Unchanged DEF ghosts
<1>6. LogInFiles(log, border)'
  <2>1. hist' = hist /\ frames' = frames  BY <1>3 DEF ghosts
  <2> QED  BY <1>2, <2>1, SameFrames, Zenon
<1>7. \A f \in {0, 1} : IF f = Top THEN size'[f] = End(log, border, f) + 1
                                   ELSE size'[f] = size[f]
  <2>1. size' = [size EXCEPT ![Top] = End(log, border, Top) + 1]  BY <1>3, <1>4, Zenon
  <2>2. ASSUME NEW f \in {0, 1}
        PROVE  IF f = Top THEN size'[f] = End(log, border, f) + 1 ELSE size'[f] = size[f]
    <3>1. CASE f = Top
      <4>1. size'[f] = End(log, border, Top) + 1  BY ONLY <1>1, <2>1, <3>1, f \in {0, 1}, Zenon
      <4>2. End(log, border, Top) = End(log, border, f)  BY ONLY <3>1
      <4> QED  BY ONLY <3>1, <4>1, <4>2
    <3>2. CASE f # Top
      <4>1. size'[f] = size[f]  BY ONLY <1>1, <2>1, <3>2, f \in {0, 1}, Zenon
      <4> QED  BY ONLY <3>2, <4>1
    <3> QED  BY <3>1, <3>2
  <2> QED  BY <2>2
<1>8. FilesFit(log, border)'
  <2>1. hdr' = hdr /\ frames' = frames  BY <1>3
  <2>2. ASSUME NEW f \in {0, 1}
        PROVE  /\ size[f] >= 1 => size'[f] >= 1
               /\ size[f] = 0 /\ f # Top => size'[f] = 0
               /\ hdr[f] # NoHeader => End(log, border, f) <= Extent(f)'
               /\ f # Top => Extent(f)' = Extent(f)
    <3>1. CASE f = Top
      <4>1. size'[f] = End(log, border, f) + 1  BY <1>7, <3>1
      <4>2. Len(frames[f]) \in Nat  BY FilesFacts
      <4>3. Extent(f)' = End(log, border, f)
        <5>1. End(log, border, f) \in Nat /\ End(log, border, f) <= Len(frames[f])
          BY <1>4, <3>1
        <5> QED  BY <2>1, <4>1, <4>2, <5>1 DEF Extent
      <4> QED  BY <1>4, <3>1, <4>1, <4>3
    <3>2. CASE f # Top
      <4>1. size'[f] = size[f]  BY <1>7, <3>2
      <4>2. Extent(f)' = Extent(f)  BY <2>1, <4>1 DEF Extent
      <4> QED  BY <1>2, <3>2, <4>1, <4>2 DEF FilesFit
    <3> QED  BY <3>1, <3>2
  <2>3. Swapped => Top # 0  BY DEF Top
  <2>4. ~Swapped => Top # 1  BY DEF Top
  <2>5. hdr[1] # NoHeader => EndFrameAt(End(log, border, 0) + 1)'
    <3>1. PICK n : n = End(log, border, 0) + 1  OBVIOUS
    <3>2. hdr[1] # NoHeader => EndFrameAt(n)'
      BY <1>2, <2>1, <2>2, <2>3, <3>1 DEF FilesFit, EndFrameAt, Swapped
    <3> QED  BY <3>1, <3>2 DEF EndFrameAt
  <2> QED  BY <1>2, <2>1, <2>2, <2>3, <2>4, <2>5 DEF FilesFit, Swapped
<1>9. ViewFits(log, border, c)'
  <2>1. UNCHANGED <<txId[c], lo[c], txs[c], active[c], off[c]>>  BY <1>3 DEF view
  <2> QED  BY <1>4, <1>5, <2>1, ViewKept
<1>10. MailFits(log, c)'
  <2>1. UNCHANGED <<txId[c], pend[c]>> /\ chan'[c] = chan[c]  BY <1>3 DEF view
  <2> QED  BY <1>5, <2>1, MailKept
<1>11. TaskFits(c)'  BY <1>2, <1>3 DEF TaskFits, locks
<1>12. WriterFits(log, border, c)'
  <2>1. Top' = Top  BY <1>3 DEF Top, Swapped
  <2> QED  BY <1>3, <1>4, <2>1 DEF WriterFits, view
<1>13. LogStep(c) /\ db' = db /\ attempts' <= MaxAttempt
  BY <1>3 DEF LogStep, LogFits, ghosts
<1> QED
  BY <1>3, <1>4, <1>5, <1>6, <1>8, <1>9, <1>10, <1>11, <1>12, <1>13, WrittenFits

\* A page frame behind the last one belongs to the transaction.
LEMMA PageAdded ==
  ASSUME NEW f \in {0, 1}, NEW from \in Nat, NEW to \in Nat, from <= to,
         NEW tx \in Transaction, NEW v \in Nat, Holds(f, from, to, tx, v),
         NEW p \in Page, p \notin PagesOf(tx),
         NEW e \in PageEntry, e.salt1 = f, e.at = to + 1, e.cached \in {0, v},
         NEW new, new = [tx EXCEPT !.pages[p] = e, !.end = @ + 1],
         NEW n, n = to + 1,
         frames'[f][n].type = "page", frames'[f][n].val = v, frames'[f][n].page = p,
         \A j \in 1 .. to : frames'[f][j] = frames[f][j]
  PROVE  Holds(f, from, n, new, v)'
<1>1. /\ new.pages[p] = e
      /\ \A q \in Page : q # p => new.pages[q] = tx.pages[q]
  BY DEF Transaction
<1>2. PagesOf(new) = PagesOf(tx) \cup {p}  BY <1>1 DEF PagesOf
<1>3. \A j \in from + 1 .. to : j \in 1 .. to /\ j \in from + 1 .. n /\ j # n  OBVIOUS
<1>4. \A j \in from + 1 .. n : j \in from + 1 .. to \/ j = n  OBVIOUS
<1>5. ASSUME NEW j \in from + 1 .. n
      PROVE  /\ frames'[f][j].type = "page" /\ frames'[f][j].val = v
             /\ new.pages[frames'[f][j].page].at = j
  <2>1. CASE j \in from + 1 .. to
    <3>1. /\ frames[f][j].type = "page" /\ frames[f][j].val = v
          /\ tx.pages[frames[f][j].page].at = j
      BY <2>1, Zenon DEF Holds
    <3>2. frames'[f][j] = frames[f][j]  BY <1>3, <2>1, Zenon
    <3>3. frames[f][j].page # p
      <4>1. tx.pages[p].at = 0  BY DEF PagesOf
      <4> QED  BY <2>1, <3>1, <4>1
    <3>4. new.pages[frames[f][j].page] = tx.pages[frames[f][j].page]
      BY <3>3 DEF Transaction
    <3> QED  BY <3>1, <3>2, <3>4, Zenon
  <2>2. CASE j = n  BY <1>1, <2>2
  <2> QED  BY <1>4, <2>1, <2>2
<1>6. ASSUME NEW q \in PagesOf(new)
      PROVE  /\ new.pages[q].at \in from + 1 .. n
             /\ frames'[f][new.pages[q].at].page = q
  <2>1. CASE q = p
    <3>1. n \in from + 1 .. n  OBVIOUS
    <3> QED  BY <1>1, <2>1, <3>1
  <2>2. CASE q # p
    <3>1. q \in PagesOf(tx) /\ q \in Page  BY <1>2, <2>2 DEF PagesOf
    <3>2. /\ tx.pages[q].at \in from + 1 .. to /\ frames[f][tx.pages[q].at].page = q
          /\ new.pages[q] = tx.pages[q]
      BY <1>1, <2>2, <3>1 DEF Holds
    <3> QED  BY <1>3, <3>2, Zenon
  <2> QED  BY <2>1, <2>2
<1>7. ASSUME NEW q \in Page, new.pages[q].at # 0
      PROVE  new.pages[q].salt1 = f /\ new.pages[q].cached \in {0, v}
  <2>1. CASE q = p  BY <1>1, <2>1
  <2>2. CASE q # p  BY <1>1, <1>7, <2>2 DEF Holds
  <2> QED  BY <2>1, <2>2
<1> QED  BY <1>5, <1>6, <1>7 DEF Holds, PagesOf

\* The transaction that gets the page, which has begun behind the log.
PageGoesTo(log, border, c, p, tx, v, e) ==
  /\ tx.id = Len(log) + 1 /\ tx.salt1 = Top
  /\ End(log, border, Top) <= tx.end /\ tx.end <= Len(frames[Top])
  /\ Holds(Top, End(log, border, Top), tx.end, tx, v)
  /\ p \notin PagesOf(tx)
  /\ e.salt1 = Top /\ e.at = tx.end + 1 /\ e.cached \in {0, v}
  /\ attempts' = v
  /\ WriteFrame(Top, tx.end, Frame(hdr[Top], "page", p, v))
  /\ cur'[c] = [tx EXCEPT !.pages[p] = e, !.end = @ + 1]

\* A page goes to the transaction of the writer, a new one or the running one.
LEMMA WritingTo ==
  ASSUME ViewInv, NEW log \in Seq(Transaction), NEW border \in Nat, LogFits(log, border),
         NEW c \in Conn, NEW p \in Page, WritePage(c, p)
  PROVE  /\ iso[c] = "write" /\ pc[c] # "advance"
         /\ \E tx \in Transaction, v \in 1 .. MaxAttempt, e \in PageEntry :
              PageGoesTo(log, border, c, p, tx, v, e)
<1>1. /\ cur \in [Conn -> Transaction] /\ attempts \in Nat
      /\ txId \in [Conn -> Nat] /\ off \in [Conn -> Nat] /\ active \in [Conn -> Header]
  BY DEF ViewInv, TypeOK, TasksOK, ViewOK, HistoryOK
<1>2. WriterFits(log, border, c) /\ attempts <= MaxAttempt /\ MaxAttempt \in Nat
  BY BoundAssumption DEF LogFits
<1>3. pc[c] \in {"ready", "write"} /\ iso[c] = "write"
  <2>1. CASE MayWrite(c)  BY <2>1 DEF MayWrite, Usable, Ready
  <2>2. CASE pc[c] = "write"  BY <2>2 DEF ViewInv, WritersFrozen
  <2> QED  BY <2>1, <2>2 DEF WritePage
<1>4. /\ txId[c] = Len(log) /\ active[c] = hdr[Top] /\ Top \in {0, 1}
      /\ active[c].salt1 = Top /\ FileOf(active[c].salt1) = Top
      /\ off[c] = End(log, border, Top) /\ End(log, border, Top) \in Nat
      /\ End(log, border, Top) <= Len(frames[Top]) /\ Len(log) \in Nat
  BY <1>3, WriterFacts
<1> DEFINE fresh == [NoTx EXCEPT !.id = txId[c] + 1, !.salt1 = active[c].salt1, !.end = off[c]]
<1>5. PICK tx : tx = IF cur[c] = NoTx THEN fresh ELSE cur[c]  OBVIOUS
<1>6. PICK v : v = IF cur[c] = NoTx THEN attempts + 1 ELSE attempts  OBVIOUS
<1>7. PICK e : e = [salt1 |-> active[c].salt1, at |-> tx.end + 1,
                    cached |-> IF p = Page1 THEN v ELSE 0]
  OBVIOUS
<1>8. /\ attempts' = v
      /\ WriteFrame(FileOf(active[c].salt1), tx.end, Frame(active[c], "page", p, v))
      /\ cur' = [cur EXCEPT ![c] = [tx EXCEPT !.pages[p] = e, !.end = @ + 1]]
      /\ cur[c] = NoTx => attempts < MaxAttempt
      /\ p \notin PagesOf(cur[c])
  BY <1>5, <1>6, <1>7 DEF WritePage
<1>9. /\ tx \in Transaction /\ v \in 1 .. MaxAttempt
      /\ tx.id = Len(log) + 1 /\ tx.salt1 = Top
      /\ End(log, border, Top) <= tx.end /\ tx.end <= Len(frames[Top])
      /\ Holds(Top, End(log, border, Top), tx.end, tx, v)
      /\ p \notin PagesOf(tx)
  <2>1. CASE cur[c] = NoTx
    <3>1. tx = fresh /\ fresh \in Transaction
      <4>1. txId[c] + 1 \in Nat /\ active[c].salt1 \in Nat /\ off[c] \in Nat
        BY <1>1 DEF Header
      <4>2. fresh \in Transaction  BY ONLY <4>1, NewTransaction
      <4> QED  BY <1>5, <2>1, <4>2, Zenon
    <3>2. /\ tx.id = Len(log) + 1 /\ tx.salt1 = Top /\ tx.end = End(log, border, Top)
          /\ tx.pages = NoTx.pages
      BY <1>4, <3>1 DEF NoTx
    <3>3. \A q \in Page : tx.pages[q].at = 0  BY <3>2 DEF NoTx, NoEntry
    <3>4. PagesOf(tx) = {}  BY <3>3 DEF PagesOf
    <3>5. Holds(Top, End(log, border, Top), tx.end, tx, v)
      BY <1>4, <3>2, <3>3, <3>4 DEF Holds
    <3>6. v \in 1 .. MaxAttempt  BY <1>1, <1>2, <1>6, <1>8, <2>1
    <3> QED  BY <1>4, <3>1, <3>2, <3>4, <3>5, <3>6
  <2>2. CASE cur[c] # NoTx
    <3>1. tx = cur[c] /\ v = attempts  BY <1>5, <1>6, <2>2
    <3>2. /\ cur[c].id = Len(log) + 1 /\ cur[c].salt1 = Top /\ cur[c].end = Len(frames[Top])
          /\ attempts >= 1
          /\ Holds(Top, End(log, border, Top), cur[c].end, cur[c], attempts)
      BY <1>2, <2>2 DEF WriterFits
    <3>3. Len(frames[Top]) \in Nat  BY <1>4, FilesFacts
    <3> QED  BY <1>1, <1>2, <1>4, <1>8, <3>1, <3>2, <3>3
  <2> QED  BY <2>1, <2>2
<1>10. e \in PageEntry /\ e.salt1 = Top /\ e.at = tx.end + 1 /\ e.cached \in {0, v}
  BY <1>4, <1>7, <1>9, TransactionFacts DEF PageEntry
<1>11. cur'[c] = [tx EXCEPT !.pages[p] = e, !.end = @ + 1]  BY <1>1, <1>8
<1>12. WriteFrame(Top, tx.end, Frame(hdr[Top], "page", p, v))  BY <1>4, <1>8
<1> HIDE DEF fresh
<1>13. PageGoesTo(log, border, c, p, tx, v, e)
  BY <1>8, <1>9, <1>10, <1>11, <1>12, Zenon DEF PageGoesTo
<1>14. pc[c] # "advance"  BY <1>3
<1> QED  BY <1>3, <1>9, <1>10, <1>13, <1>14, Zenon

\* A writer appends a page behind the log.
LEMMA WritePageFits ==
  ASSUME ViewInv, NEW log \in Seq(Transaction), NEW border \in Nat, LogFits(log, border),
         NEW c \in Conn, NEW p \in Page, WritePage(c, p)
  PROVE  LogFits(log, border)'
<1>1. /\ iso[c] = "write" /\ pc[c] # "advance"  BY WritingTo
<1>2. PICK tx \in Transaction, v \in 1 .. MaxAttempt, e \in PageEntry :
        PageGoesTo(log, border, c, p, tx, v, e)
  BY WritingTo
<1>3. /\ TaskFits(c) /\ LogInFiles(log, border)  BY DEF LogFits
<1>4. /\ tx.id = Len(log) + 1 /\ tx.salt1 = Top
       /\ End(log, border, Top) <= tx.end /\ tx.end <= Len(frames[Top])
       /\ Holds(Top, End(log, border, Top), tx.end, tx, v)
       /\ p \notin PagesOf(tx)
       /\ e.salt1 = Top /\ e.at = tx.end + 1 /\ e.cached \in {0, v}
       /\ attempts' = v
       /\ WriteFrame(Top, tx.end, Frame(hdr[Top], "page", p, v))
       /\ cur'[c] = [tx EXCEPT !.pages[p] = e, !.end = @ + 1]
  BY <1>2, Zenon DEF PageGoesTo
<1>5. /\ pc \in [Conn -> Tasks] /\ MaxAttempt \in Nat /\ v \in Nat
  BY BoundAssumption DEF ViewInv, TypeOK, TasksOK
<1>6. /\ pc'[c] = "ready"
      /\ UNCHANGED <<hdr, db, locks, chan, hist, iso, view, pend, due, ck>>
  BY <1>5 DEF WritePage, Goto
<1>7. /\ txId[c] = Len(log) /\ active[c] = hdr[Top] /\ HasLoaded(c) /\ Top \in {0, 1}
      /\ End(log, border, Top) \in Nat
      /\ border \in 0 .. Len(log) /\ Len(log) \in Nat
      /\ ~Swapped => border = Len(log)
  BY <1>1, WriterFacts
<1>8. Grows(log, border, log, border)  BY <1>6, <1>7, Unchanged
<1>9. PICK g \in {0, 1} : g = Top  BY <1>7
<1>10. PICK o \in {0, 1} : o # g  OBVIOUS
<1>11. PICK frame : frame = Frame(hdr[g], "page", p, v)  OBVIOUS
<1>12. /\ frame \in FrameBytes /\ frame.type = "page" /\ frame.val = v /\ frame.page = p
       /\ frame.salt = <<hdr[g].salt1, hdr[g].salt2>>
  <2>1. frame \in FrameBytes  BY <1>5, <1>11, FrameOK, FilesFacts
  <2> QED  BY <1>11, <2>1 DEF Frame
<1>13. PICK i, from, new : /\ i = tx.end /\ from = End(log, border, g)
                           /\ new = [tx EXCEPT !.pages[p] = e, !.end = @ + 1]
  OBVIOUS
<1>14. /\ WriteFrame(g, i, frame) /\ i \in Nat /\ from \in Nat /\ from <= i
       /\ i <= Len(frames[g]) /\ Holds(g, from, i, tx, v)
  <2>1. tx.end \in Nat  BY TransactionFacts
  <2> QED  BY <1>4, <1>7, <1>9, <1>11, <1>13, <2>1
<1>15. /\ FilesFit(log, border)'
       /\ \A f \in {0, 1} : \A n \in Logged(log, border, f) : InLog(log, border, f, n)'
  <2>1. End(log, border, g) <= End(log, border, g) /\ End(log, border, g) <= i + 1
    BY <1>13, <1>14
  <2>2. End(log, border, g) <= i  BY <1>13, <1>14
  <2>3. hdr' = hdr  BY <1>6
  <2>4. frame.type # "commit"  BY <1>12
  <2>5. IF Swapped THEN border = border ELSE border = Len(log)  BY <1>7
  <2>6. frame.type = "commit" => End(log, border, g) = i + 1  BY <2>4
  <2> QED
    BY <1>7, <1>8, <1>9, <1>10, <1>12, <1>14, <2>1, <2>2, <2>3, <2>5, <2>6, FrameFits, Zenon
<1>16. LogInFiles(log, border)'
  BY <1>3, <1>6, <1>15 DEF LogInFiles, Logged, First, Last
<1>17. ViewFits(log, border, c)'
  <2>1. UNCHANGED <<txId[c], lo[c], txs[c], active[c], off[c]>>  BY <1>6 DEF view
  <2> QED  BY <1>7, <1>8, <2>1, ViewKept
<1>18. MailFits(log, c)'
  <2>1. UNCHANGED <<txId[c], pend[c]>> /\ chan'[c] = chan[c]  BY <1>6 DEF view
  <2> QED  BY <1>8, <2>1, MailKept
<1>19. TaskFits(c)'  BY <1>1, <1>3, <1>6 DEF TaskFits, locks
<1>20. WriterFits(log, border, c)'
  <2>1. FilesOK  BY DEF ViewInv, TypeOK
  <2>2. PICK n : n = i + 1  OBVIOUS
  <2>3. /\ Len(frames'[g]) = n /\ frames'[g][n] = frame /\ Extent(g)' = n
        /\ \A j \in 1 .. i : frames'[g][j] = frames[g][j]
    <3>1. FrameWritten(g, o, i, frame)  BY <1>10, <1>14, <2>1, WriteFrameFacts, Zenon
    <3> QED  BY ONLY <2>2, <3>1 DEF FrameWritten
  <2>4. Holds(g, from, n, new, v)'
    <3>1. /\ frames'[g][n].type = "page" /\ frames'[g][n].val = v /\ frames'[g][n].page = p
          /\ e.salt1 = g /\ e.at = i + 1
      BY <1>4, <1>9, <1>12, <1>13, <2>3
    <3> QED  BY <1>4, <1>5, <1>13, <1>14, <2>2, <2>3, <3>1, PageAdded
  <2>5. new.end = n /\ new.id = Len(log) + 1 /\ new.salt1 = g
    <3>1. tx.id = Len(log) + 1 /\ tx.salt1 = g /\ tx.end = i  BY <1>4, <1>9, <1>13
    <3> QED  BY <1>13, <2>2, <3>1 DEF Transaction
  <2>6. Top' = g /\ cur'[c] = new /\ attempts' = v
    BY <1>4, <1>6, <1>9, <1>13 DEF Top, Swapped
  <2>7. n <= n  BY <1>14, <2>2
  <2>8. Holds(Top, End(log, border, Top), cur[c].end, cur[c], attempts)'
    <3>1. Top' = g /\ End(log, border, Top)' = from /\ cur'[c].end = n
      BY <1>13, <2>5, <2>6 DEF End, Place, First, Last
    <3> QED  BY <2>4, <2>6, <3>1 DEF Holds, PagesOf
  <2>9. Extent(Top)' = n /\ Len(frames'[Top']) = n /\ cur'[c].end = n
    BY <2>3, <2>5, <2>6 DEF Extent
  <2>10. txId'[c] = Len(log) /\ active'[c] = hdr'[Top'] /\ iso'[c] = "write"
    BY <1>1, <1>6, <1>7, <1>9, <2>6 DEF view
  <2> QED  BY <1>6, <2>5, <2>6, <2>7, <2>8, <2>9, <2>10 DEF WriterFits
<1>21. LogStep(c) /\ db' = db /\ attempts' <= MaxAttempt
  BY <1>4, <1>6 DEF LogStep
<1> QED
  BY <1>1, <1>7, <1>8, <1>15, <1>16, <1>17, <1>18, <1>19, <1>20, <1>21, WrittenFits

\* What the log is when a transaction is added to the file it ends in.
Extends(log, border, tx, g, o, newLog, newBorder) ==
  /\ newLog \in Seq(Transaction) /\ Len(newLog) = Len(log) + 1
  /\ newBorder \in 0 .. Len(newLog)
  /\ newLog[Len(newLog)] = tx /\ \A i \in 1 .. Len(log) : newLog[i] = log[i]
  /\ First(newBorder, g) = First(border, g) /\ First(border, g) <= Len(log)
  /\ Last(log, border, g) = Len(log) /\ Last(newLog, newBorder, g) = Len(newLog)
  /\ Place(newLog, newBorder, g, Len(log)) = End(log, border, g)
  /\ Place(newLog, newBorder, g, Len(newLog)) = tx.end
  /\ End(newLog, newBorder, g) = tx.end
  /\ End(newLog, newBorder, o) = End(log, border, o)
  /\ Logged(newLog, newBorder, g) = Logged(log, border, g) \cup {Len(newLog)}
  /\ Logged(newLog, newBorder, o) = Logged(log, border, o)

\* The border moves when it is the first file.
LEMMA Appended ==
  ASSUME NEW log \in Seq(Transaction), NEW border \in 0 .. Len(log), NEW tx \in Transaction,
         NEW g \in {0, 1}, NEW o \in {0, 1}, o # g, g = 0 => border = Len(log),
         NEW newLog, newLog = Append(log, tx),
         NEW newBorder, newBorder = IF g = 1 THEN border ELSE Len(newLog)
  PROVE  Extends(log, border, tx, g, o, newLog, newBorder)
<1>1. /\ newLog \in Seq(Transaction) /\ Len(newLog) = Len(log) + 1 /\ Len(log) \in Nat
      /\ newLog[Len(newLog)] = tx /\ \A i \in 1 .. Len(log) : newLog[i] = log[i]
  OBVIOUS
<1>2. newBorder \in 0 .. Len(newLog)  BY <1>1
<1>3. /\ First(newBorder, g) = First(border, g) /\ First(border, g) \in 0 .. Len(log)
      /\ Last(log, border, g) = Len(log) /\ Last(newLog, newBorder, g) = Len(newLog)
  BY <1>1 DEF First, Last
<1>4. Place(newLog, newBorder, g, Len(log)) = End(log, border, g)
  <2>1. Len(log) # First(border, g) => Len(log) \in 1 .. Len(log)  BY <1>1, <1>3
  <2> QED  BY <1>1, <1>3, <2>1 DEF End, Place
<1>5. Place(newLog, newBorder, g, Len(newLog)) = tx.end
  BY <1>1, <1>3 DEF Place
<1>6. End(newLog, newBorder, g) = tx.end  BY <1>3, <1>5 DEF End
<1>7. End(newLog, newBorder, o) = End(log, border, o)
  <2>1. CASE g = 1
    <3>1. o = 0 /\ newBorder = border  BY <2>1
    <3>2. border # 0 => border \in 1 .. Len(log)  BY <1>1
    <3> QED  BY <1>1, <3>1, <3>2 DEF End, Place, First, Last
  <2>2. CASE g = 0
    <3>1. o = 1 /\ newBorder = Len(newLog) /\ border = Len(log)  BY <2>2
    <3> QED  BY <3>1 DEF End, Place, First, Last
  <2> QED  BY <2>1, <2>2
<1>8. Logged(newLog, newBorder, g) = Logged(log, border, g) \cup {Len(newLog)}
  BY <1>1, <1>3 DEF Logged
<1>9. Logged(newLog, newBorder, o) = Logged(log, border, o)
  <2>1. CASE g = 1
    <3>1. o = 0 /\ newBorder = border  BY <2>1
    <3> QED  BY <3>1 DEF Logged, First, Last
  <2>2. CASE g = 0
    <3>1. o = 1 /\ newBorder = Len(newLog) /\ border = Len(log)  BY <2>2
    <3> QED  BY <1>1, <3>1 DEF Logged, First, Last
  <2> QED  BY <2>1, <2>2
<1> QED  BY <1>1, <1>2, <1>3, <1>4, <1>5, <1>6, <1>7, <1>8, <1>9 DEF Extends

\* A transaction that ends one frame later is the same otherwise.
LEMMA EndsLater ==
  ASSUME NEW w \in Transaction, NEW tx, tx = [w EXCEPT !.end = @ + 1]
  PROVE  /\ tx \in Transaction /\ tx.end = w.end + 1 /\ tx.pages = w.pages
         /\ tx.id = w.id /\ tx.salt1 = w.salt1 /\ PagesOf(tx) = PagesOf(w)
<1>1. /\ tx.end = w.end + 1 /\ tx.pages = w.pages /\ tx.id = w.id /\ tx.salt1 = w.salt1
  BY DEF Transaction
<1>2. tx \in Transaction  BY DEF Transaction
<1> QED  BY <1>1, <1>2 DEF PagesOf

\* A commit frame adds the transaction to the log.
LEMMA CommitFits ==
  ASSUME ViewInv, NEW log \in Seq(Transaction), NEW border \in Nat, LogFits(log, border),
         NEW c \in Conn, Commit(c)
  PROVE  \E newLog \in Seq(Transaction) : \E newBorder \in Nat : LogFits(newLog, newBorder)'
<1>1. /\ cur \in [Conn -> Transaction] /\ attempts \in Nat /\ pc \in [Conn -> Tasks]
      /\ txId \in [Conn -> Nat] /\ off \in [Conn -> Nat] /\ lo \in [Conn -> Nat]
      /\ active \in [Conn -> Header] /\ DOMAIN txs = Conn
      /\ hist \in Seq([val : Nat, pages : SUBSET Page])
  BY DEF ViewInv, TypeOK, TasksOK, ViewOK, HistoryOK
<1>2. /\ TaskFits(c) /\ FilesFit(log, border) /\ LogInFiles(log, border)
      /\ WriterFits(log, border, c) /\ ViewFits(log, border, c)
      /\ Len(log) = Len(hist) /\ Len(log) \in Nat
  BY FilesFacts DEF LogFits
<1>3. PICK tx : tx = [cur[c] EXCEPT !.end = @ + 1]  BY Zenon
<1>4. /\ pc[c] = "ready" /\ iso[c] = "write" /\ pc'[c] = "publish" /\ cur'[c] = NoTx
      /\ cur[c] # NoTx /\ Page1 \in PagesOf(cur[c])
      /\ WriteFrame(FileOf(active[c].salt1), cur[c].end, Frame(active[c], "commit", Page1, 0))
      /\ Activate(c, tx)
      /\ hist' = Append(hist, [val |-> attempts, pages |-> PagesOf(tx)])
      /\ UNCHANGED <<hdr, db, locks, chan, attempts, iso, active, pend, due, ck>>
  BY <1>1, <1>3 DEF Commit, MayWrite, Usable, Ready, Goto
<1>5. /\ txId[c] = Len(log) /\ active[c] = hdr[Top] /\ HasLoaded(c) /\ pend[c] = {}
      /\ Top \in {0, 1} /\ FileOf(active[c].salt1) = Top
      /\ End(log, border, Top) \in Nat
      /\ border \in 0 .. Len(log)
      /\ ~Swapped => border = Len(log)
  BY <1>4, WriterFacts
<1>6. /\ cur[c].id = Len(log) + 1 /\ cur[c].salt1 = Top
      /\ cur[c].end = Len(frames[Top])
      /\ Holds(Top, End(log, border, Top), cur[c].end, cur[c], attempts)
  BY <1>2, <1>4 DEF WriterFits
<1>7. PICK g \in {0, 1} : g = Top  BY <1>5
<1>8. PICK o \in {0, 1} : o # g  OBVIOUS
<1>9. PICK i, from, n, v : /\ i = cur[c].end /\ from = End(log, border, g)
                           /\ n = Len(log) + 1 /\ v = attempts
  OBVIOUS
<1>10. /\ i \in Nat /\ from \in Nat /\ n \in Nat
       /\ tx \in Transaction /\ tx.end = i + 1 /\ tx.id = n /\ tx.salt1 = g
       /\ tx.pages = cur[c].pages /\ PagesOf(tx) = PagesOf(cur[c])
       /\ i <= Len(frames[g]) /\ Holds(g, from, i, tx, v)
  <2>1. cur[c] \in Transaction /\ i \in Nat  BY <1>1, <1>9, TransactionFacts
  <2>2. /\ tx \in Transaction /\ tx.end = cur[c].end + 1 /\ tx.pages = cur[c].pages
        /\ tx.id = cur[c].id /\ tx.salt1 = cur[c].salt1
        /\ PagesOf(tx) = PagesOf(cur[c])
    BY <1>3, <2>1, EndsLater, Zenon
  <2>3. tx.end = i + 1  BY <1>9, <2>2, Zenon
  <2>4. Holds(g, from, i, tx, v)  BY <1>6, <1>7, <1>9, <2>2, Zenon DEF Holds
  <2>5. n \in Nat /\ from \in Nat  BY <1>2, <1>5, <1>7, <1>9
  <2>6. i <= Len(frames[g])  BY <1>6, <1>7, <1>9, <2>1
  <2> QED  BY <1>6, <1>7, <1>9, <2>1, <2>2, <2>3, <2>4, <2>5, <2>6, Zenon
<1>11. from + 2 <= i + 1
  <2>1. tx.pages[Page1].at \in from + 1 .. i
    <3>1. Page1 \in PagesOf(tx)  BY <1>4, <1>10, Zenon
    <3> QED  BY <1>10, <3>1, Zenon DEF Holds
  <2>2. i \in Nat /\ from \in Nat  BY <1>10
  <2> QED  BY ONLY <2>1, <2>2
<1>12. PICK newLog : newLog = Append(log, tx)  OBVIOUS
<1>13. PICK newBorder : newBorder = IF g = 1 THEN border ELSE Len(newLog)  OBVIOUS
<1>14. /\ newLog \in Seq(Transaction) /\ Len(newLog) = n
       /\ newBorder \in 0 .. Len(newLog) /\ newBorder \in Nat
       /\ newLog[n] = tx /\ \A j \in 1 .. Len(log) : newLog[j] = log[j]
       /\ First(newBorder, g) = First(border, g) /\ First(border, g) <= Len(log)
       /\ Last(log, border, g) = Len(log) /\ Last(newLog, newBorder, g) = n
       /\ Place(newLog, newBorder, g, Len(log)) = from
       /\ Place(newLog, newBorder, g, n) = i + 1
       /\ End(newLog, newBorder, g) = i + 1
       /\ End(newLog, newBorder, o) = End(log, border, o)
       /\ Logged(newLog, newBorder, g) = Logged(log, border, g) \cup {n}
       /\ Logged(newLog, newBorder, o) = Logged(log, border, o)
  <2>1. g = 0 => border = Len(log)  BY <1>5, <1>7 DEF Top
  <2>2. Extends(log, border, tx, g, o, newLog, newBorder)
    <3>1. border \in 0 .. Len(log) /\ tx \in Transaction  BY <1>5, <1>10
    <3> QED  BY <1>8, <1>12, <1>13, <2>1, <3>1, Appended, Zenon
  <2>3. Len(newLog) = n  BY <1>9, <2>2 DEF Extends
  <2>4. newBorder \in Nat  BY <1>10, <2>2, <2>3 DEF Extends
  <2> QED  BY <1>9, <1>10, <2>2, <2>3, <2>4, Zenon DEF Extends
<1>15. /\ hist'[n] = [val |-> v, pages |-> PagesOf(tx)] /\ Len(hist') = n
       /\ \A j \in 1 .. Len(log) : hist'[j] = hist[j]
  BY <1>1, <1>2, <1>4, <1>9
<1>16. Grows(log, border, newLog, newBorder)
  <2>1. Last(log, border, g) <= Last(newLog, newBorder, g)
    <3>1. Len(log) <= n  BY ONLY <1>2, <1>9
    <3> QED  BY <1>14, <3>1, Zenon
  <2>2. hdr[o] # NoHeader => /\ First(newBorder, o) = First(border, o)
                             /\ Last(log, border, o) <= Last(newLog, newBorder, o)
    <3>1. CASE g = 1
      BY <1>5, <1>8, <1>13, <3>1 DEF First, Last
    <3>2. CASE g = 0
      <4>1. o = 1 /\ ~Swapped  BY <1>7, <1>8, <3>2 DEF Top
      <4> QED  BY <4>1 DEF Swapped
    <3> QED  BY <3>1, <3>2
  <2>3. Len(log) <= Len(newLog)  BY <1>2, <1>9, <1>14
  <2>4. ASSUME NEW f \in {0, 1}, hdr[f] # NoHeader
        PROVE  /\ hdr'[f] = hdr[f] /\ First(newBorder, f) = First(border, f)
               /\ Last(log, border, f) <= Last(newLog, newBorder, f)
    <3>1. f = g \/ f = o  BY <1>8
    <3> QED  BY <1>4, <1>14, <2>1, <2>2, <2>4, <3>1, Zenon
  <2> QED  BY <1>14, <1>15, <2>3, <2>4 DEF Grows
<1>17. PICK frame : frame = Frame(hdr[g], "commit", Page1, 0)  OBVIOUS
<1>18. /\ frame \in FrameBytes /\ frame.type = "commit"
       /\ frame.salt = <<hdr[g].salt1, hdr[g].salt2>>
       /\ WriteFrame(g, i, frame)
  <2>1. frame \in FrameBytes  BY <1>17, FrameOK, FilesFacts, PageAssumption
  <2>2. WriteFrame(g, i, frame)  BY <1>4, <1>5, <1>7, <1>9, <1>17, Zenon
  <2> QED  BY <1>17, <2>1, <2>2 DEF Frame
<1>19. /\ FilesFit(newLog, newBorder)'
       /\ \A f \in {0, 1} : \A j \in Logged(log, border, f) :
            InLog(newLog, newBorder, f, j)'
  <2>1. /\ End(log, border, g) <= i /\ End(log, border, g) <= End(newLog, newBorder, g)
        /\ End(newLog, newBorder, g) <= i + 1
    <3>1. from <= i /\ from <= i + 1 /\ i + 1 <= i + 1  BY ONLY <1>10, <1>11
    <3> QED  BY <1>9, <1>14, <3>1, Zenon
  <2>2. IF Swapped THEN newBorder = border ELSE newBorder = Len(newLog)
    BY <1>7, <1>13 DEF Top
  <2>3. hdr' = hdr  BY <1>4
  <2> QED
    <3>1. /\ newLog \in Seq(Transaction) /\ newBorder \in 0 .. Len(newLog)
          /\ End(newLog, newBorder, o) = End(log, border, o)
          /\ frame.type = "commit" => End(newLog, newBorder, g) = i + 1
      BY <1>14, Zenon
    <3>2. i \in Nat /\ i <= Len(frames[g])  BY <1>10
    <3> QED
      BY <1>7, <1>8, <1>16, <1>18, <2>1, <2>2, <2>3, <3>1, <3>2, FrameFits, Zenon
<1>20. InLog(newLog, newBorder, g, n)'
  <2>1. FilesOK  BY DEF ViewInv, TypeOK
  <2>2. /\ frames'[g][i + 1] = frame
        /\ \A j \in 1 .. i : frames'[g][j] = frames[g][j]
    <3>1. i \in Nat /\ i <= Len(frames[g])  BY <1>10
    <3>2. FrameWritten(g, o, i, frame)  BY <1>8, <1>18, <2>1, <3>1, WriteFrameFacts, Zenon
    <3> QED  BY ONLY <3>2 DEF FrameWritten
  <2>3. Holds(g, from, i, tx, v)'
    <3>1. from + 1 .. i \subseteq 1 .. i  BY <1>10
    <3>2. \A j \in from + 1 .. i : frames'[g][j] = frames[g][j]  BY <2>2, <3>1
    <3> QED  BY <1>10, <3>2, HoldsKept
  <2>4. PagesOf(newLog[n]) = hist'[n].pages  BY <1>14, <1>15
  <2>5. n - 1 = Len(log) /\ i + 1 - 1 = i  BY <1>2, <1>9, <1>10
  <2>6. i + 1 <= i + 1  BY <1>10
  <2>7. Holds(g, Place(newLog, newBorder, g, n - 1), newLog[n].end - 1, newLog[n], hist[n].val)'
    <3>1. /\ Place(newLog, newBorder, g, n - 1) = from /\ newLog[n].end - 1 = i
          /\ newLog[n] = tx /\ hist'[n].val = v
      <4>1. n - 1 = Len(log) /\ newLog[n] = tx /\ tx.end = i + 1  BY <1>10, <1>14, <2>5, Zenon
      <4>2. Place(newLog, newBorder, g, n - 1) = from  BY <1>14, <4>1, Zenon
      <4>3. newLog[n].end - 1 = i  BY ONLY <1>10, <4>1
      <4>4. hist'[n].val = v  BY <1>15
      <4> QED  BY <4>1, <4>2, <4>3, <4>4
    <3> QED  BY <2>3, <3>1 DEF Holds
  <2> QED  BY <1>10, <1>11, <1>14, <1>18, <2>2, <2>4, <2>5, <2>6, <2>7 DEF InLog
<1>21. LogInFiles(newLog, newBorder)'
  <2>1. ASSUME NEW f \in {0, 1}, NEW j \in Logged(newLog, newBorder, f)
        PROVE  InLog(newLog, newBorder, f, j)'
    <3>1. CASE f = g
      <4>1. j \in Logged(log, border, f) \/ j = n  BY <1>14, <3>1, Zenon
      <4> QED  BY <1>19, <1>20, <3>1, <4>1, Zenon
    <3>2. CASE f = o
      <4>1. j \in Logged(log, border, f)  BY <1>14, <3>2, Zenon
      <4> QED  BY <1>19, <4>1, Zenon
    <3> QED  BY <1>8, <3>1, <3>2
  <2> QED  BY <1>14, <1>15, <2>1 DEF LogInFiles, Logged, First, Last
<1>22. ViewFits(newLog, newBorder, c)'
  <2>1. /\ txId'[c] = n /\ off'[c] = i + 1 /\ lo'[c] = 1
        /\ txs'[c] = [j \in 1 .. n |-> IF j = n THEN tx ELSE txs[c][j]]
    BY <1>1, <1>2, <1>4, <1>10 DEF Activate, ViewFits
  <2>2. ASSUME NEW j \in 1 .. n
        PROVE  (txs[c][j].id = j /\ Known(newLog, txs[c][j]))'
    <3>1. CASE j = n
      <4>1. txs'[c][j] = tx /\ tx.id = n  BY <1>10, <2>1, <3>1
      <4>2. Known(newLog, tx)'
        <5>1. \A p \in Page : tx.pages[p].at # 0 => tx.pages[p].cached \in {0, v}
          BY <1>10 DEF Holds
        <5>2. tx.id \in 1 .. Len(newLog)  BY <1>2, <1>9, <1>10, <1>14
        <5> QED  BY <1>10, <1>14, <1>15, <5>1, <5>2 DEF Known, Same
      <4>3. PICK t : t = txs'[c][j] /\ t = tx  BY <4>1
      <4> QED  BY <3>1, <4>1, <4>2, <4>3
    <3>2. CASE j # n
      <4>1. j \in 1 .. Len(log)  BY <1>2, <1>9, <3>2
      <4>2. j \in DOMAIN txs[c]
        <5>1. txs[c] \in [Keys(c) -> Transaction] /\ Keys(c) = lo[c] .. txId[c]
          BY <1>4 DEF ViewInv, TypeOK, ViewOK, Keys
        <5> QED  BY <1>2, <1>5, <4>1, <5>1 DEF ViewFits
      <4>3. txs'[c][j] = txs[c][j] /\ txs[c][j].id = j /\ Known(log, txs[c][j])
        BY <1>2, <2>1, <3>2, <4>2 DEF ViewFits
      <4>4. PICK t : t = txs[c][j]  OBVIOUS
      <4>5. Known(newLog, t)'  BY <1>16, <4>3, <4>4, KnownGrows
      <4>6. t = txs'[c][j] /\ t.id = j  BY <4>3, <4>4
      <4> QED  BY <4>5, <4>6
    <3> QED  BY <3>1, <3>2
  <2>3. StandsIn(newLog, newBorder, c, g)'
    <3>1. n \in First(newBorder, g) .. Last(newLog, newBorder, g)
      <4>1. First(border, g) \in Nat  BY <1>5, Places
      <4>2. First(newBorder, g) \in Nat /\ First(newBorder, g) <= Len(log)
            /\ Last(newLog, newBorder, g) = n
        BY <1>14, <4>1, Zenon
      <4> QED  BY ONLY <1>2, <1>9, <1>10, <4>2
    <3>2. active'[c] = hdr'[g] /\ hdr'[g] # NoHeader
      BY <1>4, <1>5, <1>7, TwoHeaders
    <3> QED  BY <1>14, <2>1, <3>1, <3>2 DEF StandsIn
  <2>4. txId'[c] <= Len(newLog)  BY <1>10, <1>14, <2>1
  <2>5. DOMAIN txs'[c] = 1 .. n  BY <2>1
  <2> QED  BY <2>1, <2>2, <2>3, <2>4, <2>5 DEF ViewFits
<1>23. MailFits(newLog, c)'
  <2>1. pend'[c] = {} /\ chan'[c] = chan[c]  BY <1>4, <1>5
  <2>2. (\A j \in DOMAIN chan[c] : chan[c][j].type = "tx" /\ Known(newLog, chan[c][j].tx))'
    <3> SUFFICES ASSUME NEW j \in DOMAIN chan'[c]
                 PROVE  (chan[c][j].type = "tx" /\ Known(newLog, chan[c][j].tx))'
      OBVIOUS
    <3>1. chan[c][j].type = "tx" /\ Known(log, chan[c][j].tx)
      BY <2>1 DEF LogFits, MailFits
    <3>2. PICK t : t = chan[c][j].tx  OBVIOUS
    <3>3. Known(newLog, t)'  BY <1>16, <3>1, <3>2, KnownGrows
    <3>4. t = chan'[c][j].tx  BY <2>1, <3>2
    <3> QED  BY <2>1, <3>1, <3>3, <3>4
  <2> QED  BY <2>1, <2>2 DEF MailFits
<1>24. TaskFits(c)'  BY <1>2, <1>4 DEF TaskFits, locks
<1>25. WriterFits(newLog, newBorder, c)'
  <2>1. txId'[c] = n
    BY <1>1, <1>4, <1>10 DEF Activate
  <2>2. active'[c] = hdr'[Top']  BY <1>4, <1>5 DEF Top, Swapped
  <2> QED  BY <1>4, <1>14, <2>1, <2>2 DEF WriterFits
<1>26. LogStep(c) /\ db' = db /\ attempts' <= MaxAttempt
  BY <1>4 DEF LogStep, LogFits
<1>27. LogFits(newLog, newBorder)'
  BY <1>4, <1>14, <1>16, <1>19, <1>21, <1>22, <1>23, <1>24, <1>25, <1>26, WrittenFits
<1> QED  BY <1>14, <1>27

-----------------------------------------------------------------------------
(* The invariant *)

\* At the start nothing is committed.
LEMMA SnapshotInit ==
  ASSUME NeverCheckpoints, Init
  PROVE  SnapshotInv
<1>0. PICK log : log = <<>>  OBVIOUS
<1>1. /\ log \in Seq(Transaction) /\ Len(log) = 0 /\ log = hist
      /\ hdr[0] = FirstHeader /\ hdr[1] = NoHeader
      /\ size[0] = 1 /\ size[1] = 0 /\ frames[0] = <<>> /\ frames[1] = <<>>
      /\ attempts = 0 /\ MaxAttempt \in Nat /\ db = [p \in Page |-> 0]
  BY <1>0, BoundAssumption DEF Init, NeverCheckpoints
<1>2. \A f \in {0, 1} : Logged(log, 0, f) = {} /\ End(log, 0, f) = 0
  BY <1>1 DEF Logged, End, Place, First, Last
<1>3. LogInFiles(log, 0)  BY <1>1, <1>2 DEF LogInFiles
<1>4. FilesFit(log, 0)
  <2>1. Extent(0) = 0  BY <1>1 DEF Extent
  <2>2. \A f \in {0, 1} : Len(frames[f]) = 0 /\ DOMAIN frames[f] = {}  BY <1>1
  <2> QED  BY <1>1, <1>2, <2>1, <2>2 DEF FilesFit
<1>5. ASSUME NEW c \in Conn
      PROVE  /\ ViewFits(log, 0, c) /\ MailFits(log, c)
             /\ TaskFits(c) /\ WriterFits(log, 0, c)
  <2>1. /\ pc[c] = IF c \in OpenAtStart THEN "ready" ELSE "closed"
        /\ iso[c] = "none" /\ txId[c] = 0 /\ off[c] = 0 /\ lo[c] = 1
        /\ active[c] = IF c \in OpenAtStart THEN FirstHeader ELSE NoHeader
        /\ txs[c] = <<>> /\ chan[c] = <<>> /\ pend[c] = {} /\ cur[c] = NoTx
        /\ ck[c] = NoCkpt /\ due[c] = FALSE
    BY DEF Init
  <2>2. ASSUME HasLoaded(c)
        PROVE  StandsIn(log, 0, c, 0)
    <3>1. active[c] = FirstHeader /\ FirstHeader # NoHeader
      BY <2>1, <2>2 DEF HasLoaded, IsOpen, FirstHeader, NoHeader
    <3> QED  BY <1>1, <2>1, <3>1 DEF StandsIn, First, Last, Place
  <2>3. ViewFits(log, 0, c)  BY <1>1, <2>1, <2>2 DEF ViewFits
  <2>4. MailFits(log, c)  BY <2>1 DEF MailFits
  <2>5. TaskFits(c)  BY <2>1 DEF TaskFits
  <2>6. WriterFits(log, 0, c)  BY <2>1 DEF WriterFits
  <2> QED  BY <2>3, <2>4, <2>5, <2>6
<1>6. LogFits(log, 0)  BY <1>1, <1>3, <1>4, <1>5 DEF LogFits
<1>7. PICK border \in Nat : border = 0  OBVIOUS
<1>8. LogFits(log, border) /\ log \in Seq(Transaction)  BY <1>1, <1>6, <1>7
<1> QED  BY <1>8, Zenon DEF SnapshotInv

\* Only a commit adds to the log.
LEMMA LogStepFits ==
  ASSUME NeverCheckpoints, ViewInv, NEW log \in Seq(Transaction), NEW border \in Nat,
         LogFits(log, border), NEW c \in Conn, LogStep(c)
  PROVE  LogFits(log, border)' \/ Commit(c)
<1>1. CASE Quiet(c)  BY <1>1, QuietStep
<1>2. CASE SwapEnd(c)  BY <1>2, SwapEndFits
<1>3. CASE SwapHeader(c)  BY <1>3, SwapHeaderFits
<1>4. CASE \E p \in Page : WritePage(c, p)  BY <1>4, WritePageFits
<1>5. CASE Rollback(c)  BY <1>5, RollbackFits
<1> QED  BY <1>1, <1>2, <1>3, <1>4, <1>5, Zenon DEF LogStep, Quiet

\* Steps that change nothing.
LEMMA SnapshotStutter ==
  ASSUME NEW log \in Seq(Transaction), NEW border \in Nat, LogFits(log, border), vars' = vars
  PROVE  LogFits(log, border)'
<1>1. /\ UNCHANGED <<hdr, frames, size, db, wlock, chan, hist, attempts, pc, iso>>
      /\ UNCHANGED <<txId, active, off, lo, txs, pend, cur, due, ck>>
  BY DEF vars, files, locks, ghosts, view
<1>2. LogInFiles(log, border)'
  BY <1>1, SameFrames DEF LogFits
<1>3. FilesFit(log, border)'
  BY <1>1 DEF LogFits, FilesFit, EndFrameAt, Extent, Place, End, First, Last
<1>4. ASSUME NEW d \in Conn
      PROVE  /\ ViewFits(log, border, d)' /\ MailFits(log, d)'
             /\ TaskFits(d)' /\ WriterFits(log, border, d)'
  <2>1. /\ ViewFits(log, border, d) /\ MailFits(log, d)
        /\ TaskFits(d) /\ WriterFits(log, border, d)
    BY DEF LogFits
  <2>2. ViewFits(log, border, d)'
    BY <1>1, <2>1 DEF ViewFits, Known, HasLoaded, IsOpen, StandsIn
  <2>3. MailFits(log, d)'  BY <1>1, <2>1 DEF MailFits, Known
  <2>4. TaskFits(d)'  BY <1>1, <2>1 DEF TaskFits
  <2>5. WriterFits(log, border, d)'
    BY <1>1, <2>1 DEF WriterFits, Swapped, Top, EndFrameAt, Extent, Holds, Place, End, First, Last
  <2> QED  BY <2>2, <2>3, <2>4, <2>5
<1> QED  BY <1>1, <1>2, <1>3, <1>4 DEF LogFits

\* Every step keeps the invariant.
LEMMA SnapshotStep ==
  NeverCheckpoints /\ ViewInv /\ SnapshotInv /\ [Next]_vars => SnapshotInv'
<1> SUFFICES ASSUME NeverCheckpoints, ViewInv, SnapshotInv, [Next]_vars
             PROVE  SnapshotInv'
  OBVIOUS
<1>1. PICK log \in Seq(Transaction), border \in Nat : LogFits(log, border)
  BY DEF SnapshotInv
<1>2. CASE vars' = vars
  <2>1. LogFits(log, border)'  BY <1>1, <1>2, SnapshotStutter
  <2> QED  BY <2>1 DEF SnapshotInv
<1>3. ASSUME NEW c \in Conn, Step(c)
      PROVE  SnapshotInv'
  <2>1. LogStep(c)  BY <1>1, <1>3, OnlyLogSteps
  <2>2. CASE LogFits(log, border)'  BY <2>2 DEF SnapshotInv
  <2>3. CASE Commit(c)  BY <1>1, <2>3, CommitFits DEF SnapshotInv
  <2> QED  BY <1>1, <2>1, <2>2, <2>3, LogStepFits
<1> QED  BY <1>2, <1>3, Zenon DEF Next

\* As long as nobody runs a checkpoint, the committed transactions are in the
\* files for good, and views, messages and the running transaction fit them.
THEOREM SnapshotInvariant ==
  ASSUME NeverCheckpoints
  PROVE  Spec => [](ViewInv /\ SnapshotInv)
<1>1. Init => ViewInv /\ SnapshotInv  BY InitInv, SnapshotInit
<1>2. (ViewInv /\ SnapshotInv) /\ [Next]_vars => (ViewInv /\ SnapshotInv)'
  BY StepInv, SnapshotStep
<1> QED  BY <1>1, <1>2, PTL DEF Spec

-----------------------------------------------------------------------------
(* What the connections read *)

\* The transactions of a view are the committed ones.
LEMMA ViewIsPrefix ==
  ASSUME ViewInv, NEW log \in Seq(Transaction), NEW border \in Nat, LogFits(log, border),
         NEW c \in Conn, pc[c] # "gone"
  PROVE  /\ DOMAIN txs[c] = 1 .. txId[c] /\ txId[c] \in Nat /\ txId[c] <= Len(hist)
         /\ \A i \in DOMAIN txs[c] :
              /\ PagesOf(txs[c][i]) = hist[i].pages
              /\ \A p \in PagesOf(txs[c][i]) : Fetch(txs[c][i].pages[p]) = hist[i].val
<1>1. ViewFits(log, border, c) /\ Len(log) = Len(hist)  BY FilesFacts DEF LogFits
<1>2. txs[c] \in [Keys(c) -> Transaction] /\ txId[c] \in Nat
  BY DEF ViewInv, TypeOK, ViewOK
<1>3. DOMAIN txs[c] = 1 .. txId[c]  BY <1>1, <1>2 DEF Keys, ViewFits
<1>4. ASSUME NEW i \in DOMAIN txs[c]
      PROVE  /\ PagesOf(txs[c][i]) = hist[i].pages
             /\ \A p \in PagesOf(txs[c][i]) : Fetch(txs[c][i].pages[p]) = hist[i].val
  <2>1. PICK tx : tx = txs[c][i]  OBVIOUS
  <2>2. tx.id = i /\ Known(log, tx)  BY <1>1, <2>1 DEF ViewFits
  <2>3. /\ PagesOf(tx) = hist[i].pages
        /\ \A p \in PagesOf(tx) : Fetch(tx.pages[p]) = hist[i].val
    BY <2>2, KnownFacts
  <2> QED  BY <2>1, <2>3
<1> QED  BY <1>1, <1>2, <1>3, <1>4 DEF ViewFits

\* A writer reads its own pages back.
LEMMA OwnWrites ==
  ASSUME ViewInv, NEW log \in Seq(Transaction), NEW border \in Nat, LogFits(log, border),
         NEW c \in Conn, NEW p \in PagesOf(cur[c])
  PROVE  cur[c] # NoTx /\ Fetch(cur[c].pages[p]) = attempts
<1>1. cur[c] \in Transaction /\ WriterFits(log, border, c)
  BY DEF LogFits, ViewInv, TypeOK, TasksOK
<1>2. p \in Page /\ cur[c].pages[p].at # 0  BY DEF PagesOf
<1>3. cur[c] # NoTx  BY <1>2 DEF NoTx, NoEntry
<1>4. PICK g \in {0, 1} : g = Top  BY TwoHeaders
<1>5. PICK from : from = End(log, border, g)  OBVIOUS
<1>6. PICK e : e = cur[c].pages[p]  OBVIOUS
<1>7. /\ cur[c].end <= Extent(g) /\ attempts >= 1
      /\ Holds(g, from, cur[c].end, cur[c], attempts)
  BY <1>1, <1>3, <1>4, <1>5 DEF WriterFits
<1>8. /\ e.at \in from + 1 .. cur[c].end
      /\ e.salt1 = g /\ e.cached \in {0, attempts}
      /\ frames[g][e.at].val = attempts
  BY <1>2, <1>6, <1>7 DEF Holds
<1>9. from \in Nat /\ Extent(g) \in Int /\ cur[c].end \in Nat
  BY <1>1, <1>5, FilesFacts, Places, TransactionFacts
<1>10. e.at \in 1 .. Extent(g)  BY ONLY <1>7, <1>8, <1>9
<1>11. FileOf(e.salt1) = g  BY <1>8 DEF FileOf
<1>12. Fetch(e) = attempts
  BY <1>8, <1>10, <1>11, Zenon DEF Fetch
<1> QED  BY <1>3, <1>6, <1>12

\* The overlay finds the last transaction of the snapshot with the page.
LEMMA OverlayIsLast ==
  ASSUME NEW S \in SUBSET Nat, NEW n \in Nat, \A x \in S : x <= n, S # {}
  PROVE  Max(S) \in S /\ Max(S) = CHOOSE i \in S : \A j \in S : j <= i
<1> DEFINE m == CHOOSE i \in S : \A j \in S : j <= i
<1>1. Max(S) \in S  BY MaxBounded
<1>2. \A x, y \in S : x >= y <=> y <= x  OBVIOUS
<1>3. \E x \in S : \A y \in S : x >= y
  <2> DEFINE T == {n - x : x \in S}
  <2>1. T \subseteq Nat
    <3>1. \A x \in S : n - x \in Nat  OBVIOUS
    <3> QED  BY <3>1
  <2>2. T # {}  OBVIOUS
  <2>3. PICK k \in T : \A l \in T : k <= l
    <3> HIDE DEF T
    <3> QED  BY <2>1, <2>2, MinExists
  <2>4. PICK x \in S : k = n - x  OBVIOUS
  <2>5. \A y \in S : n - y \in T  OBVIOUS
  <2>6. \A y \in S : x >= y
    <3> SUFFICES ASSUME NEW y \in S PROVE x >= y
      OBVIOUS
    <3>1. n - x <= n - y  BY <2>3, <2>4, <2>5
    <3> QED  BY ONLY <3>1, x \in S, y \in S, S \in SUBSET Nat, n \in Nat
  <2> QED  BY <2>6
<1>4. m \in S /\ \A j \in S : j <= m  BY <1>2, <1>3
<1>5. \A y \in S : Max(S) >= y  BY <1>3 DEF Max
<1>6. Max(S) = m
  <2> HIDE DEF m
  <2>1. Max(S) >= m /\ Max(S) <= m  BY <1>1, <1>4, <1>5
  <2>2. Max(S) \in Nat /\ m \in Nat  BY <1>1, <1>4
  <2> QED  BY ONLY <2>1, <2>2
<1> QED  BY <1>1, <1>6

\* What a transaction reads is its snapshot.
LEMMA SnapshotIsRead == ViewInv /\ SnapshotInv => ReadsSeeSnapshot
<1> SUFFICES ASSUME ViewInv, SnapshotInv, NEW c \in Conn, Ready(c), NEW p \in Page
             PROVE  ReadPage(c, p) = IF p \in PagesOf(cur[c])
                                       THEN attempts ELSE Promise!ValueAt(p, txId[c])
  BY DEF ReadsSeeSnapshot
<1>1. PICK log \in Seq(Transaction), border \in Nat : LogFits(log, border)
  BY DEF SnapshotInv
<1>2. CASE p \in PagesOf(cur[c])
  <2>1. cur[c] # NoTx /\ Fetch(cur[c].pages[p]) = attempts  BY <1>1, <1>2, OwnWrites
  <2> QED  BY <1>2, <2>1 DEF ReadPage
<1>3. CASE p \notin PagesOf(cur[c])
  <2>1. /\ DOMAIN txs[c] = 1 .. txId[c] /\ txId[c] \in Nat
        /\ \A i \in DOMAIN txs[c] :
             /\ PagesOf(txs[c][i]) = hist[i].pages
             /\ \A q \in PagesOf(txs[c][i]) : Fetch(txs[c][i].pages[q]) = hist[i].val
    BY <1>1, ViewIsPrefix DEF Ready
  <2>2. PICK S : S = Overlaying(c, p)  OBVIOUS
  <2>3. S = Promise!WritersOf(p, txId[c])
    BY <2>1, <2>2 DEF Overlaying, Promise!WritersOf
  <2>4. S \subseteq 1 .. txId[c]  BY <2>1, <2>2 DEF Overlaying
  <2>5. CASE S = {}
    <3>1. db[p] = 0  BY <1>1 DEF LogFits
    <3>2. Promise!ValueAt(p, txId[c]) = 0  BY <2>3, <2>5 DEF Promise!ValueAt
    <3>3. ReadPage(c, p) = db[p]  BY <1>3, <2>2, <2>5 DEF ReadPage
    <3> QED  BY <1>3, <3>1, <3>2, <3>3
  <2>6. CASE S # {}
    <3>1. S \in SUBSET Nat /\ \A x \in S : x <= txId[c]  BY <2>1, <2>4
    <3>2. Max(S) \in S /\ Max(S) = CHOOSE i \in S : \A j \in S : j <= i
      BY <2>1, <2>6, <3>1, OverlayIsLast
    <3>3. PICK m : m = Max(S)  OBVIOUS
    <3>4. Promise!ValueAt(p, txId[c]) = hist[m].val
      BY <2>3, <2>6, <3>2, <3>3, Zenon DEF Promise!ValueAt
    <3>5. m \in DOMAIN txs[c] /\ p \in PagesOf(txs[c][m])
      BY <2>2, <3>2, <3>3 DEF Overlaying
    <3>6. ReadPage(c, p) = Fetch(txs[c][m].pages[p])
      BY <1>3, <2>2, <2>6, <3>3, Zenon DEF ReadPage, Overlay
    <3> QED  BY <1>3, <2>1, <3>4, <3>5, <3>6, Zenon
  <2> QED  BY <2>5, <2>6
<1> QED  BY <1>2, <1>3

\* Every page a transaction reads is the page of its snapshot, for any number
\* of connections, with writers terminated at any step and across the swap of
\* the files, as long as nobody runs a checkpoint (read, #fetchPage).
THEOREM ReadsAreSnapshots ==
  ASSUME NeverCheckpoints
  PROVE  Spec => []ReadsSeeSnapshot
<1>1. Spec => [](ViewInv /\ SnapshotInv)  BY SnapshotInvariant
<1> QED  BY <1>1, SnapshotIsRead, PTL

\* No task throws: a frame that a view or a message names is in the file, and
\* a transaction that was announced can be read (#fetchPage, #activateTx).
THEOREM NoTaskThrows ==
  ASSUME NeverCheckpoints
  PROVE  Spec => []NoFault
<1>1. Spec => [](ViewInv /\ SnapshotInv)  BY SnapshotInvariant
<1>2. ViewInv /\ SnapshotInv => NoFault
  BY DEF SnapshotInv, LogFits, TaskFits, NoFault
<1> QED  BY <1>1, <1>2, PTL

-----------------------------------------------------------------------------
(* Snapshot isolation *)

\* A step shows in the mode and the view of the connection that takes it.
LEMMA OthersSee ==
  ASSUME ViewInv, ViewInv', NEW c \in Conn, LogStep(c), NEW m, Mode(c)' = m
  PROVE  /\ [d \in Conn |-> Mode(d)]' = [[d \in Conn |-> Mode(d)] EXCEPT ![c] = m]
         /\ txId' = [txId EXCEPT ![c] = txId'[c]]
<1>1. \A d \in Conn : d # c => Mode(d)' = Mode(d) /\ txId'[d] = txId[d]
  BY OthersStay DEF Stays, Mode
<1>2. txId \in [Conn -> Nat] /\ txId' \in [Conn -> Nat]
  BY DEF ViewInv, TypeOK, ViewOK
<1>3. txId' = [txId EXCEPT ![c] = txId'[c]]  BY <1>1, <1>2
<1>4. \A d \in Conn : Mode(d)' = [[e \in Conn |-> Mode(e)] EXCEPT ![c] = m][d]
  BY <1>1
<1> QED  BY <1>3, <1>4

\* A view that moves forward outside of a transaction, or nothing at all.
LEMMA MovesOn ==
  ASSUME ViewInv, ViewInv', NEW c \in Conn, LogStep(c),
         hist' = hist, Mode(c)' = Mode(c), txId[c] <= txId'[c], txId'[c] <= Len(hist),
         Mode(c) = "none" \/ txId'[c] = txId[c]
  PROVE  [Promise!Next]_(Promise!vars)
<1> DEFINE M == [d \in Conn |-> Mode(d)]
<1>1. txId' = [txId EXCEPT ![c] = txId'[c]] /\ M' = [M EXCEPT ![c] = Mode(c)]
  BY OthersSee
<1>2. txId \in [Conn -> Nat] /\ txId' \in [Conn -> Nat] /\ Len(hist) \in Nat
  BY DEF ViewInv, TypeOK, ViewOK, HistoryOK
<1>3. M[c] = Mode(c) /\ M' = M  BY <1>1
<1>4. CASE Mode(c) = "none"
  <2>1. txId'[c] \in txId[c] .. Len(hist)  BY <1>2
  <2>2. Promise!Advance(c)  BY <1>1, <1>3, <1>4, <2>1, Zenon DEF Promise!Advance
  <2> QED  BY <2>2 DEF Promise!Next
<1>5. CASE txId'[c] = txId[c]
  <2>1. txId' = txId  BY <1>1, <1>2, <1>5
  <2> QED  BY <1>3, <2>1 DEF Promise!vars
<1> QED  BY <1>4, <1>5

\* The steps that neither begin nor end a transaction, nor move a view.
LEMMA KeepsMode ==
  ASSUME ViewInv, NEW log \in Seq(Transaction), NEW border \in Nat, LogFits(log, border),
         NEW c \in Conn,
         \/ OpenLock(c) \/ FollowEnd(c) \/ CaughtUp(c) \/ BeginWrite(c)
         \/ Publish(c) \/ Receive(c) \/ GrantTxIdLock(c) \/ Backstop(c)
         \/ SwapEnd(c) \/ SwapHeader(c) \/ (\E p \in Page : WritePage(c, p)) \/ Rollback(c)
  PROVE  LogStep(c) /\ UNCHANGED <<hist, txId>> /\ Mode(c)' = Mode(c)
<1>1. pc \in [Conn -> Tasks] /\ iso \in [Conn -> {"none", "read", "write"}]
  BY DEF ViewInv, TypeOK, TasksOK
<1>2. TaskFits(c)  BY DEF LogFits
<1>3. CASE OpenLock(c)
  BY <1>1, <1>2, <1>3 DEF OpenLock, Goto, Mode, view, ghosts, LogStep, TaskFits
<1>4. CASE FollowEnd(c)
  BY <1>4 DEF FollowEnd, Mode, ghosts, LogStep
<1>5. CASE CaughtUp(c)
  BY <1>1, <1>2, <1>5 DEF CaughtUp, Goto, Mode, view, ghosts, LogStep, TaskFits
<1>6. CASE BeginWrite(c)
  BY <1>1, <1>6 DEF BeginWrite, Usable, Ready, Goto, SetIso, Mode, view, ghosts, LogStep
<1>7. CASE Publish(c)
  BY <1>1, <1>7 DEF Publish, Goto, Mode, view, ghosts, LogStep
<1>8. CASE Receive(c)
  <2>1. pc[c] = "ready" /\ pc'[c] \in {"ready", "catchUp"} /\ UNCHANGED <<hist, iso, txId>>
    BY <1>1, <1>8 DEF Receive, Ready, Goto, OnTx, view, ghosts
  <2> QED  BY <1>8, <2>1 DEF Mode, LogStep
<1>9. CASE GrantTxIdLock(c)
  BY <1>9 DEF GrantTxIdLock, Mode, view, ghosts, LogStep
<1>10. CASE Backstop(c)
  BY <1>1, <1>10 DEF Backstop, Ready, Goto, Mode, view, ghosts, LogStep
<1>11. CASE SwapEnd(c)
  BY <1>1, <1>11 DEF SwapEnd, MayWrite, Usable, Ready, Goto, Mode, view, ghosts, LogStep
<1>12. CASE SwapHeader(c)
  BY <1>1, <1>12 DEF SwapHeader, Goto, Mode, ghosts, LogStep
<1>13. CASE \E p \in Page : WritePage(c, p)
  <2>1. PICK p \in Page : WritePage(c, p)  BY <1>13
  <2>2. pc'[c] = "ready" /\ UNCHANGED <<hist, iso, view>>
    BY <1>1, <2>1 DEF WritePage, Goto
  <2>3. pc[c] \in {"ready", "write"}
    BY <2>1 DEF WritePage, MayWrite, Usable, Ready
  <2> QED  BY <1>13, <2>2, <2>3 DEF Mode, LogStep, view
<1>14. CASE Rollback(c)
  BY <1>14 DEF Rollback, Mode, view, ghosts, LogStep
<1> QED
  BY <1>3, <1>4, <1>5, <1>6, <1>7, <1>8, <1>9, <1>10, <1>11, <1>12, <1>13, <1>14, Zenon

\* The steps that move a view take place outside of transactions.
LEMMA MovesView ==
  ASSUME ViewInv, NEW log \in Seq(Transaction), NEW border \in Nat, LogFits(log, border),
         LogFits(log, border)', ViewInv', NEW c \in Conn,
         OpenLoad(c) \/ SkipTx(c) \/ ReadTx(c)
  PROVE  /\ LogStep(c) /\ hist' = hist /\ Mode(c) = "none" /\ Mode(c)' = "none"
         /\ txId[c] <= txId'[c] /\ txId'[c] <= Len(hist)
<1>1. /\ pc \in [Conn -> Tasks] /\ txId \in [Conn -> Nat] /\ txId' \in [Conn -> Nat]
  BY DEF ViewInv, TypeOK, TasksOK, ViewOK
<1>2. TaskFits(c) /\ Len(log) = Len(hist) /\ txId'[c] <= Len(log)
  BY FilesFacts DEF LogFits, ViewFits
<1>3. CASE OpenLoad(c)
  <2>1. pc[c] = "joining" /\ pc'[c] = "advance" /\ UNCHANGED <<hist, iso>>
    BY <1>1, <1>3 DEF OpenLoad, StartFrom, Goto, ghosts
  <2>2. txId[c] = 0  BY <2>1 DEF ViewInv, ViewsContiguous
  <2> QED  BY <1>1, <1>2, <1>3, <2>1, <2>2 DEF Mode, TaskFits, LogStep
<1>4. CASE SkipTx(c)
  <2>1. /\ pc[c] \in {"catchUp", "advance"} /\ pc'[c] \in {pc[c], "fault"}
        /\ UNCHANGED <<hist, iso>>
    BY <1>1, <1>4 DEF SkipTx, Advancing, Goto, ghosts
  <2>2. txId'[c] = txId[c] + 1 \/ txId'[c] = txId[c]
    BY <1>1, <1>4 DEF SkipTx, Next1, Activate, view
  <2> QED  BY <1>1, <1>2, <1>4, <2>1, <2>2 DEF Mode, TaskFits, LogStep
<1>5. CASE ReadTx(c)
  <2>1. /\ pc[c] \in {"catchUp", "advance"} /\ UNCHANGED <<pc, hist, iso>>
    BY <1>5 DEF ReadTx, MustRead, Advancing, ghosts
  <2>2. txId'[c] = txId[c] + 1
    BY <1>1, <1>5 DEF ReadTx, TxRead, Activate
  <2> QED  BY <1>1, <1>2, <1>5, <2>1, <2>2 DEF Mode, TaskFits, LogStep
<1> QED  BY <1>3, <1>4, <1>5

\* A transaction that writes has seen everything, and is the only one.
LEMMA BeginsToWrite ==
  ASSUME ViewInv, ViewInv', NEW log \in Seq(Transaction), NEW border \in Nat,
         LogFits(log, border), LogFits(log, border)', NEW c \in Conn, LogStep(c),
         UNCHANGED <<hist, txId>>, Mode(c) # "write", Mode(c)' = "write",
         wlock \in {c, None}
  PROVE  Promise!BeginWrite(c)
<1> DEFINE M == [d \in Conn |-> Mode(d)]
<1>1. M' = [M EXCEPT ![c] = "write"]  BY OthersSee
<1>2. ASSUME NEW d \in Conn
      PROVE  M[d] # "write"
  <2>1. TaskFits(d) /\ None \notin Conn  BY ConnAssumption DEF LogFits
  <2>2. iso[d] = "write" => d = c  BY <2>1 DEF TaskFits
  <2> QED  BY <2>2 DEF Mode
<1>3. txId[c] = Len(hist)
  <2>1. iso'[c] = "write" /\ pc'[c] # "advance"  BY DEF Mode
  <2>2. txId'[c] = Len(log)  BY <2>1 DEF LogFits, WriterFits
  <2> QED  BY <2>2, FilesFacts
<1> QED  BY <1>1, <1>2, <1>3 DEF Promise!BeginWrite, Promise!NoWriter

\* The end of a transaction, whatever it was.
LEMMA EndsTransaction ==
  ASSUME ViewInv, ViewInv', NEW c \in Conn, LogStep(c),
         UNCHANGED <<hist, txId>>, Mode(c)' = "none"
  PROVE  Promise!End(c)
<1>1. [d \in Conn |-> Mode(d)]' = [[d \in Conn |-> Mode(d)] EXCEPT ![c] = "none"]
  BY OthersSee
<1> QED  BY <1>1 DEF Promise!End

\* Every step is one of snapshot isolation, or does not show there.
LEMMA PromiseStep ==
  ASSUME ViewInv, ViewInv', NEW log \in Seq(Transaction), NEW border \in Nat,
         LogFits(log, border), NEW c \in Conn, LogStep(c),
         LogFits(log, border)' \/ Commit(c)
  PROVE  [Promise!Next]_(Promise!vars)
<1>1. /\ pc \in [Conn -> Tasks] /\ iso \in [Conn -> {"none", "read", "write"}]
      /\ txId \in [Conn -> Nat] /\ cur \in [Conn -> Transaction] /\ Len(hist) \in Nat
      /\ attempts \in Nat
  BY DEF ViewInv, TypeOK, TasksOK, ViewOK, HistoryOK
<1>2. TaskFits(c) /\ ViewFits(log, border, c) /\ Len(log) = Len(hist)
  BY FilesFacts DEF LogFits
<1>3. CASE \/ OpenLock(c) \/ FollowEnd(c) \/ CaughtUp(c) \/ BeginWrite(c)
           \/ Publish(c) \/ Receive(c) \/ GrantTxIdLock(c) \/ Backstop(c)
           \/ SwapEnd(c) \/ SwapHeader(c) \/ (\E p \in Page : WritePage(c, p)) \/ Rollback(c)
  <2>1. UNCHANGED <<hist, txId>> /\ Mode(c)' = Mode(c)  BY <1>3, KeepsMode
  <2>2. txId[c] <= txId'[c] /\ txId'[c] <= Len(hist)  BY <1>1, <1>2, <2>1 DEF ViewFits
  <2> QED  BY <2>1, <2>2, MovesOn
<1>4. CASE Commit(c)
  <2>1. /\ pc[c] = "ready" /\ iso[c] = "write" /\ cur[c] # NoTx
        /\ pc'[c] = "publish" /\ iso'[c] = "write" /\ txId'[c] = txId[c] + 1
    BY <1>1, <1>4, CommitEffect
  <2>2. Mode(c) = "write" /\ Mode(c)' = "write"  BY <2>1 DEF Mode
  <2>3. txId[c] = Len(hist)  BY <1>2, <2>1, WriterFacts
  <2>4. PICK P : P = PagesOf([cur[c] EXCEPT !.end = @ + 1])  OBVIOUS
  <2>5. P \in SUBSET Page /\ hist' = Append(hist, [val |-> attempts, pages |-> P])
    BY <1>4, <2>4 DEF Commit, PagesOf
  <2>6. attempts \in 1 .. MaxAttempt
    BY <1>1, <2>1, BoundAssumption DEF LogFits, WriterFits
  <2>7. Len(hist') = Len(hist) + 1
    BY <2>5 DEF ViewInv, TypeOK, HistoryOK
  <2>8. /\ [d \in Conn |-> Mode(d)]' = [[d \in Conn |-> Mode(d)] EXCEPT ![c] = "write"]
        /\ txId' = [txId EXCEPT ![c] = Len(hist')]
    BY <2>1, <2>2, <2>3, <2>7, OthersSee
  <2>9. [d \in Conn |-> Mode(d)]' = [d \in Conn |-> Mode(d)]
    BY <2>2, <2>8
  <2>10. Promise!Commit(c)
    BY <2>2, <2>3, <2>5, <2>6, <2>8, <2>9 DEF Promise!Commit
  <2> QED  BY <2>10 DEF Promise!Next
<1>5. CASE LogFits(log, border)' /\ (OpenLoad(c) \/ SkipTx(c) \/ ReadTx(c))
  BY <1>5, MovesView, MovesOn
<1>6. CASE LogFits(log, border)' /\ AtEnd(c)
  <2>1. /\ pc[c] \in {"catchUp", "advance"} /\ pc'[c] = "ready"
        /\ UNCHANGED <<hist, iso, txId>>
    <3>1. pc[c] \in {"catchUp", "advance"} /\ pc'[c] \in {"ready", "fault"}
      BY <1>1, <1>6 DEF AtEnd, MustRead, Advancing, Goto
    <3>2. pc'[c] # "fault"  BY <1>6 DEF LogFits, TaskFits
    <3> QED  BY <1>6, <3>1, <3>2 DEF AtEnd, view, ghosts
  <2>2. CASE iso[c] = "write"
    <3>1. Mode(c) # "write" /\ Mode(c)' = "write" /\ wlock = c
      BY <1>2, <2>1, <2>2 DEF Mode, TaskFits
    <3>2. Promise!BeginWrite(c)  BY <1>6, <2>1, <3>1, BeginsToWrite
    <3> QED  BY <3>2 DEF Promise!Next
  <2>3. CASE iso[c] # "write"
    <3>1. Mode(c) = "none" /\ Mode(c)' = "none"
      BY <1>1, <1>2, <2>1, <2>3 DEF Mode, TaskFits
    <3>2. txId[c] <= txId'[c] /\ txId'[c] <= Len(hist)  BY <1>1, <1>2, <2>1 DEF ViewFits
    <3> QED  BY <2>1, <3>1, <3>2, MovesOn
  <2> QED  BY <2>2, <2>3
<1>7. CASE BeginRead(c)
  <2>1. /\ pc[c] = "ready" /\ iso[c] = "none" /\ iso'[c] = "read"
        /\ UNCHANGED <<pc, hist, txId>>
    BY <1>1, <1>7 DEF BeginRead, Usable, Ready, SetIso, view, ghosts
  <2>2. Mode(c) = "none" /\ Mode(c)' = "read"  BY <2>1 DEF Mode
  <2>3. [d \in Conn |-> Mode(d)]' = [[d \in Conn |-> Mode(d)] EXCEPT ![c] = "read"]
    BY <2>2, OthersSee
  <2>4. Promise!BeginRead(c)  BY <2>1, <2>2, <2>3 DEF Promise!BeginRead
  <2> QED  BY <2>4 DEF Promise!Next
<1>8. CASE LogFits(log, border)' /\ Upgrade(c)
  <2>1. /\ pc[c] = "ready" /\ iso[c] = "read" /\ iso'[c] = "write" /\ wlock = None
        /\ UNCHANGED <<pc, hist, txId>>
    BY <1>1, <1>8 DEF Upgrade, Usable, Ready, SetIso, view, ghosts
  <2>2. Mode(c) # "write" /\ Mode(c)' = "write"  BY <2>1 DEF Mode
  <2>3. Promise!BeginWrite(c)  BY <1>8, <2>1, <2>2, BeginsToWrite
  <2> QED  BY <2>3 DEF Promise!Next
<1>9. CASE Rejoin(c) \/ Close(c) \/ Crash(c)
  <2>1. iso'[c] = "none" /\ UNCHANGED <<hist, txId>>
    <3>1. CASE Rejoin(c)
      BY <1>1, <3>1 DEF Rejoin, SetIso, view, ghosts
    <3>2. CASE Close(c) \/ Crash(c)  BY <1>1, <3>2, DepartEffect DEF ghosts
    <3> QED  BY <1>9, <3>1, <3>2
  <2>2. Mode(c)' = "none"  BY <2>1 DEF Mode
  <2>3. Promise!End(c)  BY <2>1, <2>2, EndsTransaction
  <2> QED  BY <2>3 DEF Promise!Next
<1> QED
  BY <1>3, <1>4, <1>5, <1>6, <1>7, <1>8, <1>9, Zenon DEF LogStep

\* The step of the refinement.
LEMMA PromiseRefines ==
  NeverCheckpoints /\ ViewInv /\ SnapshotInv /\ [Next]_vars /\ ViewInv'
    => [Promise!Next]_(Promise!vars)
<1> SUFFICES ASSUME NeverCheckpoints, ViewInv, SnapshotInv, [Next]_vars, ViewInv'
             PROVE  [Promise!Next]_(Promise!vars)
  OBVIOUS
<1>1. PICK log \in Seq(Transaction), border \in Nat : LogFits(log, border)
  BY DEF SnapshotInv
<1>2. CASE vars' = vars
  BY <1>2 DEF vars, view, ghosts, Promise!vars, Mode
<1>3. ASSUME NEW c \in Conn, Step(c)
      PROVE  [Promise!Next]_(Promise!vars)
  <2>1. LogStep(c)  BY <1>1, <1>3, OnlyLogSteps
  <2>2. LogFits(log, border)' \/ Commit(c)  BY <1>1, <2>1, LogStepFits
  <2> QED  BY <1>1, <2>1, <2>2, PromiseStep
<1> QED  BY <1>2, <1>3, Zenon DEF Next

\* The log implements snapshot isolation: one sequence of transactions that
\* loses none, views that only move between transactions, and one writer, who
\* has seen all of it, as long as nobody runs a checkpoint (isolateForRead,
\* isolateForWrite, tryUpgradeReadIsolationToWrite, commit, #readTx).
THEOREM LogIsSnapshotIsolation ==
  ASSUME NeverCheckpoints
  PROVE  Spec => ImplementsPromise
<1>1. Init => Promise!Init
  BY DEF Init, Promise!Init, Mode
<1>2. Spec => [](ViewInv /\ SnapshotInv)  BY SnapshotInvariant
<1>3. ViewInv /\ SnapshotInv /\ [Next]_vars /\ ViewInv' => [Promise!Next]_(Promise!vars)
  BY PromiseRefines
<1> QED  BY <1>1, <1>2, <1>3, PTL DEF Spec, ImplementsPromise, Promise!Spec
=============================================================================
