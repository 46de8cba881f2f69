----------------------------- MODULE WriteAhead -----------------------------
(***************************************************************************)
(* The two-file write-ahead log of src/src/vendor/WriteAhead.js, with the  *)
(* locking the VFS puts around it.                                         *)
(*                                                                         *)
(* Every connection is one WriteAhead instance in a worker of its own: its *)
(* event loop runs one task at a time (a VFS call, a message, the backstop *)
(* timer, the continuation of an awaited lock), and the workers run in     *)
(* parallel on the shared files.  A task that scans the log or copies      *)
(* pages is a sequence of steps here, so that other workers can write in   *)
(* between; "pc" says which task is running and is "ready" between tasks.  *)
(*                                                                         *)
(* A file is its header, the frames behind it, and its size, counted in    *)
(* these units: truncation only lowers the size, the bytes stay and show   *)
(* again when a write further on raises it (memoryWriteAheadSharedRuntime, *)
(* writeMemoryWriteAheadFile).  A frame carries a checksum and the salts   *)
(* of the header it belongs to, so a frame of another header, or half a    *)
(* frame, does not exist for a reader; a frame written over an old tail    *)
(* hides the rest of that tail (the frames no longer line up).  A page     *)
(* value is the number of the write transaction that wrote it.             *)
(***************************************************************************)
EXTENDS Integers, Sequences, FiniteSets, FiniteSetsExt

CONSTANTS
  Conn,          \* the connections, each opened at most once
  OpenAtStart,   \* those that are already open in the initial state
  Page, Page1,   \* the database pages; the first holds the database header
  SwapLimit,     \* journalSizeLimit, in pages
  None,          \* no connection
  MaxAttempt,    \* bound: write transactions begun
  MaxQueue,      \* bound: messages waiting when a full checkpoint begins
  Backstopped,   \* the connections with backstopInterval > 0
  Reader,        \* bound: connections that begin with a read
  Writer,        \* bound: connections that write
  AutoCheckpointer, \* the connections with autoCheckpoint > 0
  PassiveCheckpointer, \* bound: connections that run a passive checkpoint
  FullCheckpointer, \* bound: connections that run a full checkpoint
  Mortal,        \* bound: connections that may be terminated
  Closer         \* bound: connections that may be closed

ASSUME ConnAssumption == /\ OpenAtStart \subseteq Conn /\ None \notin Conn
                         /\ Backstopped \subseteq Conn
                         /\ Reader \subseteq Conn /\ Writer \subseteq Conn
                         /\ AutoCheckpointer \subseteq Conn
                         /\ PassiveCheckpointer \subseteq Conn
                         /\ FullCheckpointer \subseteq Conn
                         /\ Mortal \subseteq Conn /\ Closer \subseteq Conn
ASSUME PageAssumption == Page1 \in Page /\ IsFiniteSet(Page)
ASSUME BoundAssumption == SwapLimit \in Nat \ {0} /\ MaxAttempt \in Nat /\ MaxQueue \in Nat

VARIABLES
  hdr,        \* the header bytes of each WAL file, NoHeader if never written
  frames,     \* the frames behind it
  size,       \* its size: 0, or 1 for the header and 1 for every frame
  db,         \* the pages of the database file
  wlock,      \* holder of the write lock of the VFS
  ckptLock,   \* holder of the `#ckpt` lock
  chan,       \* per connection: messages its BroadcastChannel has to deliver
  pub,        \* per connection: the txId lock it holds, <min:max>
  hist,       \* history: the committed transactions, in commit order
  attempts,   \* history: write transactions begun
  pc,         \* per connection: the running task
  iso,        \* #isolationState
  txId,       \* #txId
  active,     \* #activeHeader (its salt1 selects #activeHandle)
  off,        \* #activeOffset, in frames
  lo,         \* lowest key of #mapIdToTx, txId + 1 when it is empty
  txs,        \* #mapIdToTx: the keys are always lo .. txId
  sized,      \* whether #dbFileSize was ever set
  pend,       \* #mapIdToPendingTx, as a set of transactions
  cur,        \* #txInProgress
  due,        \* whether #autoCheckpoint has asked for a checkpoint
  ck          \* the running checkpoint()

files == <<hdr, frames, size>>
locks == <<wlock, ckptLock, pub>>
ghosts == <<hist, attempts>>
view == <<txId, active, off, lo, txs, sized>>
vars == <<files, db, locks, chan, ghosts, pc, iso, view, pend, cur, due, ck>>

NoHeader == [nextTxId |-> 0, salt1 |-> 0, salt2 |-> None]
Junk == [type |-> "page", salt |-> <<-1, None>>, page |-> Page1, val |-> -2]
NoEntry == [salt1 |-> 0, at |-> 0, cached |-> 0]
NoTx == [id |-> 0, pages |-> [p \in Page |-> NoEntry], salt1 |-> 0, end |-> 0]
NoPub == [min |-> 0, max |-> 0]
NoCkpt == [phase |-> "off", full |-> FALSE, id |-> 0, todo |-> {}, polled |-> {}]

\* salt2 is random, so that no two headers are taken for each other: here it
\* is the connection that wrote the header (each writes a salt1 only once).
FirstHeader == [nextTxId |-> 1, salt1 |-> 0, salt2 |-> None]

\* Its BroadcastChannel exists; it has loaded the log.
IsOpen(c) == pc[c] \notin {"closed", "joining", "gone"}
HasLoaded(c) == IsOpen(c) /\ pc[c] # "create"

-----------------------------------------------------------------------------
(* Reading the log *)

FileOf(salt1) == salt1 % 2
PagesOf(tx) == {p \in Page : tx.pages[p].at # 0}
Inactive(c) == 1 - FileOf(active[c].salt1)

\* #readFileHeader
HeaderOf(f) == IF size[f] = 0 THEN NoHeader ELSE hdr[f]

\* The frames within the size of the file.
Extent(f) == IF size[f] <= Len(frames[f]) THEN size[f] - 1 ELSE Len(frames[f])

\* #readFrame finds a frame with the salts of the header.
Readable(h, i) ==
  LET f == FileOf(h.salt1) IN
    /\ i \in 1 .. Extent(f)
    /\ frames[f][i].salt = <<h.salt1, h.salt2>>

\* Mutant: the other header must have the same salt.
FollowsSame(h, g) == g # NoHeader /\ g.salt1 = h.salt1

\* An end frame counts only if the other file has the header that follows.
Follows(h, g) == g # NoHeader /\ g.salt1 = h.salt1 + 1
\* Mutant: the end frame alone is enough.
EndAlone(h, i) == Readable(h, i) /\ frames[FileOf(h.salt1)][i].type = "end"

EndAt(h, i) ==
  LET f == FileOf(h.salt1) IN
    Readable(h, i) /\ frames[f][i].type = "end" /\ Follows(h, HeaderOf(1 - f))
PageAt(h, i) == Readable(h, i) /\ frames[FileOf(h.salt1)][i].type = "page"
CommitAt(h, i) == Readable(h, i) /\ frames[FileOf(h.salt1)][i].type = "commit"

\* Where the run of page frames from the connection's offset stops.
StopOf(c) == CHOOSE i \in off[c] + 1 .. Extent(FileOf(active[c].salt1)) + 1 :
               /\ ~PageAt(active[c], i)
               /\ \A j \in off[c] + 1 .. i - 1 : PageAt(active[c], j)

InRange(c) == off[c] <= Extent(FileOf(active[c].salt1))

\* Mutant: the file is scanned only when a message has come.
TxAheadIfTold(c) == pend[c] # {} /\ InRange(c) /\ CommitAt(active[c], StopOf(c))

TxAhead(c) == InRange(c) /\ CommitAt(active[c], StopOf(c))
EndAhead(c) == EndAt(active[c], off[c] + 1)

\* The transaction #readTx returns: for each page its last frame, not cached.
TxRead(c) ==
  LET h == active[c]
      at(p) == {j \in off[c] + 1 .. StopOf(c) - 1 : frames[FileOf(h.salt1)][j].page = p}
  IN [id |-> txId[c] + 1,
      pages |-> [p \in Page |->
                   IF at(p) = {} THEN NoEntry
                   ELSE [salt1 |-> h.salt1, at |-> Max(at(p)), cached |-> 0]],
      salt1 |-> h.salt1,
      end |-> StopOf(c)]

-----------------------------------------------------------------------------
(* Reading a page *)

\* The latest transaction of the map with the page: #waOverlay.
Overlaying(c, p) == {i \in DOMAIN txs[c] : p \in PagesOf(txs[c][i])}
\* Mutant: the oldest version of the page wins.
OverlayOldest(c, p) == txs[c][Min(Overlaying(c, p))].pages[p]

Overlay(c, p) == txs[c][Max(Overlaying(c, p))].pages[p]

\* #fetchPage: whatever frame is at the offset now; -1 is a short read.
Fetch(e) ==
  LET f == FileOf(e.salt1) IN
    IF e.cached # 0 THEN e.cached
    ELSE IF e.at \in 1 .. Extent(f) THEN frames[f][e.at].val
    ELSE -1

\* What the VFS returns for a page: jRead.
ReadPage(c, p) ==
  IF cur[c] # NoTx /\ p \in PagesOf(cur[c]) THEN Fetch(cur[c].pages[p])
  ELSE IF Overlaying(c, p) # {} THEN Fetch(Overlay(c, p))
  ELSE db[p]

\* getWriteAheadSize: the sum of the pages of the transactions in the map.
ApproxPageCount(c) ==
  MapThenSumSet(LAMBDA i : Cardinality(PagesOf(txs[c][i])), DOMAIN txs[c])

-----------------------------------------------------------------------------
(* Steps shared by the operations *)

Ready(c) == pc[c] = "ready"
\* SQLite waits for the checkpoint its own PRAGMA asked for.
Usable(c) == Ready(c) /\ ~ck[c].full

Goto(c, to) == pc' = [pc EXCEPT ![c] = to]
SetIso(c, i) == iso' = [iso EXCEPT ![c] = i]

\* #activateTx after #readTx, #skipTx or #commitTx has moved to its end.
Activate(c, tx) ==
  /\ txId' = [txId EXCEPT ![c] = tx.id]
  /\ txs' = [txs EXCEPT ![c] = [i \in lo[c] .. tx.id |-> IF i = tx.id THEN tx ELSE txs[c][i]]]
  /\ off' = [off EXCEPT ![c] = tx.end]
  /\ sized' = [sized EXCEPT ![c] = TRUE]
  /\ UNCHANGED lo

\* Mutant: the view keeps the checkpointed transactions.
AbsorbNothing(c, id) == UNCHANGED <<lo, txs>>

\* #handleCheckpoint
Absorb(c, id) ==
  IF id \in lo[c] .. txId[c]
    THEN /\ lo' = [lo EXCEPT ![c] = id + 1]
         /\ txs' = [txs EXCEPT ![c] = [i \in id + 1 .. txId[c] |-> txs[c][i]]]
    ELSE UNCHANGED <<lo, txs>>

\* postMessage delivers to every other channel that exists at that moment.
Broadcast(c, m) ==
  chan' = [d \in Conn |-> IF d # c /\ IsOpen(d) THEN Append(chan[d], m) ELSE chan[d]]

\* A frame written behind the first i frames; holes keep whatever was there.
WriteFrame(f, i, frame) ==
  /\ frames' = [frames EXCEPT ![f] =
       [j \in 1 .. i + 1 |-> IF j = i + 1 THEN frame
                            ELSE IF j <= Len(frames[f]) THEN frames[f][j] ELSE Junk]]
  /\ size' = [size EXCEPT ![f] = IF @ < i + 2 THEN i + 2 ELSE @]

WriteHeader(h) ==
  LET f == FileOf(h.salt1) IN
    /\ hdr' = [hdr EXCEPT ![f] = h]
    /\ size' = [size EXCEPT ![f] = IF @ = 0 THEN 1 ELSE @]

Frame(h, type, page, val) ==
  [type |-> type, salt |-> <<h.salt1, h.salt2>>, page |-> page, val |-> val]

-----------------------------------------------------------------------------
(* Opening: the asynchronous part of the constructor *)

\* The advertised view is <1:0> until the log has been read.
OpenLock(c) ==
  /\ pc[c] = "closed"
  /\ pub' = [pub EXCEPT ![c] = [min |-> 1, max |-> 0]]
  /\ Goto(c, "joining")
  /\ UNCHANGED <<files, db, wlock, ckptLock, chan, ghosts, iso, view, pend, cur, due, ck>>

StartFrom(c, h) ==
  /\ active' = [active EXCEPT ![c] = h]
  /\ off' = [off EXCEPT ![c] = 0]
  /\ txId' = [txId EXCEPT ![c] = h.nextTxId - 1]
  /\ lo' = [lo EXCEPT ![c] = h.nextTxId]
  /\ Goto(c, "advance")
  /\ UNCHANGED <<txs, sized>>

\* The file with the lower nextTxId of two, or the first.
IsFirst(f) == \/ hdr[f].nextTxId < hdr[1 - f].nextTxId
              \/ hdr[f].nextTxId = hdr[1 - f].nextTxId /\ f = 0

\* Listen, then start from the older of the valid headers.
OpenLoad(c) ==
  /\ pc[c] = "joining"
  /\ \E f \in {0, 1} :
       /\ HeaderOf(f) # NoHeader
       /\ HeaderOf(1 - f) # NoHeader => IsFirst(f)
       /\ StartFrom(c, hdr[f])
  /\ UNCHANGED <<files, db, locks, chan, ghosts, iso, pend, cur, due, ck>>

OpenEmpty(c) ==
  /\ pc[c] = "joining"
  /\ HeaderOf(0) = NoHeader /\ HeaderOf(1) = NoHeader
  /\ Goto(c, "create")
  /\ UNCHANGED <<files, db, locks, chan, ghosts, iso, view, pend, cur, due, ck>>

\* Neither header was valid when they were read: write one, salt1 at random.
OpenCreate(c) ==
  /\ pc[c] = "create"
  /\ \E s \in {0, 1} :
       LET h == [nextTxId |-> 1, salt1 |-> s, salt2 |-> c] IN
         WriteHeader(h) /\ StartFrom(c, h)
  /\ UNCHANGED <<frames, db, locks, chan, ghosts, iso, pend, cur, due, ck>>

-----------------------------------------------------------------------------
(* Advancing the view: #advanceTxId, #readAllTx, #readTx, #skipTx *)

\* #autoCheckpoint: a passive checkpoint is requested.
AskCkpt(c, cond) ==
  due' = IF cond /\ c \in AutoCheckpointer THEN [due EXCEPT ![c] = TRUE] ELSE due

Advancing(c) == pc[c] \in {"catchUp", "advance"}
Next1(c) == {tx \in pend[c] : tx.id = txId[c] + 1}

\* The next transaction arrived by message.
SkipTx(c) ==
  /\ Advancing(c)
  /\ \E tx \in Next1(c) :
       /\ pend' = [pend EXCEPT ![c] = @ \ {tx}]
       /\ AskCkpt(c, pc[c] = "catchUp")
       /\ IF tx.salt1 = active[c].salt1
            THEN Activate(c, tx) /\ Goto(c, pc[c]) /\ UNCHANGED active
            ELSE IF Follows(active[c], HeaderOf(Inactive(c)))
            THEN /\ active' = [active EXCEPT ![c] = hdr[Inactive(c)]]
                 /\ Activate(c, tx) /\ Goto(c, pc[c])
            ELSE Goto(c, "fault") /\ UNCHANGED view  \* 'invalid WAL file'
  /\ UNCHANGED <<files, db, locks, chan, ghosts, iso, cur, ck>>

\* Some are pending but not the next one, or the scan asked for all there is.
MustRead(c) ==
  \/ Advancing(c) /\ pend[c] # {} /\ Next1(c) = {}
  \/ pc[c] = "advance" /\ pend[c] = {}

ReadTx(c) ==
  /\ MustRead(c) /\ TxAhead(c)
  /\ Activate(c, TxRead(c))
  /\ AskCkpt(c, pc[c] = "catchUp")
  /\ UNCHANGED <<files, db, locks, chan, ghosts, pc, iso, active, pend, cur, ck>>

FollowEnd(c) ==
  /\ MustRead(c) /\ EndAhead(c)
  /\ active' = [active EXCEPT ![c] = hdr[Inactive(c)]]
  /\ off' = [off EXCEPT ![c] = 0]
  /\ UNCHANGED <<files, db, locks, chan, ghosts, pc, iso, txId, lo, txs, sized, pend, cur, due, ck>>

\* The end of the log: done, unless a pending transaction needed what is not
\* there (#activateTx(null) throws).
AtEnd(c) ==
  /\ MustRead(c) /\ ~TxAhead(c) /\ ~EndAhead(c)
  /\ Goto(c, IF pend[c] = {} THEN "ready" ELSE "fault")
  /\ UNCHANGED <<files, db, locks, chan, ghosts, iso, view, pend, cur, due, ck>>

\* Nothing pending is left.
CaughtUp(c) ==
  /\ pc[c] = "catchUp" /\ pend[c] = {}
  /\ Goto(c, "ready")
  /\ UNCHANGED <<files, db, locks, chan, ghosts, iso, view, pend, cur, due, ck>>

\* #updateTxIdLock: the lock that names the new view is granted and the old
\* one released, some time after a task has changed the view.
\* Mutant: the transactions still in the overlay are not advertised.
ViewWithoutOverlay(c) == [min |-> txId[c] + 1, max |-> txId[c]]

ViewOf(c) == [min |-> lo[c], max |-> txId[c]]

GrantTxIdLock(c) ==
  /\ Ready(c)
  /\ pub[c] # ViewOf(c)
  /\ pub' = [pub EXCEPT ![c] = ViewOf(c)]
  /\ UNCHANGED <<files, db, wlock, ckptLock, chan, ghosts, pc, iso, view, pend, cur, due, ck>>

\* Mutant: it is applied at once.
OnTxAlways(c) == "catchUp"

\* A transaction is applied at once unless the view is frozen.
OnTx(c) == IF iso[c] = "none" THEN "catchUp" ELSE "ready"

\* #handleMessage
Receive(c) ==
  /\ Ready(c) /\ chan[c] # <<>>
  /\ chan' = [chan EXCEPT ![c] = Tail(@)]
  /\ LET m == Head(chan[c]) IN
       \/ /\ m.type = "tx" /\ m.tx.id > txId[c]
          /\ pend' = [pend EXCEPT ![c] = {tx \in @ : tx.id # m.tx.id} \cup {m.tx}]
          /\ Goto(c, OnTx(c))
          /\ UNCHANGED view
       \/ /\ m.type = "tx" /\ m.tx.id <= txId[c]
          /\ UNCHANGED <<pc, view, pend>>
       \/ /\ m.type = "ckpt"
          /\ Absorb(c, m.id)
          /\ UNCHANGED <<pc, txId, active, off, sized, pend>>
  /\ UNCHANGED <<files, db, locks, ghosts, iso, cur, due, ck>>

\* #backstop, once its interval has passed.
Backstop(c) ==
  /\ c \in Backstopped
  /\ Ready(c) /\ iso[c] = "none"
  /\ Goto(c, "advance")
  /\ UNCHANGED <<files, db, locks, chan, ghosts, iso, view, pend, cur, due, ck>>

-----------------------------------------------------------------------------
(* Transactions of SQLite: jLock, jWrite, jFileControl, jUnlock *)

\* isolateForRead
BeginRead(c) ==
  /\ c \in Reader
  /\ Usable(c) /\ iso[c] = "none"
  /\ SetIso(c, "read")
  /\ UNCHANGED <<files, db, locks, chan, ghosts, pc, view, pend, cur, due, ck>>

\* The write lock, then isolateForWrite.
BeginWrite(c) ==
  /\ c \in Writer
  /\ Usable(c) /\ iso[c] = "none"
  /\ wlock = None /\ wlock' = c
  /\ SetIso(c, "write")
  /\ Goto(c, "advance")
  /\ UNCHANGED <<files, db, ckptLock, pub, chan, ghosts, view, pend, cur, due, ck>>

\* Mutant: only the messages are looked at.
NothingPending(c) == pend[c] = {}

SnapshotIsLatest(c) ==
  /\ pend[c] = {}
  /\ LET h == active[c] IN
       ~PageAt(h, off[c] + 1) /\ ~CommitAt(h, off[c] + 1) /\ ~EndAt(h, off[c] + 1)

\* tryUpgradeReadIsolationToWrite; when it fails the lock is released again
\* and nothing has changed.
Upgrade(c) ==
  /\ c \in Writer
  /\ Usable(c) /\ iso[c] = "read"
  /\ wlock = None /\ SnapshotIsLatest(c)
  /\ wlock' = c
  /\ SetIso(c, "write")
  /\ UNCHANGED <<files, db, ckptLock, pub, chan, ghosts, pc, view, pend, cur, due, ck>>

MayWrite(c) == Usable(c) /\ iso[c] = "write"

InactiveFileEmpty(c) ==
  active[c].nextTxId - 1 \notin lo[c] .. txId[c] /\ HeaderOf(Inactive(c)) = NoHeader

MustSwap(c) == cur[c] = NoTx /\ ApproxPageCount(c) >= SwapLimit /\ InactiveFileEmpty(c)

\* write() calls #swapActiveFile: the end frame first, then the new header.
SwapEnd(c) ==
  /\ MayWrite(c) /\ attempts < MaxAttempt /\ MustSwap(c)
  /\ WriteFrame(FileOf(active[c].salt1), off[c], Frame(active[c], "end", Page1, 0))
  /\ Goto(c, "swap")
  /\ UNCHANGED <<hdr, db, locks, chan, ghosts, iso, view, pend, cur, due, ck>>

SwapHeader(c) ==
  /\ pc[c] = "swap"
  /\ LET h == [nextTxId |-> txId[c] + 1, salt1 |-> active[c].salt1 + 1, salt2 |-> c] IN
       /\ WriteHeader(h)
       /\ active' = [active EXCEPT ![c] = h]
  /\ off' = [off EXCEPT ![c] = 0]
  /\ Goto(c, "write")
  /\ UNCHANGED <<frames, db, locks, chan, ghosts, iso, txId, lo, txs, sized, pend, cur, due, ck>>

\* write(): begin the transaction if there is none, append the page.  After a
\* swap the page follows in the same task.
WritePage(c, p) ==
  /\ MayWrite(c) \/ pc[c] = "write"
  /\ ~MustSwap(c)
  /\ cur[c] = NoTx => attempts < MaxAttempt
  /\ p \notin PagesOf(cur[c])
  /\ LET h == active[c]
         new == cur[c] = NoTx
         tx == IF new
                 THEN [NoTx EXCEPT !.id = txId[c] + 1, !.salt1 = h.salt1, !.end = off[c]]
                 ELSE cur[c]
         v == IF new THEN attempts + 1 ELSE attempts
         e == [salt1 |-> h.salt1, at |-> tx.end + 1, cached |-> IF p = Page1 THEN v ELSE 0]
     IN /\ attempts' = v
        /\ WriteFrame(FileOf(h.salt1), tx.end, Frame(h, "page", p, v))
        /\ cur' = [cur EXCEPT ![c] = [tx EXCEPT !.pages[p] = e, !.end = @ + 1]]
  /\ Goto(c, "ready")
  /\ UNCHANGED <<hdr, db, locks, chan, hist, iso, view, pend, due, ck>>

\* commit(): the commit frame makes the transaction durable, then it is
\* activated locally; other connections are told in the step that follows.
Commit(c) ==
  /\ MayWrite(c) /\ cur[c] # NoTx
  /\ Page1 \in PagesOf(cur[c])
  /\ LET h == active[c]
         tx == [cur[c] EXCEPT !.end = @ + 1]
     IN /\ WriteFrame(FileOf(h.salt1), cur[c].end, Frame(h, "commit", Page1, 0))
        /\ Activate(c, tx)
        /\ hist' = Append(hist, [val |-> attempts, pages |-> PagesOf(tx)])
  /\ cur' = [cur EXCEPT ![c] = NoTx]
  /\ Goto(c, "publish")
  /\ UNCHANGED <<hdr, db, locks, chan, attempts, iso, active, pend, due, ck>>

Publish(c) ==
  /\ pc[c] = "publish"
  /\ Broadcast(c, [type |-> "tx", tx |-> txs[c][txId[c]], id |-> 0])
  /\ AskCkpt(c, TRUE)
  /\ Goto(c, "ready")
  /\ UNCHANGED <<files, db, locks, ghosts, iso, view, pend, cur, ck>>

\* Mutant: the header is cut off with the frames.
CutHeaderToo(c) == [size EXCEPT ![FileOf(active[c].salt1)] = off[c] - 1]

\* #abortTx cuts the file behind the last committed transaction.
CutTail(c) == [size EXCEPT ![FileOf(active[c].salt1)] = off[c] + 1]

\* rollback(), and commit() of a transaction without page 1.
Rollback(c) ==
  /\ MayWrite(c) /\ cur[c] # NoTx
  /\ cur' = [cur EXCEPT ![c] = NoTx]
  /\ size' = CutTail(c)
  /\ UNCHANGED <<hdr, frames, db, locks, chan, ghosts, pc, iso, view, pend, due, ck>>

\* rejoin() when SQLite unlocks; a reader first catches up with what arrived.
Rejoin(c) ==
  /\ Usable(c) /\ cur[c] = NoTx
  /\ SetIso(c, "none")
  /\ \/ iso[c] = "read" /\ Goto(c, "catchUp") /\ UNCHANGED wlock
     \/ iso[c] = "write" /\ wlock' = None /\ UNCHANGED pc
  /\ UNCHANGED <<files, db, ckptLock, pub, chan, ghosts, view, pend, cur, due, ck>>

-----------------------------------------------------------------------------
(* checkpoint() *)

Ckpt(c, phase) == ck[c].phase = phase
Held == {d \in Conn : pub[d] # NoPub}

\* There is a transaction in the file that was left.
SomethingToCkpt(c) == active[c].nextTxId - 1 \in lo[c] .. txId[c]

\* Passive, by #autoCheckpoint or PRAGMA: only if the lock is free.
CkptPassive(c) ==
  /\ due[c] \/ c \in PassiveCheckpointer
  /\ Ready(c) /\ Ckpt(c, "off") /\ ckptLock = None
  /\ SomethingToCkpt(c)
  /\ ckptLock' = c
  /\ ck' = [ck EXCEPT ![c] = [NoCkpt EXCEPT !.phase = "query", !.id = active[c].nextTxId - 1]]
  /\ due' = [due EXCEPT ![c] = FALSE]
  /\ UNCHANGED <<files, db, wlock, pub, chan, ghosts, pc, iso, view, pend, cur>>

CkptSkipped(c) ==
  /\ due[c] /\ Ready(c)
  /\ ckptLock # None \/ ~SomethingToCkpt(c)
  /\ due' = [due EXCEPT ![c] = FALSE]
  /\ UNCHANGED <<files, db, locks, chan, ghosts, pc, iso, view, pend, cur, ck>>

\* Full, restart, truncate: under the write lock, with a current view.
CkptFull(c) ==
  /\ c \in FullCheckpointer /\ \A d \in Conn : Len(chan[d]) <= MaxQueue
  /\ Usable(c) /\ iso[c] = "none" /\ Ckpt(c, "off")
  /\ wlock = None /\ wlock' = c
  /\ SetIso(c, "write")
  /\ Goto(c, "advance")
  /\ ck' = [ck EXCEPT ![c] = [NoCkpt EXCEPT !.phase = "request", !.full = TRUE]]
  /\ UNCHANGED <<files, db, ckptLock, pub, chan, ghosts, view, pend, cur, due>>

CkptFullLock(c) ==
  /\ Ready(c) /\ Ckpt(c, "request") /\ ckptLock = None
  /\ ckptLock' = c
  /\ ck' = [ck EXCEPT ![c] = [@ EXCEPT !.phase = "query", !.id = txId[c]]]
  /\ UNCHANGED <<files, db, wlock, pub, chan, ghosts, pc, iso, view, pend, cur, due>>

\* Mutants: nobody is asked; one transaction too early.
NobodyAsked(id) == TRUE
DroppedEarly(id) == \A d \in Held : pub[d].min >= id

AllReached(id) == \A d \in Held : pub[d].max >= id
AllDropped(id) == \A d \in Held : pub[d].min > id

\* The answer of navigator.locks.query: the locks held at that moment.
CkptQuery(c) ==
  /\ Ckpt(c, "query") /\ AllReached(ck[c].id)
  /\ ck' = [ck EXCEPT ![c] = [@ EXCEPT !.phase = "go", !.polled = Held]]
  /\ UNCHANGED <<files, db, locks, chan, ghosts, pc, iso, view, pend, cur, due>>

\* A passive checkpoint gives up when somebody still reads an older view.
CkptBusy(c) ==
  /\ Ckpt(c, "query") /\ ~ck[c].full /\ ~AllReached(ck[c].id)
  /\ ck' = [ck EXCEPT ![c] = NoCkpt]
  /\ ckptLock' = None
  /\ UNCHANGED <<files, db, wlock, pub, chan, ghosts, pc, iso, view, pend, cur, due>>

CkptBegin(c) ==
  /\ Ready(c) /\ Ckpt(c, "go")
  /\ ck' = [ck EXCEPT ![c].todo =
       UNION {PagesOf(txs[c][i]) : i \in lo[c] .. ck[c].id}]
  /\ Goto(c, "copy")
  /\ UNCHANGED <<files, db, locks, chan, ghosts, iso, view, pend, cur, due>>

\* The newest version of a page up to the checkpoint goes to the database.
WritersUpTo(c, p, id) == {i \in lo[c] .. id : p \in PagesOf(txs[c][i])}
\* Mutant: the oldest version goes to the database.
Oldest(c, p, id) == txs[c][Min(WritersUpTo(c, p, id))].pages[p]

Newest(c, p, id) == txs[c][Max(WritersUpTo(c, p, id))].pages[p]

CkptCopy(c, p) ==
  /\ pc[c] = "copy" /\ p \in ck[c].todo
  /\ LET v == Fetch(Newest(c, p, ck[c].id)) IN
       IF v = -1 THEN Goto(c, "fault") /\ UNCHANGED <<db, ck>>
       ELSE /\ db' = [db EXCEPT ![p] = v]
            /\ ck' = [ck EXCEPT ![c].todo = @ \ {p}]
            /\ UNCHANGED pc
  /\ UNCHANGED <<files, locks, chan, ghosts, iso, view, pend, cur, due>>

CkptPost(c) ==
  /\ pc[c] = "copy" /\ ck[c].todo = {}
  /\ Broadcast(c, [type |-> "ckpt", tx |-> NoTx, id |-> ck[c].id])
  /\ Absorb(c, ck[c].id)
  /\ ck' = [ck EXCEPT ![c] = [@ EXCEPT !.phase = "wait", !.polled = {}]]
  /\ Goto(c, "ready")
  /\ UNCHANGED <<files, db, locks, ghosts, iso, txId, active, off, sized, pend, cur, due>>

\* #waitForTxIdLocks asks again until every lock it sees is past the id.
CkptWait(c) ==
  /\ Ckpt(c, "wait") /\ AllDropped(ck[c].id)
  /\ ck' = [ck EXCEPT ![c] = [@ EXCEPT !.phase = "truncate", !.polled = Held]]
  /\ UNCHANGED <<files, db, locks, chan, ghosts, pc, iso, view, pend, cur, due>>

\* #truncateInactiveFile; a full checkpoint then rejoins and unlocks.
CkptTruncate(c) ==
  /\ Ready(c) /\ Ckpt(c, "truncate")
  /\ size' = [size EXCEPT ![Inactive(c)] = 0]
  /\ ckptLock' = None
  /\ iso' = IF ck[c].full THEN [iso EXCEPT ![c] = "none"] ELSE iso
  /\ wlock' = IF ck[c].full THEN None ELSE wlock
  /\ ck' = [ck EXCEPT ![c] = NoCkpt]
  /\ UNCHANGED <<hdr, frames, db, pub, chan, ghosts, pc, view, pend, cur, due>>

-----------------------------------------------------------------------------
(* close(), and the termination of a worker *)

Depart(c) ==
  /\ Goto(c, "gone")
  /\ SetIso(c, "none")
  /\ pub' = [pub EXCEPT ![c] = NoPub]
  /\ chan' = [chan EXCEPT ![c] = <<>>]
  /\ pend' = [pend EXCEPT ![c] = {}]
  /\ txs' = [txs EXCEPT ![c] = <<>>]
  /\ cur' = [cur EXCEPT ![c] = NoTx]
  /\ due' = [due EXCEPT ![c] = FALSE]
  /\ ck' = [ck EXCEPT ![c] = NoCkpt]
  /\ wlock' = IF wlock = c THEN None ELSE wlock
  /\ ckptLock' = IF ckptLock = c THEN None ELSE ckptLock
  /\ UNCHANGED <<files, db, ghosts, txId, active, off, lo, sized>>

Close(c) ==
  /\ c \in Closer
  /\ Ready(c) /\ iso[c] = "none" /\ Ckpt(c, "off")
  /\ Depart(c)

\* The browser releases every lock of the worker; the files stay as they are.
Crash(c) ==
  /\ c \in Mortal
  /\ pc[c] \notin {"closed", "gone"}
  /\ Depart(c)

-----------------------------------------------------------------------------

Init ==
  /\ hdr = [f \in {0, 1} |-> IF f = 0 /\ OpenAtStart # {} THEN FirstHeader ELSE NoHeader]
  /\ frames = [f \in {0, 1} |-> <<>>]
  /\ size = [f \in {0, 1} |-> IF f = 0 /\ OpenAtStart # {} THEN 1 ELSE 0]
  /\ db = [p \in Page |-> 0]
  /\ wlock = None /\ ckptLock = None
  /\ chan = [c \in Conn |-> <<>>]
  /\ pub = [c \in Conn |-> IF c \in OpenAtStart THEN [min |-> 1, max |-> 0] ELSE NoPub]
  /\ hist = <<>> /\ attempts = 0
  /\ pc = [c \in Conn |-> IF c \in OpenAtStart THEN "ready" ELSE "closed"]
  /\ iso = [c \in Conn |-> "none"]
  /\ txId = [c \in Conn |-> 0]
  /\ active = [c \in Conn |-> IF c \in OpenAtStart THEN FirstHeader ELSE NoHeader]
  /\ off = [c \in Conn |-> 0]
  /\ lo = [c \in Conn |-> 1]
  /\ txs = [c \in Conn |-> <<>>]
  /\ sized = [c \in Conn |-> FALSE]
  /\ pend = [c \in Conn |-> {}]
  /\ cur = [c \in Conn |-> NoTx]
  /\ due = [c \in Conn |-> FALSE]
  /\ ck = [c \in Conn |-> NoCkpt]

Opening(c) == OpenLock(c) \/ OpenLoad(c) \/ OpenEmpty(c) \/ OpenCreate(c)

\* A task that has begun runs on by itself.
Running(c) ==
  \/ SkipTx(c) \/ ReadTx(c) \/ FollowEnd(c) \/ AtEnd(c) \/ CaughtUp(c)
  \/ SwapHeader(c) \/ (pc[c] = "write" /\ \E p \in Page : WritePage(c, p))
  \/ Publish(c)
  \/ \E p \in Page : CkptCopy(c, p)
  \/ CkptPost(c)

Using(c) ==
  \/ BeginRead(c) \/ BeginWrite(c) \/ Upgrade(c)
  \/ SwapEnd(c) \/ \E p \in Page : WritePage(c, p)
  \/ Commit(c) \/ Rollback(c)

Checkpointing(c) ==
  \/ CkptSkipped(c) \/ CkptFullLock(c) \/ CkptQuery(c) \/ CkptBusy(c) \/ CkptBegin(c)
  \/ CkptWait(c) \/ CkptTruncate(c)

Step(c) ==
  \/ Opening(c) \/ Running(c) \/ Using(c) \/ Rejoin(c)
  \/ CkptPassive(c) \/ CkptFull(c) \/ Checkpointing(c)
  \/ Receive(c) \/ GrantTxIdLock(c) \/ Backstop(c)
  \/ Close(c) \/ Crash(c)

Next == \E c \in Conn : Step(c)

Spec == Init /\ [][Next]_vars

\* A worker runs its tasks to the end, its event loop comes round to every
\* message and granted lock, a transaction ends, a checkpoint goes on when it
\* can, and the backstop timer fires again and again.  Nobody has to begin
\* anything.
Handles(c) == Receive(c) \/ GrantTxIdLock(c)
Ends(c) == Commit(c) \/ Rollback(c) \/ Rejoin(c)

Fairness ==
  /\ \A c \in Conn : /\ WF_vars(Running(c) \/ (Opening(c) /\ pc[c] # "closed"))
                     /\ SF_vars(Handles(c))
                     /\ SF_vars(Ends(c))
                     /\ SF_vars(Checkpointing(c))
  /\ \A c \in Backstopped : SF_vars(Backstop(c))

FairSpec == Spec /\ Fairness

-----------------------------------------------------------------------------
(* Properties *)

Tasks == {"closed", "joining", "create", "advance", "catchUp", "ready", "swap",
          "write", "publish", "copy", "fault", "gone"}
Phases == {"off", "request", "query", "go", "wait", "truncate"}
Salt2 == Conn \cup {None}
Header == [nextTxId : Nat, salt1 : Nat, salt2 : Salt2]
FrameBytes == [type : {"page", "commit", "end"}, salt : Int \X Salt2,
               page : Page, val : Int]
PageEntry == [salt1 : Nat, at : Nat, cached : Nat]
Transaction == [id : Nat, pages : [Page -> PageEntry], salt1 : Nat, end : Nat]
Message == [type : {"tx", "ckpt"}, tx : Transaction, id : Nat]
View == [min : Nat, max : Nat]
Checkpoint == [phase : Phases, full : BOOLEAN, id : Nat,
               todo : SUBSET Page, polled : SUBSET Conn]
Keys(c) == IF pc[c] = "gone" THEN {} ELSE lo[c] .. txId[c]

FilesOK ==
  /\ hdr \in [{0, 1} -> Header]
  /\ frames \in [{0, 1} -> Seq(FrameBytes)]
  /\ size \in [{0, 1} -> Nat]
  /\ db \in [Page -> Int]

LocksOK ==
  /\ wlock \in Conn \cup {None} /\ ckptLock \in Conn \cup {None}
  /\ pub \in [Conn -> View]

MailOK ==
  /\ chan \in [Conn -> Seq(Message)]
  /\ pend \in [Conn -> SUBSET Transaction]

HistoryOK ==
  /\ hist \in Seq([val : Nat, pages : SUBSET Page])
  /\ attempts \in Nat

ViewOK ==
  /\ txId \in [Conn -> Nat] /\ off \in [Conn -> Nat] /\ lo \in [Conn -> Nat]
  /\ active \in [Conn -> Header]
  /\ DOMAIN txs = Conn /\ \A c \in Conn : txs[c] \in [Keys(c) -> Transaction]
  /\ sized \in [Conn -> BOOLEAN]

TasksOK ==
  /\ pc \in [Conn -> Tasks]
  /\ iso \in [Conn -> {"none", "read", "write"}]
  /\ cur \in [Conn -> Transaction]
  /\ due \in [Conn -> BOOLEAN]
  /\ ck \in [Conn -> Checkpoint]

TypeOK == FilesOK /\ LocksOK /\ MailOK /\ HistoryOK /\ ViewOK /\ TasksOK

\* The transaction a connection runs, if its view is frozen by now.
Mode(c) == IF pc[c] \in {"advance", "fault"} THEN "none" ELSE iso[c]

Promise == INSTANCE SnapshotIsolation
             WITH Value <- 1 .. MaxAttempt, seen <- txId,
                  mode <- [c \in Conn |-> Mode(c)]

\* The log implements snapshot isolation: no commit is lost or forked by a
\* writer that did not see it, whatever the files, swaps and truncations do,
\* and a frozen view stays frozen (isolateForRead, isolateForWrite, #readTx).
ImplementsPromise == Promise!Spec

\* Every page a transaction reads, from its own writes, the WAL files or the
\* database file, is the page of its snapshot, even while a checkpoint is
\* copying, truncating or switching files (read, #fetchPage, checkpoint).
ReadsSeeSnapshot ==
  \A c \in Conn : Ready(c) /\ iso[c] # "none" =>
    \A p \in Page :
      ReadPage(c, p) = IF p \in PagesOf(cur[c])
                         THEN attempts ELSE Promise!ValueAt(p, txId[c])

\* No task throws: no short WAL read, no 'invalid WAL file', no transaction
\* that is announced and then missing from the log.
NoFault == \A c \in Conn : pc[c] # "fault"

\* The published view never promises more than the connection has reached,
\* nor a lowest WAL transaction above one it still reads (#updateTxIdLock).
PublishedIsConservative ==
  \A c \in Conn : pub[c] # NoPub =>
    pub[c].max <= txId[c] /\ pub[c].min <= lo[c]

\* Once the locks have been polled, every connection polled has reached the
\* checkpoint before the database file changes, and none of them reads a
\* checkpointed transaction from the log when its file is truncated.
CheckpointRespectsViews ==
  \A c \in Conn : \A d \in ck[c].polled : pub[d] # NoPub =>
    /\ ck[c].phase = "go" => txId[d] >= ck[c].id
    /\ ck[c].phase = "truncate" => lo[d] > ck[c].id

\* The file a checkpoint truncates holds nothing a connection still has to
\* read: no page of its view and no transaction it has not seen.
TruncateIsSafe ==
  \A c \in Conn : Ckpt(c, "truncate") =>
    \A d \in Conn : HasLoaded(d) =>
      /\ active[d].salt1 # active[c].salt1 => txId[d] >= active[c].nextTxId - 1
      /\ \A i \in DOMAIN txs[d] : \A p \in PagesOf(txs[d][i]) :
           FileOf(txs[d][i].salt1) # Inactive(c)

\* A connection whose view is not empty knows the size of the database
\* (#dbFileSize, getFileSize).
SizeIsKnown == \A c \in Conn : Ready(c) /\ txId[c] > 0 => sized[c]

\* A deferred write is refused as stale only when its snapshot is: jLock says
\* 'Deferred write snapshot is stale; retry the transaction'.
RefusedOnlyWhenStale ==
  \A c \in Conn : Usable(c) /\ iso[c] = "read" /\ wlock = None /\ ~SnapshotIsLatest(c) =>
    txId[c] < Len(hist)

\* Every committed transaction reaches every connection that stays open and
\* is not busy forever: by message, or by the backstop if the message was lost.
CommitReachesAll ==
  \A c \in Conn : \A n \in 1 .. MaxAttempt :
    (Len(hist) >= n /\ IsOpen(c)) ~> (txId[c] >= n \/ ~IsOpen(c))

\* A checkpoint that was begun ends.
CheckpointEnds ==
  \A c \in Conn : (ck[c].phase # "off") ~> (ck[c].phase = "off")
=============================================================================
