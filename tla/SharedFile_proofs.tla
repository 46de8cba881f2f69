------------------------- MODULE SharedFile_proofs -------------------------
(***************************************************************************)
(* The shared files, for any number of workers, any capacities and any     *)
(* interleaving: what a size promises is there, although workers lose      *)
(* their lock and deletes take none.                                       *)
(***************************************************************************)
EXTENDS SharedFile, FiniteSetTheorems, SequenceTheorems, TLAPS

-----------------------------------------------------------------------------
(* The inductive invariant *)

\* Block b is in the data of its segment; so are the first n blocks, and
\* those of the first n that are in the first segments.
AllocatedIn(a, b) == b % SegCap < a[b \div SegCap]
BackedIn(a, n) == \A b \in 0 .. n - 1 : AllocatedIn(a, b)
BackedTo(a, n, segments) ==
    \A b \in 0 .. n - 1 : b \div SegCap < segments => AllocatedIn(a, b)

\* The first n blocks were written at some time.
FilledIn(f, n) == \A b \in 0 .. n - 1 : f[b] # 0

Backed(n) == BackedIn(alloc, n)
Filled(n) == FilledIn(block, n)

\* The segments that count as active, but for the last, are whole.
ActiveAreWhole == Backed((ActiveCount - 1) * SegCap)

\* The operation of a worker, by the place where it stands.
KindFits(p) ==
    /\ At(p, "idle") => op[p] = NoOp /\ index[p] = 0
    /\ pc[p] \in {"lock", "ensure", "grow", "extend", "storeSize", "loadPeak", "casPeak"} =>
          op[p].kind \in {"write", "truncate"}
    /\ pc[p] \in {"copy", "loadSize", "loadWritten", "casWritten"} => op[p].kind = "write"
    /\ At(p, "shrink") => op[p].kind = "truncate"
    /\ At(p, "release") => op[p].kind \in {"write", "truncate", "none"}
    /\ pc[p] \in {"readSize", "readBlock"} => op[p].kind = "read" /\ op[p].at < MaxCap
    /\ At(p, "clear") => op[p].kind = "delete" /\ index[p] <= 7
    /\ op[p].kind = "write" => op[p].len > 0 /\ op[p].value > 0
    /\ op[p].kind = "truncate" => op[p].len = 0

\* Once the capacity is ensured: it is.
Ensured(p) ==
    /\ pc[p] \in {"grow", "extend"} =>
          /\ index[p] <= SegmentsFor(Required(p))
          /\ BackedTo(alloc, Required(p), index[p])
    /\ At(p, "extend") => index[p] < SegmentsFor(Required(p))
    /\ op[p].kind \in {"write", "truncate"} /\ pc[p] \notin {"lock", "ensure"} =>
          Required(p) <= MaxCap
    /\ pc[p] \in {"copy", "loadSize", "storeSize", "loadPeak", "casPeak", "shrink"} =>
          Backed(Required(p))

\* An operation begins within the file, and what it has reached is written.
Reached(p) ==
    /\ op[p].kind \in {"write", "truncate"} => Filled(op[p].at)
    /\ At(p, "copy") => /\ op[p].at <= index[p] /\ index[p] < Required(p)
                        /\ Filled(index[p])
    /\ At(p, "loadSize") => Filled(Required(p))
    /\ At(p, "storeSize") =>
          loaded[p] <= MaxCap /\ Backed(loaded[p]) /\ Filled(loaded[p])
    /\ pc[p] \in {"loadPeak", "casPeak"} => index[p] <= MaxCap
    /\ At(p, "readBlock") => AllocatedIn(alloc, op[p].at) /\ block[op[p].at] # 0

WorkerOK(p) == KindFits(p) /\ Ensured(p) /\ Reached(p)

FileInv ==
    /\ TypeOK /\ CountsEveryWrite /\ ActiveAreWhole
    /\ Backed(meta.size) /\ Filled(meta.size)
    /\ \A p \in Proc : WorkerOK(p)

-----------------------------------------------------------------------------
(* Segments *)

\* Division with remainder.
LEMMA DivMod ==
  ASSUME NEW b \in Nat, NEW k \in Nat \ {0}
  PROVE  /\ b \div k \in Nat /\ b % k \in 0 .. k - 1
         /\ b = (b \div k) * k + (b % k)
<1>1. b \div k \in Nat /\ b % k \in 0 .. k - 1
  OBVIOUS
<1>2. b = (b \div k) * k + (b % k)
  OBVIOUS
<1> QED BY <1>1, <1>2

\* The segment of a block, and the place of the block in it.
LEMMA DivFacts ==
  ASSUME NEW b \in Nat
  PROVE  /\ b \div SegCap \in Nat /\ b % SegCap \in 0 .. SegCap - 1
         /\ b = (b \div SegCap) * SegCap + (b % SegCap)
BY DivMod, FileAssumption

\* The blocks of the segments before segment n.
LEMMA DivBelow ==
  ASSUME NEW b \in Nat, NEW n \in Nat
  PROVE  b \div SegCap < n <=> b < n * SegCap
BY FileAssumption, DivFacts

\* As many segments as a size needs, and not one more.
LEMMA SegmentsFacts ==
  ASSUME NEW n \in Nat
  PROVE  /\ SegmentsFor(n) \in Nat \ {0}
         /\ (SegmentsFor(n) - 1) * SegCap <= n
         /\ n <= SegmentsFor(n) * SegCap
BY FileAssumption, DivFacts DEF SegmentsFor, Larger

\* More blocks need no fewer segments.
LEMMA SegmentsMonotone ==
  ASSUME NEW m \in Nat, NEW n \in Nat, m <= n
  PROVE  SegmentsFor(m) <= SegmentsFor(n)
BY FileAssumption, DivFacts DEF SegmentsFor, Larger

\* No size within the capacity needs more segments than there are.
LEMMA SegmentCount ==
  /\ Cardinality(Segments) = SegmentsFor(MaxCap)
  /\ \A n \in 0 .. MaxCap : SegmentsFor(n) <= Cardinality(Segments)
  /\ Cardinality(Segments) \in Nat \ {0}
<1>1. MaxCap \in Nat /\ SegmentsFor(MaxCap) \in Nat \ {0}
  BY FileAssumption, SegmentsFacts
<1>2. Cardinality(Segments) = SegmentsFor(MaxCap)
  BY <1>1, FS_Interval DEF Segments
<1> QED BY <1>1, <1>2, SegmentsMonotone

\* Every block of the file is in one of its segments.
LEMMA BlockSegment ==
  ASSUME NEW b \in 0 .. MaxCap - 1
  PROVE  b \div SegCap \in Segments
<1>1. b \in Nat /\ MaxCap \in Nat /\ b < MaxCap
  BY FileAssumption
<1>2. MaxCap <= SegmentsFor(MaxCap) * SegCap /\ SegmentsFor(MaxCap) \in Nat
  BY <1>1, SegmentsFacts
<1>3. b < SegmentsFor(MaxCap) * SegCap
  BY <1>1, <1>2, FileAssumption
<1>4. b \div SegCap < SegmentsFor(MaxCap) /\ b \div SegCap \in Nat
  BY <1>1, <1>2, <1>3, DivBelow, DivFacts
<1> QED BY <1>2, <1>4 DEF Segments

-----------------------------------------------------------------------------
(* Types *)

CellsTyped ==
    /\ meta \in [Cells -> Nat] /\ meta.lock \in {0} \cup Proc /\ meta.size <= MaxCap
    /\ meta.active <= Cardinality(Segments)
    /\ meta.peak <= MaxCap /\ meta.written <= MaxCounter
DataTyped ==
    /\ alloc \in [Segments -> Nat] /\ \A s \in Segments : alloc[s] <= SegMax(s)
    /\ block \in [0 .. MaxCap - 1 -> 0 .. MaxOps + 1]
WorkersTyped ==
    /\ pc \in [Proc -> {"idle", "lock", "ensure", "grow", "extend", "copy", "loadSize",
                        "storeSize", "loadPeak", "casPeak", "shrink", "loadWritten",
                        "casWritten", "release", "readSize", "readBlock", "clear"}]
    /\ op \in [Proc -> [kind : {"none", "write", "truncate", "read", "delete"},
                        at : 0 .. MaxCap, len : 0 .. SegCap, value : 0 .. MaxOps + 1]]
    /\ index \in [Proc -> Nat] /\ loaded \in [Proc -> Nat]
HistoryTyped ==
    /\ ops \in 0 .. MaxOps /\ written \in Nat
    /\ serial.size \in 0 .. MaxCap /\ disturbed \in BOOLEAN

\* The type invariant, part by part.
LEMMA TypeParts == TypeOK <=> CellsTyped /\ DataTyped /\ WorkersTyped /\ HistoryTyped
BY DEF TypeOK, CellsTyped, DataTyped, WorkersTyped, HistoryTyped

\* The types of what a worker has at hand.
LEMMA OpTyped ==
  ASSUME WorkersTyped, NEW p \in Proc
  PROVE  /\ op[p].kind \in {"none", "write", "truncate", "read", "delete"}
         /\ op[p].at \in 0 .. MaxCap /\ op[p].len \in 0 .. SegCap
         /\ op[p].value \in 0 .. MaxOps + 1 /\ Required(p) \in Nat
         /\ index[p] \in Nat /\ loaded[p] \in Nat
<1>1. op[p] \in [kind : {"none", "write", "truncate", "read", "delete"},
                 at : 0 .. MaxCap, len : 0 .. SegCap, value : 0 .. MaxOps + 1]
  BY DEF WorkersTyped
<1>2. index[p] \in Nat /\ loaded[p] \in Nat
  BY DEF WorkersTyped
<1> QED BY <1>1, <1>2, FileAssumption DEF Required

\* A store of a value that the cell may have.
LEMMA CellPut ==
  ASSUME CellsTyped, NEW c \in Cells, NEW v \in Nat, Store(c, v),
         c = "lock" => v \in {0} \cup Proc,
         c \in {"size", "peak"} => v <= MaxCap,
         c = "active" => v <= Cardinality(Segments),
         c = "written" => v <= MaxCounter
  PROVE  CellsTyped'
<1>1. meta' \in [Cells -> Nat]
  BY DEF CellsTyped, Store
<1>2. \A d \in Cells : meta'[d] = IF d = c THEN v ELSE meta[d]
  BY DEF CellsTyped, Store
<1> QED BY <1>1, <1>2 DEF CellsTyped, Cells

\* What clearMemoryWriteAheadFile stores: zeros, and at last one active segment.
LEMMA ClearingFacts ==
  ASSUME NEW i \in 0 .. 7
  PROVE  LET step == Clearing[i + 1]
         IN  /\ step[1] \in Cells /\ step[2] \in {0, 1}
             /\ step[1] = "active" \/ step[2] = 0
BY DEF Clearing, Cells

\* No step stores a value that the cell may not have.
LEMMA CellsStep ==
  ASSUME TypeOK, NEW p \in Proc, WorkerOK(p), Step(p)
  PROVE  CellsTyped'
<1>1. CellsTyped /\ WorkersTyped
  BY TypeParts
<1>2. CASE UNCHANGED meta
  BY <1>1, <1>2 DEF CellsTyped
<1> USE FileAssumption
<1>3. CASE Begin(p)
  BY <1>2, <1>3 DEF Begin, Start
<1>4. CASE Acquire(p)
  BY <1>1, <1>4, CellPut DEF Acquire, Cells
<1>5. CASE Release(p) \/ Revoke(p)
  <2>1. Store("lock", 0) => CellsTyped'
    BY <1>1, CellPut DEF Cells
  <2> QED BY <1>2, <1>5, <2>1 DEF Release, Revoke
<1>6. CASE EnsureCapacity(p) \/ GrowSegment(p) \/ ExtendSegment(p)
  BY <1>2, <1>6 DEF EnsureCapacity, GrowSegment, ExtendSegment
<1>7. CASE Activate(p)
  <2>1. Required(p) \in 0 .. MaxCap
    BY <1>1, <1>7, OpTyped DEF Activate, At, WorkerOK, KindFits, Ensured
  <2>2. SegmentsFor(Required(p)) \in Nat /\ SegmentsFor(Required(p)) <= Cardinality(Segments)
    BY <2>1, SegmentsFacts, SegmentCount
  <2>3. Store("active", SegmentsFor(Required(p))) => CellsTyped'
    BY <1>1, <2>2, CellPut DEF Cells
  <2> QED BY <1>2, <1>7, <2>3 DEF Activate
<1>8. CASE Copy(p) \/ LoadSize(p) \/ LoadPeak(p) \/ LoadWritten(p)
  BY <1>2, <1>8 DEF Copy, LoadSize, LoadPeak, LoadWritten
<1>9. CASE StoreSize(p)
  <2>1. loaded[p] \in Nat /\ loaded[p] <= MaxCap
    BY <1>1, <1>9, OpTyped DEF StoreSize, At, WorkerOK, Reached
  <2> QED BY <1>1, <1>9, <2>1, CellPut DEF StoreSize, Cells
<1>10. CASE CasPeak(p)
  <2>1. index[p] \in Nat /\ index[p] <= MaxCap
    BY <1>1, <1>10, OpTyped DEF CasPeak, At, WorkerOK, Reached
  <2>2. Store("peak", index[p]) => CellsTyped'
    BY <1>1, <2>1, CellPut DEF Cells
  <2> QED BY <1>2, <1>10, <2>2 DEF CasPeak, CompareAndSet
<1>11. CASE Shrink(p)
  <2>1. op[p].at \in 0 .. MaxCap
    BY <1>1, OpTyped
  <2>2. SegmentsFor(op[p].at) \in Nat /\ SegmentsFor(op[p].at) <= Cardinality(Segments)
    BY <2>1, SegmentsFacts, SegmentCount
  <2> QED BY <1>1, <1>11, <2>2, CellPut DEF Shrink, Cells
<1>12. CASE CasWritten(p)
  <2>1. Saturating(p, loaded[p]) \in Nat /\ Saturating(p, loaded[p]) <= MaxCounter
    BY <1>1, OpTyped DEF Saturating, Smaller
  <2>2. Store("written", Saturating(p, loaded[p])) => CellsTyped'
    BY <1>1, <2>1, CellPut DEF Cells
  <2> QED BY <1>2, <1>12, <2>2 DEF CasWritten, CompareAndSet
<1>13. CASE ReadSize(p) \/ ReadBlock(p)
  BY <1>2, <1>13 DEF ReadSize, ReadBlock
<1>14. CASE JDelete(p)
  <2>1. index[p] \in 0 .. 7
    BY <1>1, <1>14, OpTyped DEF JDelete, WorkerOK, KindFits
  <2> DEFINE cell == Clearing[index[p] + 1][1]
             v == Clearing[index[p] + 1][2]
  <2>2. Store(cell, v)
    BY <1>14 DEF JDelete
  <2>3. cell \in Cells /\ v \in {0, 1} /\ (cell = "active" \/ v = 0)
    BY <2>1, ClearingFacts
  <2>4. 1 <= Cardinality(Segments)
    BY SegmentCount
  <2>5. /\ v \in Nat /\ (cell = "lock" => v \in {0} \cup Proc)
        /\ (cell \in {"size", "peak"} => v <= MaxCap)
        /\ (cell = "active" => v <= Cardinality(Segments))
        /\ (cell = "written" => v <= MaxCounter)
    <3> HIDE DEF cell, v
    <3> QED BY <2>3, <2>4, SegmentCount
  <2> HIDE DEF cell, v
  <2>6. cell \in Cells
    BY <2>3
  <2> QED BY <1>1, <2>2, <2>5, <2>6, CellPut
<1> QED BY <1>3, <1>4, <1>5, <1>6, <1>7, <1>8, <1>9, <1>10, <1>11, <1>12, <1>13, <1>14 DEF Step

\* What growSegment asks of a segment fits into it.
LEMMA GrowFacts ==
  ASSUME TypeOK, NEW p \in Proc, WorkerOK(p), At(p, "extend")
  PROVE  /\ index[p] \in Segments
         /\ SegmentNeeds(p) \in Nat /\ SegmentNeeds(p) <= SegMax(index[p])
<1>1. /\ Required(p) \in 0 .. MaxCap /\ index[p] \in Nat
      /\ index[p] < SegmentsFor(Required(p))
  BY TypeParts, OpTyped DEF At, WorkerOK, Ensured, KindFits
<1>2. /\ SegmentsFor(Required(p)) \in Nat /\ SegmentsFor(Required(p)) <= SegmentsFor(MaxCap)
      /\ (SegmentsFor(Required(p)) - 1) * SegCap <= Required(p)
      /\ SegmentsFor(MaxCap) \in Nat
  BY <1>1, SegmentsFacts, SegmentsMonotone, FileAssumption
<1>3. index[p] \in Segments
  BY <1>1, <1>2 DEF Segments
<1>4. index[p] * SegCap <= Required(p) /\ index[p] * SegCap \in Nat
  <2>1. index[p] <= SegmentsFor(Required(p)) - 1
    BY <1>1, <1>2
  <2>2. index[p] * SegCap <= (SegmentsFor(Required(p)) - 1) * SegCap
    BY <1>1, <1>2, <2>1, FileAssumption
  <2> QED BY <1>1, <1>2, <2>2, FileAssumption
<1>5. SegMax(index[p]) \in Nat
  BY <1>1, <1>4, FileAssumption DEF SegMax, Smaller
<1> QED BY <1>1, <1>3, <1>4, <1>5, FileAssumption DEF SegmentNeeds, Smaller

\* No step lets a segment outgrow its capacity.
LEMMA DataStep ==
  ASSUME TypeOK, NEW p \in Proc, WorkerOK(p), Step(p)
  PROVE  DataTyped'
<1>1. DataTyped /\ WorkersTyped
  BY TypeParts
<1>2. CASE UNCHANGED <<alloc, block>>
  BY <1>1, <1>2 DEF DataTyped
<1>3. CASE ExtendSegment(p)
  <2>1. At(p, "extend") /\ block' = block
    BY <1>3 DEF ExtendSegment
  <2>2. alloc' = alloc \/ alloc' = [alloc EXCEPT ![index[p]] = SegmentNeeds(p)]
    BY <1>3 DEF ExtendSegment
  <2> QED BY <1>1, <2>1, <2>2, GrowFacts DEF DataTyped
<1>4. CASE Copy(p)
  <2>1. alloc' = alloc /\ block' = [block EXCEPT ![index[p]] = op[p].value]
    BY <1>4 DEF Copy
  <2> QED BY <1>1, <2>1, OpTyped DEF DataTyped
<1>5. CASE Begin(p) \/ Acquire(p) \/ Release(p) \/ Revoke(p) \/ EnsureCapacity(p)
           \/ GrowSegment(p) \/ Activate(p) \/ LoadSize(p) \/ StoreSize(p) \/ LoadPeak(p)
           \/ CasPeak(p) \/ Shrink(p) \/ LoadWritten(p) \/ CasWritten(p)
           \/ ReadSize(p) \/ ReadBlock(p) \/ JDelete(p)
  BY <1>2, <1>5, Zenon DEF Begin, Start, Acquire, Release, Revoke, EnsureCapacity, GrowSegment,
     Activate, LoadSize, StoreSize, LoadPeak, CasPeak, Shrink, LoadWritten, CasWritten,
     ReadSize, ReadBlock, JDelete, Data
<1> QED BY <1>3, <1>4, <1>5 DEF Step

\* Workers keep their types.
LEMMA WorkersStep ==
  ASSUME TypeOK, NEW p \in Proc, WorkerOK(p), Step(p)
  PROVE  WorkersTyped'
<1>1. WorkersTyped /\ CellsTyped /\ HistoryTyped
  BY TypeParts
<1>2. NoOp \in [kind : {"none", "write", "truncate", "read", "delete"},
                at : 0 .. MaxCap, len : 0 .. SegCap, value : 0 .. MaxOps + 1]
  BY FileAssumption DEF NoOp
<1>3. ActiveCount \in Nat \ {0} /\ \A c \in Cells : meta[c] \in Nat
  BY <1>1 DEF ActiveCount, Larger, CellsTyped, Cells
<1>4. Required(p) \in Nat /\ op[p].at \in Nat /\ index[p] \in Nat /\ loaded[p] \in Nat
  BY <1>1, OpTyped
<1>5. CASE Begin(p)
  <2>1. ASSUME NEW o, NEW label, Start(p, o, label), label \in {"lock", "readSize", "clear"},
               o \in [kind : {"none", "write", "truncate", "read", "delete"},
                      at : 0 .. MaxCap, len : 0 .. SegCap, value : 0 .. MaxOps + 1]
        PROVE  WorkersTyped'
    BY <1>1, <2>1 DEF Start, Goto, WorkersTyped
  <2>2. Idle(p) => ops + 2 \in 0 .. MaxOps + 1
    BY <1>1, FileAssumption DEF Idle, HistoryTyped
  <2>3. ASSUME NEW at \in 0 .. meta.size, NEW len \in 1 .. SegCap,
               Start(p, Op("write", at, len, ops + 2), "lock")
        PROVE  WorkersTyped'
    <3>1. Op("write", at, len, ops + 2) \in
            [kind : {"none", "write", "truncate", "read", "delete"},
             at : 0 .. MaxCap, len : 0 .. SegCap, value : 0 .. MaxOps + 1]
      BY <1>1, <2>2, <2>3, FileAssumption DEF Op, Start, CellsTyped, Cells
    <3> QED BY <2>1, <2>3, <3>1
  <2>4. ASSUME NEW at \in 0 .. meta.size, Start(p, Op("truncate", at, 0, 0), "lock")
        PROVE  WorkersTyped'
    <3>1. Op("truncate", at, 0, 0) \in
            [kind : {"none", "write", "truncate", "read", "delete"},
             at : 0 .. MaxCap, len : 0 .. SegCap, value : 0 .. MaxOps + 1]
      BY <1>1, FileAssumption DEF Op, CellsTyped, Cells
    <3> QED BY <2>1, <2>4, <3>1
  <2>5. ASSUME NEW at \in 0 .. MaxCap - 1, Start(p, Op("read", at, 1, 0), "readSize")
        PROVE  WorkersTyped'
    <3>1. Op("read", at, 1, 0) \in
            [kind : {"none", "write", "truncate", "read", "delete"},
             at : 0 .. MaxCap, len : 0 .. SegCap, value : 0 .. MaxOps + 1]
      BY FileAssumption DEF Op
    <3> QED BY <2>1, <2>5, <3>1
  <2>6. ASSUME Start(p, Op("delete", 0, 0, 0), "clear")
        PROVE  WorkersTyped'
    <3>1. Op("delete", 0, 0, 0) \in
            [kind : {"none", "write", "truncate", "read", "delete"},
             at : 0 .. MaxCap, len : 0 .. SegCap, value : 0 .. MaxOps + 1]
      BY FileAssumption DEF Op
    <3> QED BY <2>1, <2>6, <3>1
  <2> QED BY <1>5, <2>3, <2>4, <2>5, <2>6 DEF Begin
<1>6. CASE Acquire(p) \/ Revoke(p)
  BY <1>1, <1>6 DEF Acquire, Revoke, Goto, WorkersTyped
<1>7. CASE Finish(p)
  BY <1>1, <1>2, <1>7 DEF Finish, Goto, WorkersTyped
<1>8. CASE Throw(p) /\ UNCHANGED <<index, loaded>>
  BY <1>1, <1>2, <1>8 DEF Throw, Goto, WorkersTyped
<1>9. CASE EnterBody(p) /\ UNCHANGED op
  BY <1>1, <1>4, <1>9 DEF EnterBody, Body, Goto, Load, WorkersTyped
<1>10. CASE EnsureCapacity(p)
  <2>1. CASE Goto(p, "grow") /\ index' = [index EXCEPT ![p] = FirstToGrow(p)]
             /\ Load(p, ActiveCount) /\ UNCHANGED op
    BY <1>1, <1>3, <2>1 DEF Goto, Load, FirstToGrow, WorkersTyped
  <2> QED BY <1>8, <1>9, <1>10, <2>1 DEF EnsureCapacity
<1>11. CASE GrowSegment(p)
  BY <1>1, <1>11 DEF GrowSegment, Goto, WorkersTyped
<1>12. CASE ExtendSegment(p)
  <2>1. CASE index' = [index EXCEPT ![p] = @ + 1] /\ Goto(p, "grow") /\ UNCHANGED <<op, loaded>>
    BY <1>1, <2>1 DEF Goto, WorkersTyped
  <2> QED BY <1>8, <1>12, <2>1 DEF ExtendSegment
<1>13. CASE Activate(p)
  BY <1>9, <1>13 DEF Activate
<1>14. CASE Copy(p)
  BY <1>1, <1>14 DEF Copy, Goto, WorkersTyped
<1>15. ASSUME NEW label \in {"storeSize", "loadPeak", "casPeak", "shrink", "loadWritten",
                              "casWritten", "release"},
              NEW v \in Nat, Goto(p, label), op' = op,
              index' = index \/ index' = [index EXCEPT ![p] = loaded[p]],
              loaded' = loaded \/ Load(p, v)
       PROVE  WorkersTyped'
  <2>1. index' \in [Proc -> Nat] /\ loaded' \in [Proc -> Nat] /\ op' = op
    BY <1>1, <1>4, <1>15 DEF Load, WorkersTyped
  <2> QED BY <1>1, <1>15, <2>1 DEF Goto, WorkersTyped
<1>16. CASE LoadSize(p) \/ StoreSize(p) \/ Shrink(p)
  <2>1. SizeAfter(p, meta.size) \in Nat
    BY <1>3, <1>4 DEF SizeAfter, Larger, Cells
  <2> QED BY <1>15, <1>16, <2>1, <1>4, Zenon DEF LoadSize, StoreSize, Shrink
<1>17. CASE LoadPeak(p) \/ CasPeak(p)
  <2>1. meta.peak \in Nat
    BY <1>3 DEF Cells
  <2> QED BY <1>15, <1>17, <2>1, Zenon DEF LoadPeak, CasPeak, AfterPeak
<1>18. CASE LoadWritten(p) \/ CasWritten(p)
  <2>1. meta.written \in Nat
    BY <1>3 DEF Cells
  <2> QED BY <1>15, <1>18, <2>1, Zenon DEF LoadWritten, CasWritten
<1>19. CASE Release(p) \/ ReadBlock(p)
  BY <1>7, <1>19 DEF Release, ReadBlock
<1>20. CASE ReadSize(p)
  <2>1. CASE Goto(p, "readBlock") /\ UNCHANGED <<op, index, loaded>>
    BY <1>1, <2>1 DEF Goto, WorkersTyped
  <2> QED BY <1>7, <1>20, <2>1 DEF ReadSize
<1>21. CASE JDelete(p)
  <2>1. CASE index' = [index EXCEPT ![p] = @ + 1] /\ UNCHANGED <<pc, op, loaded>>
    BY <1>1, <2>1 DEF WorkersTyped
  <2> QED BY <1>7, <1>21, <2>1 DEF JDelete
<1> QED BY <1>5, <1>6, <1>10, <1>11, <1>12, <1>13, <1>14, <1>16, <1>17, <1>18, <1>19,
           <1>20, <1>21 DEF Step


\* The size of the file of the history stays within the capacity.
LEMMA SerialStep ==
  ASSUME TypeOK, NEW p \in Proc, WorkerOK(p), NEW meets, NEW file, Overlap(meets, file),
         file.size \in 0 .. MaxCap
  PROVE  serial'.size \in 0 .. MaxCap /\ disturbed' \in BOOLEAN
<1>1. disturbed' \in BOOLEAN
  BY Zenon DEF Overlap
<1>2. EmptyFile.size = 0
  BY DEF EmptyFile
<1>3. serial' = EmptyFile \/ serial' = file
  BY Zenon DEF Overlap
<1> QED BY <1>1, <1>2, <1>3, FileAssumption

\* An operation that was not refused ends within the capacity.
LEMMA DoneSize ==
  ASSUME TypeOK, NEW p \in Proc, WorkerOK(p), At(p, "release")
  PROVE  Done(op[p], serial).size \in 0 .. MaxCap
<1>1. WorkersTyped /\ HistoryTyped
  BY TypeParts
<1>2. serial.size \in 0 .. MaxCap /\ op[p].at \in 0 .. MaxCap /\ op[p].len \in 0 .. SegCap
  BY <1>1, OpTyped DEF HistoryTyped
<1>3. op[p].kind = "write" => op[p].at + op[p].len <= MaxCap
  BY DEF WorkerOK, Ensured, At, Required
<1>4. CASE op[p].kind = "write"
  <2>1. Written(serial, op[p].at, op[p].len, op[p].value).size
          = Larger(serial.size, op[p].at + op[p].len)
    BY DEF Written
  <2>2. Larger(serial.size, op[p].at + op[p].len) \in 0 .. MaxCap
    BY <1>2, <1>3, <1>4, FileAssumption DEF Larger
  <2> QED BY <1>4, <2>1, <2>2 DEF Done
<1>5. CASE op[p].kind = "truncate"
  <2>1. Truncated(serial, op[p].at).size = op[p].at
    BY DEF Truncated
  <2> QED BY <1>2, <1>5, <2>1 DEF Done
<1>6. CASE op[p].kind \notin {"write", "truncate"}
  BY <1>2, <1>6 DEF Done
<1> QED BY <1>4, <1>5, <1>6

\* The history keeps its types.
LEMMA HistoryStep ==
  ASSUME TypeOK, NEW p \in Proc, WorkerOK(p), Step(p)
  PROVE  HistoryTyped'
<1>1. CellsTyped /\ WorkersTyped /\ HistoryTyped
  BY TypeParts
<1>2. ops \in 0 .. MaxOps /\ written \in Nat /\ serial.size \in 0 .. MaxCap
      /\ disturbed \in BOOLEAN /\ op[p].len \in Nat
  BY <1>1, OpTyped DEF HistoryTyped
<1>3. CASE UNCHANGED ghosts
  BY <1>1, <1>3 DEF HistoryTyped, ghosts
<1>4. CASE Begin(p)
  <2>1. ops' = ops + 1 /\ ops < MaxOps /\ UNCHANGED <<written, serial, disturbed>>
    BY <1>4, Zenon DEF Begin, Start, Idle
  <2> QED BY <1>2, <2>1, FileAssumption DEF HistoryTyped
<1>5. CASE Acquire(p) \/ Revoke(p)
  <2>1. UNCHANGED <<ops, written>> /\ \E meets : Overlap(meets, serial)
    BY <1>5, Zenon DEF Acquire, Revoke
  <2> QED BY <1>2, <2>1, SerialStep DEF HistoryTyped
<1>6. CASE Release(p)
  <2>1. At(p, "release") /\ Overlap(FALSE, Done(op[p], serial)) /\ UNCHANGED <<ops, written>>
    BY <1>6 DEF Release
  <2> QED BY <1>2, <2>1, SerialStep, DoneSize DEF HistoryTyped
<1>7. CASE LoadWritten(p) \/ CasWritten(p)
  <2>1. /\ UNCHANGED <<ops, serial, disturbed>>
        /\ written' = written \/ written' = written + op[p].len
    BY <1>7, Zenon DEF LoadWritten, CasWritten
  <2> QED BY <1>2, <2>1 DEF HistoryTyped
<1>8. CASE JDelete(p)
  <2>1. ops' = ops /\ (written' = 0 \/ written' = written)
    BY <1>8, Zenon DEF JDelete
  <2>2. \E meets, file : Overlap(meets, file) /\ (file = serial \/ file = Truncated(serial, 0))
    BY <1>8, Zenon DEF JDelete
  <2>3. Truncated(serial, 0).size = 0
    BY DEF Truncated
  <2>4. serial'.size \in 0 .. MaxCap /\ disturbed' \in BOOLEAN
    BY <1>2, <2>2, <2>3, SerialStep, FileAssumption
  <2> QED BY <1>2, <2>1, <2>4 DEF HistoryTyped
<1>9. CASE EnsureCapacity(p) \/ GrowSegment(p) \/ ExtendSegment(p) \/ Activate(p) \/ Copy(p)
           \/ LoadSize(p) \/ StoreSize(p) \/ LoadPeak(p) \/ CasPeak(p) \/ Shrink(p)
           \/ ReadSize(p) \/ ReadBlock(p)
  BY <1>3, <1>9, Zenon DEF EnsureCapacity, GrowSegment, ExtendSegment, Activate, Copy,
     LoadSize, StoreSize, LoadPeak, CasPeak, Shrink, ReadSize, ReadBlock
<1> QED BY <1>4, <1>5, <1>6, <1>7, <1>8, <1>9 DEF Step

\* The type invariant is preserved.
LEMMA TypeStep ==
  ASSUME TypeOK, NEW p \in Proc, WorkerOK(p), Step(p)
  PROVE  TypeOK'
BY CellsStep, DataStep, WorkersStep, HistoryStep, TypeParts, PTL

-----------------------------------------------------------------------------
(* Segments only grow, and a block that was written stays written *)

\* grow() never shortens a segment, and no write stores a 0.
LEMMA OnlyGrows ==
  ASSUME TypeOK, NEW p \in Proc, WorkerOK(p), Step(p)
  PROVE  /\ \A s \in Segments : alloc[s] \in Nat /\ alloc'[s] \in Nat /\ alloc[s] <= alloc'[s]
         /\ \A b \in 0 .. MaxCap - 1 : block[b] # 0 => block'[b] # 0
<1>1. DataTyped /\ DataTyped' /\ WorkersTyped
  BY TypeParts, DataStep
<1>2. alloc \in [Segments -> Nat] /\ alloc' \in [Segments -> Nat]
      /\ block \in [0 .. MaxCap - 1 -> 0 .. MaxOps + 1]
  BY <1>1 DEF DataTyped
<1>3. CASE UNCHANGED <<alloc, block>>
  BY <1>2, <1>3
<1>4. CASE ExtendSegment(p)
  <2>1. block' = block
        /\ (alloc' = alloc \/ (/\ alloc' = [alloc EXCEPT ![index[p]] = SegmentNeeds(p)]
                              /\ SegmentNeeds(p) >= alloc[index[p]]
                              /\ At(p, "extend")))
    BY <1>4 DEF ExtendSegment
  <2> QED BY <1>2, <2>1, GrowFacts
<1>5. CASE Copy(p)
  <2>1. alloc' = alloc /\ block' = [block EXCEPT ![index[p]] = op[p].value] /\ At(p, "copy")
    BY <1>5 DEF Copy
  <2>2. op[p].value # 0
    BY <2>1, <1>1, OpTyped DEF WorkerOK, KindFits, At
  <2> QED BY <1>2, <2>1, <2>2
<1>6. CASE Begin(p) \/ Acquire(p) \/ Release(p) \/ Revoke(p) \/ EnsureCapacity(p)
           \/ GrowSegment(p) \/ Activate(p) \/ LoadSize(p) \/ StoreSize(p) \/ LoadPeak(p)
           \/ CasPeak(p) \/ Shrink(p) \/ LoadWritten(p) \/ CasWritten(p)
           \/ ReadSize(p) \/ ReadBlock(p) \/ JDelete(p)
  BY <1>3, <1>6, Zenon DEF Begin, Start, Acquire, Release, Revoke, EnsureCapacity, GrowSegment,
     Activate, LoadSize, StoreSize, LoadPeak, CasPeak, Shrink, LoadWritten, CasWritten,
     ReadSize, ReadBlock, JDelete, Data
<1> QED BY <1>4, <1>5, <1>6 DEF Step

\* What a segment holds, and what was written, stays.
LEMMA Keeps ==
  ASSUME TypeOK, NEW p \in Proc, WorkerOK(p), Step(p)
  PROVE  /\ \A b \in 0 .. MaxCap - 1 : /\ AllocatedIn(alloc, b) => AllocatedIn(alloc', b)
                                       /\ block[b] # 0 => block'[b] # 0
         /\ \A n \in 0 .. MaxCap : /\ BackedIn(alloc, n) => BackedIn(alloc', n)
                                   /\ FilledIn(block, n) => FilledIn(block', n)
                                   /\ \A s : BackedTo(alloc, n, s) => BackedTo(alloc', n, s)
<1>1. \A b \in 0 .. MaxCap - 1 : AllocatedIn(alloc, b) => AllocatedIn(alloc', b)
  <2> TAKE b \in 0 .. MaxCap - 1
  <2>1. b \div SegCap \in Segments /\ b % SegCap \in Nat
    <3>1. b \in Nat
      BY FileAssumption
    <3>2. b % SegCap \in 0 .. SegCap - 1
      BY <3>1, DivFacts
    <3>3. b % SegCap \in Nat
      BY <3>2, FileAssumption
    <3> QED BY <3>3, BlockSegment
  <2>2. alloc[b \div SegCap] \in Nat /\ alloc'[b \div SegCap] \in Nat
        /\ alloc[b \div SegCap] <= alloc'[b \div SegCap]
    BY <2>1, OnlyGrows
  <2>3. \A i \in Nat, m \in Nat, n \in Nat : i < m /\ m <= n => i < n
    OBVIOUS
  <2> QED BY <2>1, <2>2, <2>3, Zenon DEF AllocatedIn
<1>2. \A b \in 0 .. MaxCap - 1 : block[b] # 0 => block'[b] # 0
  BY OnlyGrows
<1>3. ASSUME NEW n \in 0 .. MaxCap
      PROVE  /\ BackedIn(alloc, n) => BackedIn(alloc', n)
             /\ FilledIn(block, n) => FilledIn(block', n)
             /\ \A s : BackedTo(alloc, n, s) => BackedTo(alloc', n, s)
  <2>1. \A b \in 0 .. n - 1 : b \in 0 .. MaxCap - 1
    BY FileAssumption
  <2> QED BY <1>1, <1>2, <2>1 DEF BackedIn, FilledIn, BackedTo
<1> QED BY <1>1, <1>2, <1>3

-----------------------------------------------------------------------------
(* Another worker *)

\* A step of one worker leaves the variables of the others alone.
LEMMA OthersStay ==
  ASSUME TypeOK, NEW p \in Proc, NEW q \in Proc, q # p, Step(p)
  PROVE  pc'[q] = pc[q] /\ op'[q] = op[q] /\ index'[q] = index[q] /\ loaded'[q] = loaded[q]
<1> DEFINE Total(f) == f = [r \in Proc |-> f[r]]
<1>1. Total(pc) /\ Total(op) /\ Total(index) /\ Total(loaded)
  <2>0. WorkersTyped
    BY TypeParts
  <2>1. Total(pc)
    BY <2>0 DEF WorkersTyped
  <2>2. Total(op)
    BY <2>0 DEF WorkersTyped
  <2>3. Total(index) /\ Total(loaded)
    BY <2>0 DEF WorkersTyped
  <2> QED BY <2>1, <2>2, <2>3
<1>2. pc' = pc \/ \E l : pc' = [pc EXCEPT ![p] = l]
  BY Zenon DEF Step, Begin, Start, Acquire, Release, Revoke, Finish, EnsureCapacity, EnterBody,
     Throw, GrowSegment, ExtendSegment, Activate, Copy, LoadSize, StoreSize, LoadPeak, CasPeak,
     Shrink, LoadWritten, CasWritten, ReadSize, ReadBlock, JDelete, Goto
<1>3. op' = op \/ \E o : op' = [op EXCEPT ![p] = o]
  BY Zenon DEF Step, Begin, Start, Acquire, Release, Revoke, Finish, EnsureCapacity, EnterBody,
     Throw, GrowSegment, ExtendSegment, Activate, Copy, LoadSize, StoreSize, LoadPeak, CasPeak,
     Shrink, LoadWritten, CasWritten, ReadSize, ReadBlock, JDelete
<1>4. index' = index \/ \E i : index' = [index EXCEPT ![p] = i]
  BY Zenon DEF Step, Begin, Start, Acquire, Release, Revoke, Finish, EnsureCapacity, EnterBody,
     Throw, GrowSegment, ExtendSegment, Activate, Copy, LoadSize, StoreSize, LoadPeak, CasPeak,
     Shrink, LoadWritten, CasWritten, ReadSize, ReadBlock, JDelete
<1>5. loaded' = loaded \/ \E v : loaded' = [loaded EXCEPT ![p] = v]
  BY Zenon DEF Step, Begin, Start, Acquire, Release, Revoke, Finish, EnsureCapacity, EnterBody,
     Throw, GrowSegment, ExtendSegment, Activate, Copy, LoadSize, StoreSize, LoadPeak, CasPeak,
     Shrink, LoadWritten, CasWritten, ReadSize, ReadBlock, JDelete, Load
<1>6. pc'[q] = pc[q]
  BY <1>1, <1>2
<1>7. op'[q] = op[q]
  BY <1>1, <1>3
<1>8. index'[q] = index[q]
  BY <1>1, <1>4
<1>9. loaded'[q] = loaded[q]
  BY <1>1, <1>5
<1> QED BY <1>6, <1>7, <1>8, <1>9

\* What other workers rely on only grows.
LEMMA OthersStep ==
  ASSUME TypeOK, NEW p \in Proc, NEW q \in Proc, q # p, WorkerOK(p), WorkerOK(q), Step(p)
  PROVE  WorkerOK(q)'
<1>1. pc'[q] = pc[q] /\ op'[q] = op[q] /\ index'[q] = index[q] /\ loaded'[q] = loaded[q]
  BY OthersStay
<1>2. WorkersTyped
  BY TypeParts
<1>3. /\ op[q].at \in 0 .. MaxCap /\ op[q].len \in 0 .. SegCap
      /\ index[q] \in Nat /\ loaded[q] \in Nat /\ Required(q) \in Nat
  BY <1>2, OpTyped
<1>4. KindFits(q)'
  BY <1>1 DEF WorkerOK, KindFits, At
<1>5. Ensured(q)'
  <2>1. Required(q) <= MaxCap => /\ BackedIn(alloc, Required(q)) => BackedIn(alloc', Required(q))
                                 /\ BackedTo(alloc, Required(q), index[q])
                                      => BackedTo(alloc', Required(q), index[q])
    BY <1>3, Keeps, FileAssumption
  <2>2. pc[q] \in {"grow", "extend", "copy", "loadSize", "storeSize", "loadPeak", "casPeak",
                   "shrink"} => Required(q) <= MaxCap
    BY DEF WorkerOK, KindFits, Ensured, At
  <2> QED BY <1>1, <2>1, <2>2 DEF WorkerOK, Ensured, Required, At, Backed
<1>6. Reached(q)'
  <2>1. \A n \in 0 .. MaxCap : /\ BackedIn(alloc, n) => BackedIn(alloc', n)
                               /\ FilledIn(block, n) => FilledIn(block', n)
    BY Keeps
  <2>2. FilledIn(block, op[q].at) => FilledIn(block', op[q].at)
    BY <1>3, <2>1
  <2>3. At(q, "copy") => (FilledIn(block, index[q]) => FilledIn(block', index[q]))
    BY <1>3, <2>1, FileAssumption DEF WorkerOK, KindFits, Ensured, Reached, At
  <2>4. At(q, "loadSize") => (FilledIn(block, Required(q)) => FilledIn(block', Required(q)))
    BY <1>3, <2>1, FileAssumption DEF WorkerOK, KindFits, Ensured, At
  <2>5. At(q, "storeSize") => /\ BackedIn(alloc, loaded[q]) => BackedIn(alloc', loaded[q])
                              /\ FilledIn(block, loaded[q]) => FilledIn(block', loaded[q])
    BY <1>3, <2>1, FileAssumption DEF WorkerOK, Reached
  <2>6. At(q, "readBlock") => op[q].at \in 0 .. MaxCap - 1
    BY <1>3, FileAssumption DEF WorkerOK, KindFits, At
  <2>7. At(q, "readBlock") => AllocatedIn(alloc', op[q].at) /\ block'[op[q].at] # 0
    BY <2>6, Keeps DEF WorkerOK, Reached
  <2> QED BY <1>1, <2>2, <2>3, <2>4, <2>5, <2>7 DEF WorkerOK, Reached, Required, At, Backed, Filled
<1> QED BY <1>4, <1>5, <1>6 DEF WorkerOK

-----------------------------------------------------------------------------
(* The worker that takes the step *)

\* What holds for n blocks holds for fewer.
LEMMA Below ==
  ASSUME NEW a, NEW n \in Nat, NEW m \in Nat, m <= n
  PROVE  /\ BackedIn(a, n) => BackedIn(a, m)
         /\ FilledIn(a, n) => FilledIn(a, m)
<1>1. \A b \in 0 .. m - 1 : b \in 0 .. n - 1
  OBVIOUS
<1> QED BY <1>1 DEF BackedIn, FilledIn

\* The loop of ensureFileCapacity starts at the last active segment: those
\* before it are whole.
LEMMA ActiveFacts ==
  ASSUME CellsTyped, DataTyped
  PROVE  /\ ActiveCount \in Nat \ {0} /\ ActiveCount - 1 \in Segments
         /\ (ActiveCount - 1) * SegCap \in Nat
         /\ alloc[ActiveCount - 1] \in Nat /\ alloc[ActiveCount - 1] <= SegCap
<1>1. meta.active \in Nat /\ meta.active <= Cardinality(Segments)
  BY DEF CellsTyped, Cells
<1>2. ActiveCount \in Nat \ {0} /\ ActiveCount <= Cardinality(Segments)
  BY <1>1, SegmentCount DEF ActiveCount, Larger
<1>3. ActiveCount - 1 \in Segments
  BY <1>2, SegmentCount DEF Segments
<1>4. alloc[ActiveCount - 1] \in Nat /\ alloc[ActiveCount - 1] <= SegMax(ActiveCount - 1)
  BY <1>3 DEF DataTyped
<1>5. (ActiveCount - 1) * SegCap \in Nat
  BY <1>2, FileAssumption
<1>6. SegMax(ActiveCount - 1) <= SegCap
  BY <1>5, FileAssumption DEF SegMax, Smaller
<1>7. SegMax(ActiveCount - 1) \in Int
  BY <1>5, FileAssumption DEF SegMax, Smaller
<1> QED BY <1>2, <1>3, <1>4, <1>5, <1>6, <1>7, FileAssumption

\* Below the capacity of the active segments every block is in its segment.
LEMMA CapacityIsThere ==
  ASSUME TypeOK, ActiveAreWhole, NEW n \in 0 .. MaxCap, n <= ActiveCapacity
  PROVE  BackedIn(alloc, n)
<1>1. CellsTyped /\ DataTyped
  BY TypeParts
<1> DEFINE k == ActiveCount - 1
<1>2. k \in Nat /\ k * SegCap \in Nat /\ alloc[k] \in Nat /\ alloc[k] <= SegCap
  BY <1>1, ActiveFacts
<1>3. BackedIn(alloc, k * SegCap) /\ n <= k * SegCap + alloc[k]
  BY DEF ActiveAreWhole, Backed, ActiveCapacity
<1> HIDE DEF k
<1> SUFFICES ASSUME NEW b \in 0 .. n - 1
             PROVE  AllocatedIn(alloc, b)
  BY DEF BackedIn
<1>4. b \in Nat /\ n \in Nat /\ b < n
  BY FileAssumption
<1>5. CASE b < k * SegCap
  <2>1. b \in 0 .. k * SegCap - 1
    BY <1>2, <1>4, <1>5
  <2> QED BY <1>3, <2>1 DEF BackedIn
<1>6. CASE ~(b < k * SegCap)
  <2>1. b \div SegCap \in Nat /\ b % SegCap \in 0 .. SegCap - 1
        /\ b = (b \div SegCap) * SegCap + (b % SegCap)
    BY <1>4, DivFacts
  <2>2. ~(b \div SegCap < k)
    BY <1>2, <1>4, <1>6, DivBelow
  <2>3. b < k * SegCap + SegCap
    BY <1>2, <1>3, <1>4, FileAssumption
  <2>4. (k + 1) * SegCap = k * SegCap + SegCap
    BY <1>2, FileAssumption
  <2>5. b \div SegCap < k + 1
    BY <1>2, <1>4, <2>3, <2>4, DivBelow
  <2>6. b \div SegCap = k
    BY <1>2, <2>1, <2>2, <2>5
  <2>7. b = k * SegCap + (b % SegCap) /\ b % SegCap \in Nat
    BY <2>1, <2>6, FileAssumption
  <2>8. b % SegCap < alloc[k]
    BY <1>2, <1>3, <1>4, <2>7, FileAssumption
  <2> QED BY <2>6, <2>8 DEF AllocatedIn
<1> QED BY <1>5, <1>6

\* The loop of ensureFileCapacity starts at no segment that it may skip.
LEMMA GrowStarts ==
  ASSUME TypeOK, ActiveAreWhole, NEW n \in 0 .. MaxCap, n > ActiveCapacity
  PROVE  /\ ActiveCount - 1 \in Nat /\ ActiveCount - 1 <= SegmentsFor(n)
         /\ BackedTo(alloc, n, ActiveCount - 1)
<1>1. CellsTyped /\ DataTyped
  BY TypeParts
<1> DEFINE k == ActiveCount - 1
<1>2. k \in Nat /\ k * SegCap \in Nat /\ alloc[k] \in Nat
  BY <1>1, ActiveFacts
<1>3. BackedIn(alloc, k * SegCap) /\ n > k * SegCap + alloc[k]
  BY DEF ActiveAreWhole, Backed, ActiveCapacity
<1> HIDE DEF k
<1>4. n \in Nat /\ SegmentsFor(n) \in Nat /\ n <= SegmentsFor(n) * SegCap
  BY FileAssumption, SegmentsFacts
<1>5. k <= SegmentsFor(n)
  <2>1. SUFFICES ASSUME SegmentsFor(n) < k PROVE FALSE
    BY <1>2, <1>4
  <2>2. SegmentsFor(n) * SegCap <= k * SegCap
    BY <1>2, <1>4, <2>1, FileAssumption
  <2>3. SegmentsFor(n) * SegCap \in Nat
    BY <1>4, FileAssumption
  <2> QED BY <1>2, <1>3, <1>4, <2>2, <2>3
<1>6. BackedTo(alloc, n, k)
  <2>1. SUFFICES ASSUME NEW b \in 0 .. n - 1, b \div SegCap < k
                 PROVE  AllocatedIn(alloc, b)
    BY DEF BackedTo
  <2>2. b < k * SegCap /\ b \in Nat
    BY <1>2, <1>4, <2>1, DivBelow
  <2> QED BY <1>2, <1>3, <2>2 DEF BackedIn
<1> QED BY <1>2, <1>5, <1>6 DEF k

\* A segment that has what the operation needs of it.
LEMMA NeedsSuffice ==
  ASSUME NEW p, NEW a, NEW n, n = Required(p), n \in 0 .. MaxCap, NEW s, s = index[p],
         s \in Nat, a[s] \in Nat, SegmentNeeds(p) <= a[s], BackedTo(a, n, s)
  PROVE  BackedTo(a, n, s + 1)
<1> SUFFICES ASSUME NEW b \in 0 .. n - 1, b \div SegCap < s + 1, ~(b \div SegCap < s)
             PROVE  AllocatedIn(a, b)
  BY DEF BackedTo
<1>1. b \in Nat /\ n \in Nat /\ b < n /\ b < MaxCap
  BY FileAssumption
<1>2. b \div SegCap \in Nat /\ b % SegCap \in 0 .. SegCap - 1
      /\ b = (b \div SegCap) * SegCap + (b % SegCap)
  BY <1>1, DivFacts
<1>3. b \div SegCap = s
  BY <1>2
<1>4. b = s * SegCap + (b % SegCap) /\ b % SegCap \in Nat /\ b % SegCap < SegCap
  BY <1>2, <1>3, FileAssumption
<1>5. s * SegCap \in Nat
  BY FileAssumption
<1>6. b % SegCap < n - s * SegCap /\ b % SegCap < MaxCap - s * SegCap
  BY <1>1, <1>4, <1>5, FileAssumption
<1>7. SegMax(s) \in Int /\ b % SegCap < SegMax(s)
  BY <1>4, <1>5, <1>6, FileAssumption DEF SegMax, Smaller
<1>8. SegmentNeeds(p) \in Int /\ b % SegCap < SegmentNeeds(p)
  BY <1>1, <1>4, <1>5, <1>6, <1>7 DEF SegmentNeeds, Smaller
<1>9. b % SegCap < a[s]
  BY <1>4, <1>8
<1> QED BY <1>3, <1>9 DEF AllocatedIn

\* After the last segment that it needs, an operation has its capacity.
LEMMA GrowEnds ==
  ASSUME NEW n \in Nat, NEW a, NEW s \in Nat, s >= SegmentsFor(n), BackedTo(a, n, s)
  PROVE  BackedIn(a, n)
<1> SUFFICES ASSUME NEW b \in 0 .. n - 1
             PROVE  AllocatedIn(a, b)
  BY DEF BackedIn
<1>1. b \in Nat /\ b < n /\ SegmentsFor(n) \in Nat /\ n <= SegmentsFor(n) * SegCap
  BY SegmentsFacts
<1>2. b < SegmentsFor(n) * SegCap
  BY <1>1, FileAssumption
<1>3. b \div SegCap < SegmentsFor(n) /\ b \div SegCap \in Nat
  BY <1>1, <1>2, DivBelow, DivFacts
<1> QED BY <1>1, <1>3 DEF BackedTo

\* What an assignment to a variable of a worker gives it.
LEMMA Puts ==
  ASSUME WorkersTyped, NEW p \in Proc
  PROVE  /\ \A l : Goto(p, l) => pc'[p] = l
         /\ \A o : op' = [op EXCEPT ![p] = o] => op'[p] = o
         /\ \A i : index' = [index EXCEPT ![p] = i] => index'[p] = i
         /\ \A v : Load(p, v) => loaded'[p] = v
<1>1. \A l : Goto(p, l) => pc'[p] = l
  BY DEF WorkersTyped, Goto
<1>2. \A o : op' = [op EXCEPT ![p] = o] => op'[p] = o
  BY DEF WorkersTyped
<1>3. \A i : index' = [index EXCEPT ![p] = i] => index'[p] = i
  BY DEF WorkersTyped
<1>4. \A v : Load(p, v) => loaded'[p] = v
  BY DEF WorkersTyped, Load
<1> QED BY <1>1, <1>2, <1>3, <1>4

\* A worker that is done owes nothing.
LEMMA FinishOK ==
  ASSUME WorkersTyped, NEW p \in Proc, Finish(p)
  PROVE  WorkerOK(p)'
<1>1. pc'[p] = "idle" /\ op'[p] = NoOp /\ index'[p] = 0
  BY Puts, Zenon DEF Finish
<1> QED BY <1>1 DEF NoOp, WorkerOK, KindFits, Ensured, Reached, At

\* A refused operation only has the lock to release.
LEMMA ThrowOK ==
  ASSUME WorkersTyped, NEW p \in Proc, Throw(p)
  PROVE  WorkerOK(p)'
<1>1. pc'[p] = "release" /\ op'[p] = NoOp
  BY Puts, Zenon DEF Throw
<1> QED BY <1>1 DEF NoOp, WorkerOK, KindFits, Ensured, Reached, At

\* Once the capacity is ensured, the operation begins with its first block.
LEMMA BodyOK ==
  ASSUME WorkersTyped, NEW p \in Proc, WorkerOK(p), EnterBody(p), UNCHANGED <<alloc, block, op>>,
         op[p].kind \in {"write", "truncate"}, Required(p) <= MaxCap,
         BackedIn(alloc, Required(p))
  PROVE  WorkerOK(p)'
<1>1. /\ op[p].at \in 0 .. MaxCap /\ op[p].len \in 0 .. SegCap /\ Required(p) \in Nat
      /\ op[p].at \in Nat /\ op[p].len \in Nat
  BY OpTyped, FileAssumption
<1>2. pc'[p] = Body(p) /\ index'[p] = op[p].at /\ loaded'[p] = op[p].at
  BY Puts, Zenon DEF EnterBody
<1>3. /\ FilledIn(block, op[p].at)
      /\ op[p].kind = "write" => op[p].len > 0 /\ op[p].value > 0
      /\ op[p].kind = "truncate" => op[p].len = 0
  BY DEF WorkerOK, KindFits, Reached, Filled
<1>4. CASE op[p].kind = "write"
  <2>1. pc'[p] = "copy"
    BY <1>2, <1>4 DEF Body
  <2>2. op[p].at < Required(p)
    BY <1>1, <1>3, <1>4 DEF Required
  <2> QED BY <1>1, <1>2, <1>3, <1>4, <2>1, <2>2
          DEF WorkerOK, KindFits, Ensured, Reached, At, Required, Backed, Filled
<1>5. CASE op[p].kind = "truncate"
  <2>1. pc'[p] = "storeSize"
    BY <1>2, <1>5 DEF Body
  <2>2. Required(p) = op[p].at
    BY <1>1, <1>3, <1>5 DEF Required
  <2> QED BY <1>1, <1>2, <1>3, <1>5, <2>1, <2>2
          DEF WorkerOK, KindFits, Ensured, Reached, At, Required, Backed, Filled
<1> QED BY <1>4, <1>5

\* An operation begins within the file.
LEMMA BeginOK ==
  ASSUME TypeOK, NEW p \in Proc, WorkerOK(p), Filled(meta.size), Begin(p)
  PROVE  WorkerOK(p)'
<1>1. CellsTyped /\ WorkersTyped /\ HistoryTyped
  BY TypeParts
<1>2. meta.size \in Nat /\ meta.size <= MaxCap /\ FilledIn(block, meta.size) /\ ops \in Nat
  BY <1>1, FileAssumption DEF CellsTyped, Cells, Filled, HistoryTyped
<1>3. ASSUME NEW o, NEW label, Start(p, o, label)
      PROVE  /\ pc'[p] = label /\ op'[p] = o /\ alloc' = alloc /\ block' = block
             /\ index'[p] = 0
  <2>1. At(p, "idle") /\ index' = index /\ alloc' = alloc /\ block' = block
    BY <1>3 DEF Start, Idle, Data
  <2>2. index[p] = 0
    BY <2>1 DEF WorkerOK, KindFits
  <2> QED BY <1>1, <1>3, <2>1, <2>2, Puts, Zenon DEF Start
<1>4. ASSUME NEW at \in 0 .. meta.size, NEW len \in 1 .. SegCap,
             Start(p, Op("write", at, len, ops + 2), "lock")
      PROVE  WorkerOK(p)'
  <2>1. FilledIn(block, at) /\ len > 0 /\ ops + 2 > 0
    BY <1>2, Below, FileAssumption
  <2>2. pc'[p] = "lock" /\ op'[p] = Op("write", at, len, ops + 2) /\ block' = block
    BY <1>3, <1>4
  <2> QED BY <2>1, <2>2 DEF Op, WorkerOK, KindFits, Ensured, Reached, At, Filled
<1>5. ASSUME NEW at \in 0 .. meta.size, Start(p, Op("truncate", at, 0, 0), "lock")
      PROVE  WorkerOK(p)'
  <2>1. FilledIn(block, at)
    BY <1>2, Below
  <2>2. pc'[p] = "lock" /\ op'[p] = Op("truncate", at, 0, 0) /\ block' = block
    BY <1>3, <1>5
  <2> QED BY <2>1, <2>2 DEF Op, WorkerOK, KindFits, Ensured, Reached, At, Filled
<1>6. ASSUME NEW at \in 0 .. MaxCap - 1, Start(p, Op("read", at, 1, 0), "readSize")
      PROVE  WorkerOK(p)'
  <2>1. at < MaxCap
    BY FileAssumption
  <2>2. pc'[p] = "readSize" /\ op'[p] = Op("read", at, 1, 0)
    BY <1>3, <1>6
  <2> QED BY <2>1, <2>2 DEF Op, WorkerOK, KindFits, Ensured, Reached, At
<1>7. ASSUME Start(p, Op("delete", 0, 0, 0), "clear")
      PROVE  WorkerOK(p)'
  <2>1. pc'[p] = "clear" /\ op'[p] = Op("delete", 0, 0, 0) /\ index'[p] = 0
    BY <1>3, <1>7
  <2> QED BY <2>1 DEF Op, WorkerOK, KindFits, Ensured, Reached, At
<1> QED BY <1>4, <1>5, <1>6, <1>7 DEF Begin

\* ensureFileCapacity: each turn of its loop leaves the segments before it grown.
LEMMA GrowOK ==
  ASSUME TypeOK, NEW p \in Proc, WorkerOK(p), ActiveAreWhole, Step(p),
         EnsureCapacity(p) \/ GrowSegment(p) \/ ExtendSegment(p) \/ Activate(p)
  PROVE  WorkerOK(p)'
<1>1. CellsTyped /\ DataTyped /\ WorkersTyped
  BY TypeParts
<1>2. /\ op[p].at \in Nat /\ op[p].len \in Nat /\ Required(p) \in Nat /\ index[p] \in Nat
      /\ op[p].kind \in {"write", "truncate"}
      /\ op[p].kind = "write" => op[p].len > 0 /\ op[p].value > 0
      /\ op[p].kind = "truncate" => op[p].len = 0
      /\ FilledIn(block, op[p].at) /\ op[p].at \in 0 .. MaxCap
  <2>1. pc[p] \in {"ensure", "grow", "extend"}
    BY DEF EnsureCapacity, GrowSegment, ExtendSegment, Activate, At
  <2> QED BY <1>1, <2>1, OpTyped, FileAssumption DEF WorkerOK, KindFits, Reached, Filled
<1>3. CASE EnsureCapacity(p)
  <2>1. CASE Throw(p)
    BY <1>1, <2>1, ThrowOK
  <2>2. CASE Required(p) <= MaxCap /\ Required(p) <= ActiveCapacity /\ EnterBody(p) /\ op' = op
    <3>1. BackedIn(alloc, Required(p))
      BY <1>2, <2>2, CapacityIsThere, FileAssumption
    <3>2. alloc' = alloc /\ block' = block
      BY <1>3 DEF EnsureCapacity, Data
    <3> QED BY <1>1, <1>2, <2>2, <3>1, <3>2, BodyOK
  <2>3. CASE /\ Required(p) <= MaxCap /\ Required(p) > ActiveCapacity /\ Goto(p, "grow")
             /\ index' = [index EXCEPT ![p] = FirstToGrow(p)] /\ op' = op
    <3>1. /\ FirstToGrow(p) \in Nat /\ FirstToGrow(p) <= SegmentsFor(Required(p))
          /\ BackedTo(alloc, Required(p), FirstToGrow(p))
      BY <1>2, <2>3, GrowStarts, FileAssumption DEF FirstToGrow
    <3>2. alloc' = alloc /\ block' = block
      BY <1>3 DEF EnsureCapacity, Data
    <3>3. pc'[p] = "grow" /\ index'[p] = FirstToGrow(p)
      BY <1>1, <2>3, Puts, Zenon
    <3> QED BY <1>2, <2>3, <3>1, <3>2, <3>3
            DEF WorkerOK, KindFits, Ensured, Reached, At, Required, Filled
  <2> QED BY <1>3, <2>1, <2>2, <2>3 DEF EnsureCapacity
<1>4. CASE pc[p] \in {"grow", "extend"}
  <2>1. /\ index[p] <= SegmentsFor(Required(p)) /\ BackedTo(alloc, Required(p), index[p])
        /\ Required(p) <= MaxCap /\ Required(p) \in 0 .. MaxCap
        /\ SegmentsFor(Required(p)) \in Nat
    BY <1>2, <1>4, SegmentsFacts, FileAssumption DEF WorkerOK, Ensured
  <2>2. CASE GrowSegment(p)
    <3>1. /\ alloc' = alloc /\ block' = block /\ op' = op /\ index[p] < SegmentsFor(Required(p))
          /\ At(p, "grow")
      BY <2>2 DEF GrowSegment, Data
    <3>2. CASE SegmentNeeds(p) <= alloc[index[p]] /\ index' = [index EXCEPT ![p] = @ + 1]
               /\ pc' = pc
      <4>1. index[p] \in Segments
        <5>1. SegmentsFor(Required(p)) <= SegmentsFor(MaxCap) /\ SegmentsFor(MaxCap) \in Nat
          BY <2>1, SegmentsMonotone, SegmentsFacts, FileAssumption
        <5> QED BY <1>2, <2>1, <3>1, <5>1 DEF Segments
      <4>2. alloc[index[p]] \in Nat
        BY <1>1, <4>1 DEF DataTyped
      <4>3. BackedTo(alloc, Required(p), index[p] + 1)
        BY <1>2, <2>1, <3>2, <4>2, NeedsSuffice
      <4>4. index'[p] = index[p] + 1 /\ pc'[p] = "grow"
        BY <1>1, <3>1, <3>2, Puts, Zenon DEF At
      <4>5. index[p] + 1 <= SegmentsFor(Required(p))
        BY <1>2, <2>1, <3>1
      <4> QED BY <1>2, <2>1, <3>1, <4>3, <4>4, <4>5
              DEF WorkerOK, KindFits, Ensured, Reached, At, Required, Filled
    <3>3. CASE Goto(p, "extend") /\ index' = index
      <4>1. pc'[p] = "extend" /\ index'[p] = index[p]
        BY <1>1, <3>3, Puts, Zenon
      <4> QED BY <1>2, <2>1, <3>1, <4>1
              DEF WorkerOK, KindFits, Ensured, Reached, At, Required, Filled
    <3> QED BY <2>2, <3>2, <3>3 DEF GrowSegment
  <2>3. CASE ExtendSegment(p)
    <3>1. At(p, "extend") /\ block' = block
      BY <2>3 DEF ExtendSegment
    <3>2. index[p] \in Segments /\ SegmentNeeds(p) \in Nat
          /\ index[p] < SegmentsFor(Required(p))
      BY <3>1, GrowFacts DEF WorkerOK, Ensured
    <3>3. CASE /\ alloc' = [alloc EXCEPT ![index[p]] = SegmentNeeds(p)] /\ op' = op
               /\ index' = [index EXCEPT ![p] = @ + 1] /\ Goto(p, "grow")
      <4>1. alloc'[index[p]] = SegmentNeeds(p)
        BY <1>1, <3>2, <3>3 DEF DataTyped
      <4>2. BackedTo(alloc', Required(p), index[p])
        BY <2>1, Keeps
      <4>3. SegmentNeeds(p) <= alloc'[index[p]] /\ alloc'[index[p]] \in Nat
        BY <3>2, <4>1
      <4>4. BackedTo(alloc', Required(p), index[p] + 1)
        BY <1>2, <2>1, <4>2, <4>3, NeedsSuffice
      <4>5. index'[p] = index[p] + 1 /\ pc'[p] = "grow"
        BY <1>1, <3>3, Puts, Zenon
      <4>6. index[p] + 1 <= SegmentsFor(Required(p))
        BY <1>2, <2>1, <3>2
      <4> QED BY <1>2, <2>1, <3>1, <3>3, <4>4, <4>5, <4>6
              DEF WorkerOK, KindFits, Ensured, Reached, At, Required, Filled
    <3> QED BY <1>1, <2>3, <3>3, ThrowOK DEF ExtendSegment
  <2>4. CASE Activate(p)
    <3>1. /\ index[p] >= SegmentsFor(Required(p)) /\ EnterBody(p)
          /\ alloc' = alloc /\ block' = block /\ op' = op
      BY <2>4 DEF Activate, Data
    <3>2. BackedIn(alloc, Required(p))
      BY <1>2, <2>1, <3>1, GrowEnds
    <3> QED BY <1>1, <1>2, <2>1, <3>1, <3>2, BodyOK
  <2>5. ~EnsureCapacity(p)
    BY <1>4 DEF EnsureCapacity, At
  <2> QED BY <2>2, <2>3, <2>4, <2>5
<1>5. EnsureCapacity(p) \/ pc[p] \in {"grow", "extend"}
  BY DEF GrowSegment, ExtendSegment, Activate, At
<1> QED BY <1>3, <1>4, <1>5

\* The blocks are stored first, the size that tells of them after.
LEMMA BodyStepOK ==
  ASSUME TypeOK, NEW p \in Proc, WorkerOK(p), Backed(meta.size), Filled(meta.size), Step(p),
         Copy(p) \/ LoadSize(p) \/ StoreSize(p)
  PROVE  WorkerOK(p)'
<1>1. CellsTyped /\ DataTyped /\ WorkersTyped
  BY TypeParts
<1>2. pc[p] \in {"copy", "loadSize", "storeSize"}
  BY DEF Copy, LoadSize, StoreSize, At
<1>3. /\ op[p].at \in 0 .. MaxCap /\ op[p].at \in Nat /\ op[p].len \in Nat
      /\ op[p].value \in Nat /\ Required(p) \in Nat
      /\ index[p] \in Nat /\ loaded[p] \in Nat /\ op[p].kind \in {"write", "truncate"}
  BY <1>1, <1>2, OpTyped, FileAssumption DEF WorkerOK, KindFits
<1>4. /\ Required(p) \in 0 .. MaxCap /\ Required(p) <= MaxCap
      /\ BackedIn(alloc, Required(p)) /\ FilledIn(block, op[p].at)
  BY <1>2, <1>3, FileAssumption DEF WorkerOK, Ensured, Reached, Backed, Filled
<1>5. BackedIn(alloc', Required(p)) /\ FilledIn(block', op[p].at)
  BY <1>3, <1>4, Keeps
<1>6. /\ op[p].kind = "write" => op[p].len > 0 /\ op[p].value > 0
      /\ op[p].kind = "truncate" => op[p].len = 0
      /\ pc[p] \in {"copy", "loadSize"} => op[p].kind = "write"
  BY DEF WorkerOK, KindFits
<1>7. CASE Copy(p)
  <2>1. /\ At(p, "copy") /\ op' = op /\ block' = [block EXCEPT ![index[p]] = op[p].value]
        /\ index'[p] = index[p] + 1
        /\ pc'[p] = IF index[p] + 1 = Required(p) THEN "loadSize" ELSE "copy"
    BY <1>1, <1>7, Puts, Zenon DEF Copy
  <2>2. op[p].at <= index[p] /\ index[p] < Required(p) /\ FilledIn(block, index[p])
    BY <2>1 DEF WorkerOK, Reached, At, Filled
  <2>3. index[p] \in 0 .. MaxCap - 1 /\ index[p] \in 0 .. MaxCap
    BY <1>3, <1>4, <2>2, FileAssumption
  <2>4. block'[index[p]] # 0
    BY <1>1, <1>6, <2>1, <2>3 DEF DataTyped, At
  <2>5. FilledIn(block', index[p])
    BY <2>2, <2>3, Keeps
  <2>6. FilledIn(block', index[p] + 1)
    BY <1>3, <2>4, <2>5 DEF FilledIn
  <2>7. op[p].at <= index[p] + 1 /\ index[p] + 1 <= Required(p)
    BY <1>3, <2>2
  <2>8. op[p].kind = "write"
    BY <1>6, <2>1 DEF At
  <2>9. CASE index[p] + 1 = Required(p)
    <3>1. pc'[p] = "loadSize" /\ FilledIn(block', Required(p))
      BY <2>1, <2>6, <2>9
    <3> QED BY <1>3, <1>4, <1>5, <1>6, <2>1, <2>8, <3>1
            DEF WorkerOK, KindFits, Ensured, Reached, At, Required, Backed, Filled
  <2>10. CASE index[p] + 1 # Required(p)
    <3>1. pc'[p] = "copy" /\ index[p] + 1 < Required(p)
      BY <1>3, <2>1, <2>7, <2>10
    <3> QED BY <1>3, <1>4, <1>5, <1>6, <2>1, <2>6, <2>7, <2>8, <3>1
            DEF WorkerOK, KindFits, Ensured, Reached, At, Required, Backed, Filled
  <2> QED BY <2>9, <2>10
<1>8. CASE LoadSize(p)
  <2>1. /\ At(p, "loadSize") /\ op' = op /\ alloc' = alloc /\ block' = block
        /\ pc'[p] = "storeSize" /\ loaded'[p] = SizeAfter(p, meta.size)
    BY <1>1, <1>8, Puts, Zenon DEF LoadSize, Data
  <2>2. FilledIn(block, Required(p))
    BY <2>1 DEF WorkerOK, Reached, Filled
  <2>3. meta.size \in Nat /\ meta.size <= MaxCap
    BY <1>1 DEF CellsTyped, Cells
  <2>4. SizeAfter(p, meta.size) = meta.size \/ SizeAfter(p, meta.size) = Required(p)
    BY DEF SizeAfter, Larger
  <2>5. /\ SizeAfter(p, meta.size) <= MaxCap
        /\ BackedIn(alloc, SizeAfter(p, meta.size)) /\ FilledIn(block, SizeAfter(p, meta.size))
    BY <1>4, <2>2, <2>3, <2>4 DEF Backed, Filled
  <2> QED BY <1>3, <1>4, <1>6, <2>1, <2>5
          DEF WorkerOK, KindFits, Ensured, Reached, At, Required, Backed, Filled
<1>9. CASE StoreSize(p)
  <2>1. /\ At(p, "storeSize") /\ op' = op /\ alloc' = alloc /\ block' = block
        /\ pc'[p] = "loadPeak" /\ index'[p] = loaded[p]
    BY <1>1, <1>9, Puts, Zenon DEF StoreSize, Data
  <2>2. loaded[p] <= MaxCap
    BY <2>1 DEF WorkerOK, Reached
  <2> QED BY <1>3, <1>4, <1>6, <2>1, <2>2
          DEF WorkerOK, KindFits, Ensured, Reached, At, Required, Backed, Filled
<1> QED BY <1>7, <1>8, <1>9

\* The cells that only count.
LEMMA CountersOK ==
  ASSUME TypeOK, NEW p \in Proc, WorkerOK(p),
         LoadPeak(p) \/ CasPeak(p) \/ Shrink(p) \/ LoadWritten(p) \/ CasWritten(p)
  PROVE  WorkerOK(p)'
<1>1. WorkersTyped
  BY TypeParts
<1>2. /\ op' = op /\ alloc' = alloc /\ block' = block /\ index' = index
  BY Zenon DEF LoadPeak, CasPeak, Shrink, LoadWritten, CasWritten, Data
<1>3. CASE LoadPeak(p) \/ CasPeak(p)
  <2>1. pc[p] \in {"loadPeak", "casPeak"} /\ (pc'[p] = "casPeak" \/ pc'[p] = AfterPeak(p))
    BY <1>1, <1>3, Puts DEF LoadPeak, CasPeak, At
  <2>2. /\ op[p].kind \in {"write", "truncate"}
        /\ pc'[p] \in {"casPeak"} \/ (pc'[p] = "loadWritten" /\ op[p].kind = "write")
           \/ (pc'[p] = "shrink" /\ op[p].kind = "truncate")
    BY <2>1 DEF WorkerOK, KindFits, AfterPeak
  <2> QED BY <1>2, <2>1, <2>2
          DEF WorkerOK, KindFits, Ensured, Reached, At, Required, Backed, Filled
<1>4. CASE Shrink(p)
  <2>1. pc[p] = "shrink" /\ pc'[p] = "release"
    BY <1>1, <1>4, Puts DEF Shrink, At
  <2> QED BY <1>2, <2>1 DEF WorkerOK, KindFits, Ensured, Reached, At, Required, Backed, Filled
<1>5. CASE LoadWritten(p) \/ CasWritten(p)
  <2>1. pc[p] \in {"loadWritten", "casWritten"} /\ pc'[p] \in {"casWritten", "release"}
    BY <1>1, <1>5, Puts DEF LoadWritten, CasWritten, At
  <2> QED BY <1>2, <2>1 DEF WorkerOK, KindFits, Ensured, Reached, At, Required, Backed, Filled
<1> QED BY <1>3, <1>4, <1>5

\* The lock, the reads and the delete.
LEMMA RestOK ==
  ASSUME TypeOK, NEW p \in Proc, WorkerOK(p), Backed(meta.size), Filled(meta.size),
         Acquire(p) \/ Release(p) \/ Revoke(p) \/ ReadSize(p) \/ ReadBlock(p) \/ JDelete(p)
  PROVE  WorkerOK(p)'
<1>1. WorkersTyped /\ CellsTyped
  BY TypeParts
<1>2. alloc' = alloc /\ block' = block
  BY Zenon DEF Acquire, Release, Revoke, ReadSize, ReadBlock, JDelete, Data
<1>3. CASE Finish(p)
  BY <1>1, <1>3, FinishOK
<1>4. CASE Acquire(p)
  <2>1. At(p, "lock") /\ pc'[p] = "ensure" /\ op' = op
    BY <1>1, <1>4, Puts, Zenon DEF Acquire
  <2> QED BY <1>2, <2>1 DEF WorkerOK, KindFits, Ensured, Reached, At, Required, Backed, Filled
<1>5. CASE Revoke(p)
  <2>1. pc' = pc /\ op' = op /\ index' = index /\ loaded' = loaded
    BY <1>5 DEF Revoke
  <2> QED BY <1>2, <2>1 DEF WorkerOK, KindFits, Ensured, Reached, At, Required, Backed, Filled
<1>6. CASE ReadSize(p)
  <2>1. CASE op[p].at < SizeSeen /\ Goto(p, "readBlock") /\ UNCHANGED <<op, index, loaded>>
    <3>1. pc'[p] = "readBlock" /\ op' = op /\ At(p, "readSize")
      BY <1>1, <1>6, <2>1, Puts, Zenon DEF ReadSize
    <3>2. op[p].at \in Nat /\ meta.size \in Nat
      BY <1>1, OpTyped, FileAssumption DEF CellsTyped, Cells
    <3>3. op[p].at \in 0 .. meta.size - 1
      BY <2>1, <3>2 DEF SizeSeen
    <3>4. AllocatedIn(alloc, op[p].at) /\ block[op[p].at] # 0
      BY <3>3 DEF Backed, Filled, BackedIn, FilledIn
    <3> QED BY <1>2, <3>1, <3>4
            DEF WorkerOK, KindFits, Ensured, Reached, At, Required, Backed, Filled
  <2> QED BY <1>3, <1>6, <2>1 DEF ReadSize
<1>7. CASE JDelete(p)
  <2>1. CASE index[p] # 7 /\ index' = [index EXCEPT ![p] = @ + 1] /\ UNCHANGED <<pc, op, loaded>>
    <3>1. At(p, "clear") /\ index'[p] = index[p] + 1 /\ index[p] \in Nat
      BY <1>1, <1>7, <2>1, Puts, OpTyped, Zenon DEF JDelete
    <3>2. op[p].kind = "delete" /\ index[p] + 1 <= 7
      BY <2>1, <3>1 DEF WorkerOK, KindFits
    <3> QED BY <1>2, <2>1, <3>1, <3>2
            DEF WorkerOK, KindFits, Ensured, Reached, At, Required, Backed, Filled
  <2> QED BY <1>3, <1>7, <2>1, Zenon DEF JDelete
<1> QED BY <1>3, <1>4, <1>5, <1>6, <1>7 DEF Release, ReadBlock

\* What a worker relies on after its own step.
LEMMA SelfStep ==
  ASSUME TypeOK, ActiveAreWhole, Backed(meta.size), Filled(meta.size),
         NEW p \in Proc, WorkerOK(p), Step(p)
  PROVE  WorkerOK(p)'
BY BeginOK, GrowOK, BodyStepOK, CountersOK, RestOK, Zenon DEF Step

-----------------------------------------------------------------------------
(* What the cells promise *)

\* The cells after a store.
LEMMA StoredCell ==
  ASSUME CellsTyped, NEW c \in Cells, NEW v, Store(c, v), NEW d \in Cells
  PROVE  meta'[d] = IF d = c THEN v ELSE meta[d]
BY DEF CellsTyped, Store

\* The segments before the last that n blocks need are within the n blocks.
LEMMA WholeUpTo ==
  ASSUME NEW a, NEW n \in Nat, BackedIn(a, n)
  PROVE  BackedIn(a, (Larger(1, SegmentsFor(n)) - 1) * SegCap)
<1>1. /\ SegmentsFor(n) \in Nat \ {0} /\ (SegmentsFor(n) - 1) * SegCap <= n
      /\ (SegmentsFor(n) - 1) * SegCap \in Nat
  BY SegmentsFacts, FileAssumption
<1>2. Larger(1, SegmentsFor(n)) = SegmentsFor(n)
  BY <1>1 DEF Larger
<1> QED BY <1>1, <1>2, Below

\* The size and the active segments promise only what the segments have.
LEMMA PromiseStep ==
  ASSUME TypeOK, ActiveAreWhole, Backed(meta.size), Filled(meta.size),
         NEW p \in Proc, WorkerOK(p), Step(p)
  PROVE  ActiveAreWhole' /\ Backed(meta.size)' /\ Filled(meta.size)'
<1>1. CellsTyped /\ DataTyped /\ WorkersTyped
  BY TypeParts
<1>2. meta.size \in 0 .. MaxCap /\ {"size", "active"} \subseteq Cells
  BY <1>1, FileAssumption DEF CellsTyped, Cells
<1>3. (ActiveCount - 1) * SegCap \in 0 .. MaxCap
  <2>1. /\ ActiveCount \in Nat \ {0} /\ ActiveCount - 1 \in Segments
        /\ (ActiveCount - 1) * SegCap \in Nat
    BY <1>1, ActiveFacts
  <2>2. SegmentsFor(MaxCap) \in Nat /\ (SegmentsFor(MaxCap) - 1) * SegCap <= MaxCap
    BY SegmentsFacts, FileAssumption
  <2>3. ActiveCount - 1 <= SegmentsFor(MaxCap) - 1
    BY <2>1, <2>2 DEF Segments
  <2>4. (ActiveCount - 1) * SegCap <= (SegmentsFor(MaxCap) - 1) * SegCap
    BY <2>1, <2>2, <2>3, FileAssumption
  <2>5. (SegmentsFor(MaxCap) - 1) * SegCap \in Int
    BY <2>2, FileAssumption
  <2> QED BY <2>1, <2>2, <2>4, <2>5, FileAssumption
<1>4. /\ BackedIn(alloc', (ActiveCount - 1) * SegCap)
      /\ BackedIn(alloc', meta.size) /\ FilledIn(block', meta.size)
  BY <1>2, <1>3, Keeps DEF ActiveAreWhole, Backed, Filled
<1>5. CASE meta'.active = meta.active
  <2>1. ActiveAreWhole'
    BY <1>4, <1>5 DEF ActiveAreWhole, ActiveCount, Backed
  <2>2. CASE meta'.size = meta.size
    BY <1>4, <2>1, <2>2 DEF Backed, Filled
  <2>3. CASE StoreSize(p)
    <3>1. meta'.size = loaded[p] /\ At(p, "storeSize") /\ alloc' = alloc /\ block' = block
      BY <1>1, <1>2, <2>3, StoredCell DEF StoreSize, Data
    <3> QED BY <2>1, <3>1 DEF WorkerOK, Reached, Backed, Filled
  <2>4. CASE meta'.size = 0
    BY <2>1, <2>4 DEF Backed, Filled, BackedIn, FilledIn
  <2>5. \/ UNCHANGED meta \/ StoreSize(p) \/ JDelete(p)
        \/ \E c \in Cells : \E v : c # "size" /\ Store(c, v)
    <3>1. "lock" \in Cells /\ "active" \in Cells /\ "peak" \in Cells /\ "written" \in Cells
      BY DEF Cells
    <3>2. "lock" # "size" /\ "active" # "size" /\ "peak" # "size" /\ "written" # "size"
      OBVIOUS
    <3> QED BY <3>1, <3>2, Zenon DEF Step, Begin, Start, Acquire, Release, Revoke,
               EnsureCapacity, GrowSegment, ExtendSegment, Activate, Copy, LoadSize, LoadPeak,
               CasPeak, CompareAndSet, Shrink, LoadWritten, CasWritten, ReadSize, ReadBlock
  <2>6. JDelete(p) => meta'.size \in {0, meta.size}
    <3>1. JDelete(p) => /\ index[p] \in 0 .. 7
                         /\ Store(Clearing[index[p] + 1][1], Clearing[index[p] + 1][2])
      BY <1>1, OpTyped DEF JDelete, WorkerOK, KindFits
    <3> QED BY <1>1, <1>2, <3>1, StoredCell, ClearingFacts
  <2>7. (\E c \in Cells : \E v : c # "size" /\ Store(c, v)) => meta'.size = meta.size
    BY <1>1, <1>2, StoredCell
  <2> QED BY <2>2, <2>3, <2>4, <2>5, <2>6, <2>7
<1>6. CASE meta'.size = meta.size /\ (Activate(p) \/ Shrink(p)) /\ meta'.active # meta.active
  <2> DEFINE n == IF Activate(p) THEN Required(p) ELSE op[p].at
  <2>1. n \in Nat /\ BackedIn(alloc, n) /\ alloc' = alloc
    <3>1. CASE Activate(p)
      <4>1. alloc' = alloc /\ index[p] >= SegmentsFor(Required(p)) /\ At(p, "grow")
        BY <3>1 DEF Activate, Data
      <4>2. BackedTo(alloc, Required(p), index[p]) /\ Required(p) \in Nat /\ index[p] \in Nat
        BY <1>1, <4>1, OpTyped DEF WorkerOK, Ensured, At
      <4> QED BY <3>1, <4>1, <4>2, GrowEnds
    <3>2. CASE Shrink(p) /\ ~Activate(p)
      <4>1. alloc' = alloc /\ At(p, "shrink")
        BY <3>2 DEF Shrink, Data
      <4>2. Required(p) = op[p].at /\ op[p].at \in Nat /\ BackedIn(alloc, Required(p))
        BY <1>1, <4>1, OpTyped, FileAssumption DEF WorkerOK, KindFits, Ensured, At, Required, Backed
      <4> QED BY <3>2, <4>1, <4>2
    <3> QED BY <1>6, <3>1, <3>2
  <2>2. meta'.active = SegmentsFor(n)
    <3>1. Store("active", SegmentsFor(n)) \/ UNCHANGED meta
      BY <1>6, Zenon DEF Activate, Shrink
    <3> QED BY <1>1, <1>2, <1>6, <3>1, StoredCell
  <2> HIDE DEF n
  <2>3. BackedIn(alloc', (Larger(1, meta'.active) - 1) * SegCap)
    BY <2>1, <2>2, WholeUpTo
  <2> QED BY <1>4, <1>6, <2>3 DEF ActiveAreWhole, ActiveCount, Backed, Filled
<1>7. CASE meta'.size = meta.size /\ JDelete(p) /\ meta'.active \in {0, 1}
  <2>1. (Larger(1, meta'.active) - 1) * SegCap = 0
    BY <1>7, FileAssumption DEF Larger
  <2>2. BackedIn(alloc', 0)
    BY DEF BackedIn
  <2> QED BY <1>4, <1>7, <2>1, <2>2 DEF ActiveAreWhole, ActiveCount, Backed, Filled
<1>8. \/ UNCHANGED meta
      \/ \E c \in Cells : \E v : c # "active" /\ Store(c, v)
      \/ (Activate(p) \/ Shrink(p)) /\ \E v : Store("active", v)
      \/ JDelete(p)
  <2>1. "lock" \in Cells /\ "size" \in Cells /\ "peak" \in Cells /\ "written" \in Cells
    BY DEF Cells
  <2>2. "lock" # "active" /\ "size" # "active" /\ "peak" # "active" /\ "written" # "active"
    OBVIOUS
  <2> QED BY <2>1, <2>2, Zenon DEF Step, Begin, Start, Acquire, Release, Revoke,
             EnsureCapacity, GrowSegment, ExtendSegment, Activate, Copy, LoadSize, StoreSize,
             LoadPeak, CasPeak, CompareAndSet, Shrink, LoadWritten, CasWritten, ReadSize, ReadBlock
<1>9. UNCHANGED meta => meta'.active = meta.active
  OBVIOUS
<1>10. (\E c \in Cells : \E v : c # "active" /\ Store(c, v)) => meta'.active = meta.active
  BY <1>1, <1>2, StoredCell
<1>11. (\E v : Store("active", v)) => meta'.size = meta.size
  BY <1>1, <1>2, StoredCell
<1>12. JDelete(p) => \/ meta'.active = meta.active
                     \/ meta'.size = meta.size /\ meta'.active \in {0, 1}
  <2>1. JDelete(p) => /\ index[p] \in 0 .. 7
                       /\ Store(Clearing[index[p] + 1][1], Clearing[index[p] + 1][2])
    BY <1>1, OpTyped DEF JDelete, WorkerOK, KindFits
  <2> QED BY <1>1, <1>2, <2>1, StoredCell, ClearingFacts
<1> QED BY <1>5, <1>6, <1>7, <1>8, <1>9, <1>10, <1>11, <1>12

-----------------------------------------------------------------------------
(* The counter *)

\* The compare-and-set loop of the counter loses no count.
LEMMA CountStep ==
  ASSUME TypeOK, CountsEveryWrite, NEW p \in Proc, WorkerOK(p), Step(p)
  PROVE  CountsEveryWrite'
<1>1. CellsTyped /\ WorkersTyped /\ HistoryTyped
  BY TypeParts
<1>2. /\ meta.written = Smaller(MaxCounter, written) /\ meta.written \in Nat
      /\ written \in Nat /\ op[p].len \in Nat /\ loaded[p] \in Nat /\ MaxCounter \in Nat
      /\ "written" \in Cells
  BY <1>1, OpTyped, FileAssumption DEF CountsEveryWrite, CellsTyped, Cells, HistoryTyped
<1>3. CASE meta'.written = meta.written /\ written' = written
  BY <1>2, <1>3 DEF CountsEveryWrite
<1>4. CASE LoadWritten(p)
  <2>1. meta' = meta /\ written' = IF meta.written < MaxCounter THEN written
                                   ELSE written + op[p].len
    BY <1>4 DEF LoadWritten
  <2> QED BY <1>2, <2>1 DEF CountsEveryWrite, Smaller
<1>5. CASE CasWritten(p)
  <2>1. CASE meta.written = loaded[p]
    <3>1. Store("written", Smaller(MaxCounter, loaded[p] + op[p].len))
          /\ written' = written + op[p].len
      BY <1>5, <2>1 DEF CasWritten, CompareAndSet, Saturating
    <3>2. meta'.written = Smaller(MaxCounter, meta.written + op[p].len)
      BY <1>1, <1>2, <2>1, <3>1, StoredCell
    <3> QED BY <1>2, <3>1, <3>2 DEF CountsEveryWrite, Smaller
  <2>2. CASE meta.written # loaded[p]
    <3>1. meta' = meta /\ written' = IF meta.written < MaxCounter THEN written
                                     ELSE written + op[p].len
      BY <1>5, <2>2 DEF CasWritten, CompareAndSet
    <3> QED BY <1>2, <3>1 DEF CountsEveryWrite, Smaller
  <2> QED BY <2>1, <2>2
<1>6. CASE JDelete(p)
  <2> DEFINE cell == Clearing[index[p] + 1][1]
             v == Clearing[index[p] + 1][2]
  <2>1. Store(cell, v) /\ written' = IF cell = "written" THEN 0 ELSE written
    BY <1>6 DEF JDelete
  <2>2. index[p] \in 0 .. 7
    BY <1>1, <1>6, OpTyped DEF JDelete, WorkerOK, KindFits
  <2>3. cell \in Cells /\ (cell = "written" => v = 0)
    BY <2>2, ClearingFacts
  <2> HIDE DEF cell, v
  <2>4. meta'.written = IF cell = "written" THEN v ELSE meta.written
    BY <1>1, <1>2, <2>1, <2>3, StoredCell
  <2> QED BY <1>2, <2>1, <2>3, <2>4 DEF CountsEveryWrite, Smaller
<1>7. \/ LoadWritten(p) \/ CasWritten(p) \/ JDelete(p)
      \/ written' = written /\ UNCHANGED meta
      \/ written' = written /\ \E c \in Cells : \E v : c # "written" /\ Store(c, v)
  <2>1. "lock" \in Cells /\ "size" \in Cells /\ "peak" \in Cells /\ "active" \in Cells
    BY DEF Cells
  <2>2. "lock" # "written" /\ "size" # "written" /\ "peak" # "written" /\ "active" # "written"
    OBVIOUS
  <2> QED BY <2>1, <2>2, Zenon DEF Step, Begin, Start, Acquire, Release, Revoke,
             EnsureCapacity, GrowSegment, ExtendSegment, Activate, Copy, LoadSize, StoreSize,
             LoadPeak, CasPeak, CompareAndSet, Shrink, ReadSize, ReadBlock, ghosts
<1>8. (\E c \in Cells : \E v : c # "written" /\ Store(c, v)) => meta'.written = meta.written
  BY <1>1, <1>2, StoredCell
<1>9. UNCHANGED meta => meta'.written = meta.written
  OBVIOUS
<1> QED BY <1>3, <1>4, <1>5, <1>6, <1>7, <1>8, <1>9

-----------------------------------------------------------------------------
(* The invariant *)

\* The file as it was loaded.
LEMMA InitInv == Init => FileInv
<1> SUFFICES ASSUME Init PROVE FileInv
  OBVIOUS
<1> USE FileAssumption
<1>1. Cardinality(Segments) \in Nat \ {0} /\ 0 \in Segments
  BY SegmentCount DEF Segments
<1>2. SegMax(0) = SegCap
  BY DEF SegMax, Smaller
<1>3. /\ meta \in [Cells -> Nat] /\ meta.lock = 0 /\ meta.size = Size0 /\ meta.active = 1
      /\ meta.peak = Size0 /\ meta.written = 0
  BY DEF Init, Cells
<1>4. CellsTyped
  BY <1>1, <1>3 DEF CellsTyped
<1>5. DataTyped
  <2>1. alloc = [s \in Segments |-> IF s = 0 THEN SegMax(0) ELSE 0]
    BY DEF Init
  <2>2. ASSUME NEW s \in Segments PROVE SegMax(s) >= 0 /\ SegMax(s) \in Int
    <3>1. s \in Nat /\ SegmentsFor(MaxCap) \in Nat /\ s <= SegmentsFor(MaxCap) - 1
          /\ (SegmentsFor(MaxCap) - 1) * SegCap <= MaxCap
      BY SegmentsFacts DEF Segments
    <3>2. s * SegCap <= (SegmentsFor(MaxCap) - 1) * SegCap
      BY <3>1
    <3>3. s * SegCap \in Nat /\ (SegmentsFor(MaxCap) - 1) * SegCap \in Int
      BY <3>1
    <3>4. s * SegCap <= MaxCap
      BY <3>1, <3>2, <3>3
    <3> QED BY <3>3, <3>4 DEF SegMax, Smaller
  <2>3. alloc \in [Segments -> Nat] /\ \A s \in Segments : alloc[s] <= SegMax(s)
    BY <1>2, <2>1, <2>2
  <2>4. block \in [0 .. MaxCap - 1 -> 0 .. MaxOps + 1]
    BY DEF Init
  <2> QED BY <2>3, <2>4 DEF DataTyped
<1>6. WorkersTyped
  <2>1. NoOp \in [kind : {"none", "write", "truncate", "read", "delete"},
                  at : 0 .. MaxCap, len : 0 .. SegCap, value : 0 .. MaxOps + 1]
    BY DEF NoOp
  <2>2. pc = [p \in Proc |-> "idle"] /\ op = [p \in Proc |-> NoOp]
        /\ index = [p \in Proc |-> 0] /\ loaded = [p \in Proc |-> 0]
    BY DEF Init
  <2>3. pc \in [Proc -> {"idle", "lock", "ensure", "grow", "extend", "copy", "loadSize",
                         "storeSize", "loadPeak", "casPeak", "shrink", "loadWritten",
                         "casWritten", "release", "readSize", "readBlock", "clear"}]
    BY <2>2
  <2>4. index \in [Proc -> Nat] /\ loaded \in [Proc -> Nat]
    BY <2>2
  <2> HIDE DEF NoOp
  <2> QED BY <2>1, <2>2, <2>3, <2>4, Zenon DEF WorkersTyped
<1>7. HistoryTyped
  <2>1. ops = 0 /\ written = 0 /\ disturbed = FALSE /\ serial = Written(EmptyFile, 0, Size0, 1)
    BY DEF Init
  <2>2. Written(EmptyFile, 0, Size0, 1).size = Larger(EmptyFile.size, 0 + Size0)
    BY DEF Written
  <2>3. EmptyFile.size = 0
    BY DEF EmptyFile
  <2>4. serial.size \in 0 .. MaxCap
    BY <2>1, <2>2, <2>3 DEF Larger
  <2>5. ops \in 0 .. MaxOps /\ written \in Nat
    <3>1. ops = 0 /\ written = 0
      BY <2>1
    <3> QED BY <3>1
  <2>6. disturbed \in BOOLEAN
    BY <2>1, Zenon
  <2> QED BY <2>4, <2>5, <2>6, Zenon DEF HistoryTyped
<1>8. CountsEveryWrite
  BY <1>3 DEF Init, CountsEveryWrite, Smaller
<1>9. ActiveAreWhole
  BY <1>3 DEF ActiveAreWhole, ActiveCount, Larger, Backed, BackedIn
<1>10. Backed(meta.size)
  <2>1. SUFFICES ASSUME NEW b \in 0 .. Size0 - 1 PROVE AllocatedIn(alloc, b)
    BY <1>3 DEF Backed, BackedIn
  <2>2. b \in Nat /\ b < 1 * SegCap
    OBVIOUS
  <2>3. b \div SegCap < 1 /\ b \div SegCap \in Nat /\ b % SegCap \in 0 .. SegCap - 1
    BY <2>2, DivBelow, DivFacts
  <2>4. b \div SegCap = 0
    BY <2>3
  <2>5. alloc[0] = SegCap
    BY <1>1, <1>2 DEF Init
  <2>6. b % SegCap < SegCap
    BY <2>3
  <2> QED BY <2>4, <2>5, <2>6 DEF AllocatedIn
<1>11. Filled(meta.size)
  BY <1>3 DEF Init, Filled, FilledIn
<1>12. ASSUME NEW p \in Proc PROVE WorkerOK(p)
  <2>1. pc[p] = "idle" /\ op[p] = NoOp /\ index[p] = 0
    BY DEF Init
  <2> QED BY <2>1 DEF NoOp, WorkerOK, KindFits, Ensured, Reached, At
<1> QED BY <1>4, <1>5, <1>6, <1>7, <1>8, <1>9, <1>10, <1>11, <1>12, TypeParts DEF FileInv

\* The inductive invariant is preserved.
LEMMA InvStep == FileInv /\ [Next]_vars => FileInv'
<1>1. ASSUME FileInv, NEW p \in Proc, Step(p)
      PROVE  FileInv'
  <2>1. /\ TypeOK /\ CountsEveryWrite /\ ActiveAreWhole /\ Backed(meta.size)
        /\ Filled(meta.size) /\ \A q \in Proc : WorkerOK(q)
    BY <1>1 DEF FileInv
  <2>2. TypeOK'
    BY <1>1, <2>1, TypeStep
  <2>3. CountsEveryWrite'
    BY <1>1, <2>1, CountStep
  <2>4. ActiveAreWhole' /\ Backed(meta.size)' /\ Filled(meta.size)'
    BY <1>1, <2>1, PromiseStep
  <2>5. ASSUME NEW q \in Proc PROVE WorkerOK(q)'
    <3>1. CASE q = p
      BY <1>1, <2>1, <3>1, SelfStep
    <3>2. CASE q # p
      BY <1>1, <2>1, <3>2, OthersStep
    <3> QED BY <3>1, <3>2
  <2> QED BY <2>2, <2>3, <2>4, <2>5 DEF FileInv
<1>2. ASSUME FileInv, UNCHANGED vars
      PROVE  FileInv'
  <2>1. /\ meta' = meta /\ alloc' = alloc /\ block' = block /\ pc' = pc /\ op' = op
        /\ index' = index /\ loaded' = loaded /\ ops' = ops /\ written' = written
        /\ serial' = serial /\ disturbed' = disturbed
    BY <1>2 DEF vars
  <2>2. TypeOK'
    BY <1>2, <2>1 DEF FileInv, TypeOK
  <2>3. CountsEveryWrite' /\ ActiveAreWhole' /\ Backed(meta.size)' /\ Filled(meta.size)'
    BY <1>2, <2>1 DEF FileInv, CountsEveryWrite, ActiveAreWhole, ActiveCount, Backed, Filled
  <2>4. \A p \in Proc : WorkerOK(p)'
    BY <1>2, <2>1 DEF FileInv, WorkerOK, KindFits, Ensured, Reached, At, Required, Backed, Filled
  <2> QED BY <2>2, <2>3, <2>4 DEF FileInv
<1> QED BY <1>1, <1>2 DEF Next

\* The inductive invariant holds in every behaviour.
THEOREM FileInvariant == Spec => []FileInv
BY InitInv, InvStep, PTL DEF Spec

\* Cells, segments and workers keep their types: in particular no segment
\* outgrows its capacity, no count its limit, and no size the file.
THEOREM FileTypeCorrect == Spec => []TypeOK
<1>1. FileInv => TypeOK
  BY DEF FileInv
<1> QED BY <1>1, FileInvariant, PTL

\* The size never promises bytes that no segment has, whoever writes beside
\* a delete or without the lock that it believes to hold.
THEOREM SizeBacked == Spec => []SizeIsBacked
<1>1. FileInv => SizeIsBacked
  BY DEF FileInv, SizeIsBacked, Backed, BackedIn, AllocatedIn
<1> QED BY <1>1, FileInvariant, PTL

\* A reader that takes no lock finds, below the size it has seen, bytes that
\* a segment has and that were written.
THEOREM ReadsWhole == Spec => []AppendsReadWhole
<1>1. FileInv => AppendsReadWhole
  BY DEF FileInv, AppendsReadWhole, WorkerOK, Reached, AllocatedIn
<1> QED BY <1>1, FileInvariant, PTL

\* No count of written blocks is lost before the counter is full, and a full
\* counter stays full.
THEOREM WritesCounted == Spec => []CountsEveryWrite
<1>1. FileInv => CountsEveryWrite
  BY DEF FileInv
<1> QED BY <1>1, FileInvariant, PTL

-----------------------------------------------------------------------------
(* The file and its history *)

\* A file whose buffer holds its size.
FileOK(f) == f.data \in Seq(Nat) /\ f.size \in Nat /\ f.size <= Len(f.data)

\* A block of the file of the history, 0 if none was ever stored there.
Stored(f, b) == IF b < Len(f.data) THEN f.data[b + 1] ELSE 0

\* How far the blocks of an operation are stored.
WrittenTo(p) ==
    IF At(p, "copy") THEN index[p]
    ELSE IF op[p].kind = "write" /\ pc[p] \notin {"ensure", "grow", "extend"} THEN Required(p)
    ELSE op[p].at
BlocksIn(f, file, at, to, v) ==
    \A b \in 0 .. MaxCap - 1 :
        f[b] = IF at <= b /\ b < to THEN v ELSE Stored(file, b)
BlocksAre(p) == BlocksIn(block, serial, op[p].at, WrittenTo(p), op[p].value)

\* The file beside its history while a worker is inside an operation: the
\* size is the one before it, then the one after it.
Midway(p) ==
    /\ meta.lock = p
    /\ \A q \in Proc : At(q, "clear") => index[q] = 0
    /\ BlocksAre(p)
    /\ pc[p] \in {"ensure", "grow", "extend", "copy", "loadSize", "storeSize"} =>
          meta.size = serial.size
    /\ pc[p] \in {"grow", "extend"} => loaded[p] = ActiveCount
    /\ pc[p] \in {"copy", "loadSize", "storeSize"} => SegmentsFor(Required(p)) <= ActiveCount
    /\ At(p, "storeSize") => loaded[p] = Done(op[p], serial).size
    /\ pc[p] \in {"loadPeak", "casPeak", "shrink", "loadWritten", "casWritten", "release"} =>
          meta.size = Done(op[p], serial).size

\* Between operations the file is that of the history, unless a delete that
\* has cleared the size is not done.
Cleared == \E q \in Proc : At(q, "clear") /\ index[q] >= 2
Between ==
    /\ BlocksIn(block, serial, 0, 0, 0)
    /\ meta.size = serial.size \/ Cleared

SerialInv ==
    ~disturbed =>
        /\ FileOK(serial)
        /\ SegmentsFor(meta.size) <= ActiveCount
        /\ Cleared => meta.size = 0
        /\ \A p \in Proc : Inside(p) => Midway(p)
        /\ (\A p \in Proc : ~Inside(p)) => Between

-----------------------------------------------------------------------------
(* The operations of a LocalFile *)

\* growBuffer keeps what there was, and what it adds was never stored.
LEMMA GrownFacts ==
  ASSUME NEW data \in Seq(Nat), NEW n \in Nat
  PROVE  /\ Grown(data, n) \in Seq(Nat)
         /\ Len(Grown(data, n)) >= n /\ Len(Grown(data, n)) >= Len(data)
         /\ \A i \in 1 .. Len(Grown(data, n)) :
               Grown(data, n)[i] = IF i <= Len(data) THEN data[i] ELSE 0
<1>1. CASE Len(data) >= n
  <2>1. Grown(data, n) = data
    BY <1>1 DEF Grown
  <2> QED BY <1>1, <2>1
<1>2. CASE ~(Len(data) >= n)
  <2> DEFINE m == Larger(n, Larger(2 * Len(data), 1))
             g == [i \in 1 .. m |-> IF i <= Len(data) THEN data[i] ELSE 0]
  <2>1. m \in Nat /\ m >= n /\ m >= Len(data)
    BY <1>2 DEF Larger
  <2>2. Grown(data, n) = g
    BY <1>2 DEF Grown
  <2> HIDE DEF m
  <2>3. g \in [1 .. m -> Nat]
    OBVIOUS
  <2>4. g \in Seq(Nat) /\ Len(g) = m
    BY <2>1, <2>3
  <2> QED BY <2>1, <2>2, <2>4
<1> QED BY <1>1, <1>2

\* File g is f after len blocks of value v were written at offset at.
IsWritten(g, f, at, len, v) ==
    /\ FileOK(g)
    /\ g.size = Larger(f.size, at + len)
    /\ \A b \in Nat : Stored(g, b) = IF at <= b /\ b < at + len THEN v ELSE Stored(f, b)

\* write() of a LocalFile does it.
LEMMA WrittenFacts ==
  ASSUME NEW f, FileOK(f), NEW at \in Nat, NEW len \in Nat, NEW v \in Nat
  PROVE  IsWritten(Written(f, at, len, v), f, at, len, v)
<1> DEFINE d == Grown(f.data, at + len)
           w == [i \in DOMAIN d |-> IF at < i /\ i <= at + len THEN v ELSE d[i]]
<1>1. f.data \in Seq(Nat) /\ f.size \in Nat /\ f.size <= Len(f.data) /\ Len(f.data) \in Nat
      /\ at + len \in Nat
  BY DEF FileOK
<1>2. /\ d \in Seq(Nat) /\ Len(d) >= at + len /\ Len(d) >= Len(f.data)
      /\ \A i \in 1 .. Len(d) : d[i] = IF i <= Len(f.data) THEN f.data[i] ELSE 0
  BY <1>1, GrownFacts, Zenon
<1>3. Written(f, at, len, v).size = Larger(f.size, at + len) /\ Written(f, at, len, v).data = w
  BY DEF Written
<1> HIDE DEF d
<1>4. DOMAIN d = 1 .. Len(d) /\ Len(d) \in Nat
  BY <1>2
<1>5. w \in [1 .. Len(d) -> Nat]
  BY <1>2, <1>4
<1>6. w \in Seq(Nat) /\ Len(w) = Len(d)
  BY <1>4, <1>5
<1>7. \A i \in 1 .. Len(d) : w[i] = IF at < i /\ i <= at + len THEN v ELSE d[i]
  BY <1>4
<1> HIDE DEF w
<1>8. FileOK(Written(f, at, len, v))
  BY <1>1, <1>2, <1>3, <1>6 DEF FileOK, Larger
<1>9. ASSUME NEW b \in Nat
      PROVE  Stored(Written(f, at, len, v), b) =
                IF at <= b /\ b < at + len THEN v ELSE Stored(f, b)
  <2>1. Stored(Written(f, at, len, v), b) = IF b < Len(d) THEN w[b + 1] ELSE 0
    BY <1>3, <1>6 DEF Stored
  <2>2. CASE b < Len(d)
    <3>1. b + 1 \in 1 .. Len(d)
      BY <1>4, <2>2
    <3>2. w[b + 1] = IF at <= b /\ b < at + len THEN v ELSE d[b + 1]
      BY <1>7, <3>1
    <3>3. d[b + 1] = Stored(f, b)
      BY <1>1, <1>2, <3>1 DEF Stored
    <3> QED BY <2>1, <2>2, <3>2, <3>3
  <2>3. CASE ~(b < Len(d))
    BY <1>1, <1>2, <1>4, <2>1, <2>3 DEF Stored
  <2> QED BY <2>2, <2>3
<1> QED BY <1>3, <1>8, <1>9 DEF IsWritten

LEMMA TruncatedFacts ==
  ASSUME NEW f, FileOK(f), NEW n \in Nat
  PROVE  /\ FileOK(Truncated(f, n)) /\ Truncated(f, n).size = n
         /\ \A b \in Nat : Stored(Truncated(f, n), b) = Stored(f, b)
<1> DEFINE d == Grown(f.data, n)
<1>1. f.data \in Seq(Nat) /\ Len(f.data) \in Nat
  BY DEF FileOK
<1>2. /\ d \in Seq(Nat) /\ Len(d) >= n /\ Len(d) >= Len(f.data)
      /\ \A i \in 1 .. Len(d) : d[i] = IF i <= Len(f.data) THEN f.data[i] ELSE 0
  BY <1>1, GrownFacts, Zenon
<1>3. Truncated(f, n).size = n /\ Truncated(f, n).data = d
  BY DEF Truncated
<1> HIDE DEF d
<1>4. FileOK(Truncated(f, n)) /\ Len(d) \in Nat
  BY <1>2, <1>3 DEF FileOK
<1>5. ASSUME NEW b \in Nat PROVE Stored(Truncated(f, n), b) = Stored(f, b)
  <2>1. b < Len(d) => b + 1 \in 1 .. Len(d)
    BY <1>2
  <2> HIDE DEF FileOK
  <2> QED BY <1>1, <1>2, <1>3, <1>4, <2>1 DEF Stored
<1> QED BY <1>3, <1>4, <1>5

\* A sequence of one element.
LEMMA OneElement ==
  ASSUME NEW data \in Seq(Nat), NEW k \in 1 .. Len(data)
  PROVE  SubSeq(data, k, k) = <<data[k]>>
<1> DEFINE s == SubSeq(data, k, k)
<1>1. s \in Seq(Nat)
  OBVIOUS
<1>2. Len(s) = 1
  OBVIOUS
<1>3. s[1] = data[k]
  OBVIOUS
<1> HIDE DEF s
<1>4. s = <<data[k]>>
  BY <1>1, <1>2, <1>3
<1> QED BY <1>4 DEF s

\* read() of one block.
LEMMA ReadFacts ==
  ASSUME NEW f, FileOK(f), NEW b \in 0 .. f.size - 1
  PROVE  Read(f, b, 1) = <<Stored(f, b)>>
<1>1. f.data \in Seq(Nat) /\ f.size \in Nat /\ f.size <= Len(f.data) /\ b \in Nat /\ b < f.size
      /\ b + 1 \in 1 .. Len(f.data) /\ b + 1 \in Nat /\ Len(f.data) \in Nat
  BY DEF FileOK
<1>2. Read(f, b, 1) = SubSeq(f.data, b + 1, b + 1)
  <2>1. /\ (IF b < f.size THEN b ELSE f.size) = b
        /\ (IF b + 1 < f.size THEN b + 1 ELSE f.size) = b + 1
    BY <1>1
  <2> QED BY <2>1, Zenon DEF Read
<1>3. SubSeq(f.data, b + 1, b + 1) = <<f.data[b + 1]>>
  BY <1>1, OneElement
<1>4. Stored(f, b) = f.data[b + 1]
  BY <1>1 DEF Stored
<1> QED BY <1>2, <1>3, <1>4

\* File g is f after the operation.
IsDone(g, f, o) ==
    /\ FileOK(g)
    /\ g.size = IF o.kind = "write" THEN Larger(f.size, o.at + o.len)
                ELSE IF o.kind = "truncate" THEN o.at ELSE f.size
    /\ \A b \in Nat : Stored(g, b) = IF o.kind = "write" /\ o.at <= b /\ b < o.at + o.len
                                     THEN o.value ELSE Stored(f, b)

\* The same operation on the file of the history.
LEMMA DoneFacts ==
  ASSUME FileOK(serial), NEW o, o.kind \in {"write", "truncate", "none"},
         o.at \in Nat, o.len \in Nat, o.value \in Nat
  PROVE  IsDone(Done(o, serial), serial, o)
<1>1. CASE o.kind = "write"
  <2> DEFINE w == Written(serial, o.at, o.len, o.value)
  <2>1. Done(o, serial) = w
    BY <1>1 DEF Done
  <2>2. IsWritten(w, serial, o.at, o.len, o.value)
    BY WrittenFacts, Zenon
  <2> HIDE DEF w
  <2> QED BY <1>1, <2>1, <2>2 DEF IsWritten, IsDone
<1>2. CASE o.kind = "truncate"
  <2> DEFINE t == Truncated(serial, o.at)
  <2>1. Done(o, serial) = t
    BY <1>2 DEF Done
  <2>2. FileOK(t) /\ t.size = o.at /\ \A b \in Nat : Stored(t, b) = Stored(serial, b)
    BY TruncatedFacts, Zenon
  <2> HIDE DEF t
  <2> QED BY <1>2, <2>1, <2>2 DEF IsDone
<1>3. CASE o.kind = "none"
  BY <1>3 DEF Done, IsDone
<1> QED BY <1>1, <1>2, <1>3

\* The size of the file after the operation.
LEMMA DoneSizes ==
  ASSUME NEW g, NEW f, NEW o, IsDone(g, f, o)
  PROVE  /\ FileOK(g)
         /\ o.kind = "write" => g.size = Larger(f.size, o.at + o.len)
         /\ o.kind = "truncate" => g.size = o.at
BY DEF IsDone

-----------------------------------------------------------------------------
(* Operations one after another *)

\* No blocks are stored yet.
LEMMA NoneStored ==
  ASSUME NEW f, NEW file, NEW at \in Nat, NEW v
  PROVE  BlocksIn(f, file, at, at, v) <=> BlocksIn(f, file, 0, 0, 0)
BY FileAssumption DEF BlocksIn

\* A capacity of so many segments needs no more of them.
LEMMA SegmentsLeast ==
  ASSUME NEW n \in Nat, NEW k \in Nat \ {0}, n <= k * SegCap
  PROVE  SegmentsFor(n) <= k
<1>1. k * SegCap \in Nat /\ (k + 1) * SegCap = k * SegCap + SegCap
      /\ n + SegCap - 1 \in Nat
  BY FileAssumption
<1>2. n + SegCap - 1 < (k + 1) * SegCap
  BY <1>1, FileAssumption
<1>3. (n + SegCap - 1) \div SegCap < k + 1 /\ (n + SegCap - 1) \div SegCap \in Nat
  BY <1>1, <1>2, DivBelow, DivFacts
<1> QED BY <1>3 DEF SegmentsFor, Larger

LEMMA WithinCapacity ==
  ASSUME TypeOK, NEW n \in Nat, n <= ActiveCapacity
  PROVE  SegmentsFor(n) <= ActiveCount
<1>1. CellsTyped /\ DataTyped
  BY TypeParts
<1>2. /\ ActiveCount \in Nat \ {0} /\ (ActiveCount - 1) * SegCap \in Nat
      /\ alloc[ActiveCount - 1] \in Nat /\ alloc[ActiveCount - 1] <= SegCap
  BY <1>1, ActiveFacts
<1>3. ActiveCount * SegCap = (ActiveCount - 1) * SegCap + SegCap
  BY <1>2, FileAssumption
<1>4. n <= ActiveCount * SegCap
  BY <1>2, <1>3, FileAssumption DEF ActiveCapacity
<1> QED BY <1>2, <1>4, SegmentsLeast

\* The other way round, for blocks that their segments have.
LEMMA CapacityReaches ==
  ASSUME TypeOK, NEW n \in Nat, SegmentsFor(n) <= ActiveCount, BackedIn(alloc, n)
  PROVE  n <= ActiveCapacity
<1>1. CellsTyped /\ DataTyped
  BY TypeParts
<1> DEFINE k == ActiveCount - 1
<1>2. k \in Nat /\ k * SegCap \in Nat /\ alloc[k] \in Nat
  BY <1>1, ActiveFacts
<1>3. SegmentsFor(n) <= k + 1 /\ SegmentsFor(n) \in Nat /\ n <= SegmentsFor(n) * SegCap
  BY <1>1, ActiveFacts, SegmentsFacts
<1>4. ActiveCapacity = k * SegCap + alloc[k]
  BY DEF ActiveCapacity
<1> HIDE DEF k
<1>5. (k + 1) * SegCap = k * SegCap + SegCap
  BY <1>2, FileAssumption
<1>6. SegmentsFor(n) * SegCap <= (k + 1) * SegCap
  BY <1>2, <1>3, FileAssumption
<1>7. n <= k * SegCap + SegCap
  <2>1. SegmentsFor(n) * SegCap \in Nat
    BY <1>3, FileAssumption
  <2> QED BY <1>2, <1>3, <1>5, <1>6, <2>1, FileAssumption
<1>8. CASE n <= k * SegCap
  BY <1>2, <1>4, <1>8
<1>9. CASE n > k * SegCap
  <2> DEFINE b == n - 1
  <2>1. b \in Nat /\ b \in 0 .. n - 1 /\ n = b + 1
    BY <1>2, <1>9
  <2> HIDE DEF b
  <2>2. ~(b < k * SegCap) /\ b < (k + 1) * SegCap
    BY <1>2, <1>5, <1>7, <1>9, <2>1, FileAssumption
  <2>3. b \div SegCap \in Nat /\ b % SegCap \in 0 .. SegCap - 1
        /\ b = (b \div SegCap) * SegCap + (b % SegCap)
    BY <2>1, DivFacts
  <2>4. ~(b \div SegCap < k) /\ b \div SegCap < k + 1
    BY <1>2, <2>1, <2>2, DivBelow
  <2>5. b \div SegCap = k
    BY <1>2, <2>3, <2>4
  <2>6. b % SegCap < alloc[k]
    BY <2>1, <2>5 DEF BackedIn, AllocatedIn
  <2>7. b = k * SegCap + (b % SegCap) /\ b % SegCap \in Nat
    BY <2>3, <2>5, FileAssumption
  <2> QED BY <1>2, <1>4, <2>1, <2>6, <2>7
<1> QED BY <1>2, <1>8, <1>9

\* A worker that is inside is alone.
LEMMA Alone ==
  ASSUME TypeOK, SerialInv, ~disturbed, NEW p \in Proc, Inside(p)
  PROVE  /\ Midway(p) /\ ~Cleared
         /\ \A q \in Proc : q # p => ~Inside(q)
         /\ \A q \in Proc : At(q, "clear") => index[q] = 0
<1>1. Midway(p) /\ \A q \in Proc : Inside(q) => Midway(q)
  BY DEF SerialInv
<1>2. meta.lock = p /\ \A q \in Proc : At(q, "clear") => index[q] = 0
  BY <1>1 DEF Midway
<1>3. \A q \in Proc : Inside(q) => meta.lock = q
  BY <1>1 DEF Midway
<1> QED BY <1>1, <1>2, <1>3 DEF Cleared

\* Nor does another step bring one inside, but for the step that takes the lock.
LEMMA InsideStays ==
  ASSUME TypeOK, NEW p \in Proc, NEW q \in Proc, q # p, Step(p)
  PROVE  /\ Inside(q)' <=> Inside(q)
         /\ At(q, "clear")' <=> At(q, "clear")
BY OthersStay DEF Inside, At

\* Who is inside: from the lock to its release.
LEMMA InsideFacts ==
  ASSUME TypeOK, NEW p \in Proc, WorkerOK(p)
  PROVE  Inside(p) <=> pc[p] \in {"ensure", "grow", "extend", "copy", "loadSize", "storeSize",
                                  "loadPeak", "casPeak", "shrink", "loadWritten", "casWritten",
                                  "release"}
<1>1. pc[p] \in {"idle", "lock", "ensure", "grow", "extend", "copy", "loadSize",
                 "storeSize", "loadPeak", "casPeak", "shrink", "loadWritten",
                 "casWritten", "release", "readSize", "readBlock", "clear"}
  BY DEF TypeOK
<1>2. CASE pc[p] \in {"idle", "lock", "readSize", "readBlock", "clear"}
  BY <1>2 DEF WorkerOK, KindFits, Inside, At, NoOp
<1>3. CASE pc[p] \in {"ensure", "grow", "extend", "copy", "loadSize", "storeSize", "loadPeak",
                      "casPeak", "shrink", "loadWritten", "casWritten", "release"}
  BY <1>3 DEF WorkerOK, KindFits, Inside, At
<1> QED BY <1>1, <1>2, <1>3

\* Deletes that are waiting for their first step go on waiting.
LEMMA ClearsWait ==
  ASSUME TypeOK, NEW p \in Proc, Step(p), pc'[p] # "clear",
         \A q \in Proc : At(q, "clear") => index[q] = 0
  PROVE  /\ \A q \in Proc : At(q, "clear")' => index'[q] = 0
         /\ ~Cleared'
<1>1. \A q \in Proc : At(q, "clear")' => index'[q] = 0
  BY OthersStay DEF At
<1> QED BY <1>1 DEF Cleared

\* What a worker inside has to go by.
LEMMA InsideHas ==
  ASSUME TypeOK, SerialInv, ~disturbed, NEW p \in Proc, WorkerOK(p), Inside(p)
  PROVE  /\ op[p].at \in Nat /\ op[p].len \in Nat /\ op[p].value \in Nat
         /\ Required(p) = op[p].at + op[p].len /\ Required(p) \in Nat
         /\ index[p] \in Nat /\ loaded[p] \in Nat
         /\ meta.size \in Nat /\ meta.active \in Nat /\ meta.lock = p /\ ActiveCount \in Nat \ {0}
         /\ FileOK(serial) /\ SegmentsFor(meta.size) <= ActiveCount
         /\ BlocksIn(block, serial, op[p].at, WrittenTo(p), op[p].value)
         /\ \A q \in Proc : At(q, "clear") => index[q] = 0
         /\ op[p].kind = "truncate" => op[p].len = 0
         /\ IsDone(Done(op[p], serial), serial, op[p])
<1>1. WorkersTyped /\ CellsTyped /\ DataTyped
  BY TypeParts
<1>2. Midway(p)
  BY Alone
<1>3. op[p].kind = "truncate" => op[p].len = 0
  BY DEF WorkerOK, KindFits
<1>4. meta.size \in Nat /\ meta.active \in Nat
  BY <1>1 DEF CellsTyped, Cells
<1>5. ActiveCount \in Nat \ {0}
  BY <1>1, ActiveFacts
<1>6. /\ op[p].at \in Nat /\ op[p].len \in Nat /\ op[p].value \in Nat
      /\ index[p] \in Nat /\ loaded[p] \in Nat /\ Required(p) = op[p].at + op[p].len
  BY <1>1, OpTyped, FileAssumption DEF Required
<1>7. Required(p) \in Nat
  BY <1>6
<1>8. IsDone(Done(op[p], serial), serial, op[p])
  <2>1. FileOK(serial)
    BY DEF SerialInv
  <2>2. op[p].kind \in {"write", "truncate", "none"}
    BY InsideFacts DEF WorkerOK, KindFits, At
  <2> QED BY <1>6, <2>1, <2>2, DoneFacts
<1> QED BY <1>2, <1>3, <1>4, <1>5, <1>6, <1>7, <1>8 DEF Midway, SerialInv, BlocksAre

\* A refused operation leaves the file as it was.
LEMMA ThrowMidway ==
  ASSUME TypeOK, SerialInv, ~disturbed, NEW p \in Proc, WorkerOK(p), Inside(p), Step(p),
         pc[p] \in {"ensure", "grow", "extend"}, Throw(p), UNCHANGED <<meta, block, ghosts>>
  PROVE  Inside(p)' /\ Midway(p)' /\ SegmentsFor(meta.size)' <= ActiveCount'
<1>1. WorkersTyped
  BY TypeParts
<1>2. pc'[p] = "release" /\ op'[p] = NoOp /\ serial' = serial /\ meta' = meta /\ block' = block
  BY <1>1, Puts, Zenon DEF Throw, ghosts
<1>3. /\ op[p].at \in Nat /\ meta.lock = p /\ SegmentsFor(meta.size) <= ActiveCount
      /\ BlocksIn(block, serial, op[p].at, WrittenTo(p), op[p].value)
      /\ \A q \in Proc : At(q, "clear") => index[q] = 0
  BY InsideHas
<1>4. WrittenTo(p) = op[p].at
  BY DEF WrittenTo, At
<1>5. BlocksIn(block, serial, 0, 0, 0)
  BY <1>3, <1>4, NoneStored
<1>6. WrittenTo(p)' = 0 /\ op'[p].at = 0 /\ op'[p].value = 0 /\ op'[p].kind = "none"
  BY <1>2 DEF WrittenTo, At, NoOp
<1>7. BlocksAre(p)'
  BY <1>2, <1>5, <1>6 DEF BlocksAre
<1>8. meta.size = serial.size
  BY Alone DEF Midway
<1>9. Done(op[p], serial)' = serial
  BY <1>2, <1>6 DEF Done
<1>10. \A q \in Proc : At(q, "clear")' => index'[q] = 0
  BY <1>2, <1>3, ClearsWait
<1>11. Midway(p)'
  BY <1>2, <1>3, <1>7, <1>8, <1>9, <1>10 DEF Midway, At
<1> QED BY <1>2, <1>3, <1>11 DEF Inside, At, ActiveCount

\* An operation whose capacity is ensured starts at its first block.
LEMMA BodyMidway ==
  ASSUME TypeOK, SerialInv, ~disturbed, NEW p \in Proc, WorkerOK(p), Inside(p), Step(p),
         pc[p] \in {"ensure", "grow"}, EnterBody(p), UNCHANGED <<block, op, ghosts>>,
         meta'.lock = meta.lock, meta'.size = meta.size,
         ActiveCount' \in Nat, ActiveCount' >= ActiveCount,
         SegmentsFor(Required(p)) <= ActiveCount'
  PROVE  Inside(p)' /\ Midway(p)' /\ SegmentsFor(meta.size)' <= ActiveCount'
<1>1. WorkersTyped
  BY TypeParts
<1>2. /\ pc'[p] = Body(p) /\ index'[p] = op[p].at /\ loaded'[p] = op[p].at
      /\ serial' = serial /\ block' = block /\ op' = op
  BY <1>1, Puts, Zenon DEF EnterBody, ghosts
<1>3. /\ op[p].at \in Nat /\ meta.lock = p /\ SegmentsFor(meta.size) <= ActiveCount
      /\ Required(p) = op[p].at + op[p].len /\ ActiveCount \in Nat /\ meta.size \in Nat
      /\ BlocksIn(block, serial, op[p].at, WrittenTo(p), op[p].value)
      /\ \A q \in Proc : At(q, "clear") => index[q] = 0
      /\ FileOK(serial) /\ op[p].len \in Nat /\ op[p].value \in Nat
  BY InsideHas
<1>4. op[p].kind \in {"write", "truncate"}
  BY DEF WorkerOK, KindFits
<1>5. WrittenTo(p) = op[p].at
  BY DEF WrittenTo, At
<1>6. \/ pc'[p] = "copy" /\ op[p].kind = "write"
      \/ pc'[p] = "storeSize" /\ op[p].kind = "truncate"
  BY <1>2, <1>4 DEF Body
<1>7. WrittenTo(p)' = op[p].at
  BY <1>2, <1>6 DEF WrittenTo, At
<1>8. BlocksAre(p)'
  BY <1>2, <1>3, <1>5, <1>7 DEF BlocksAre
<1>9. meta.size = serial.size
  BY Alone DEF Midway
<1>10. op[p].kind = "truncate" => Done(op[p], serial).size = op[p].at
  <2>1. IsDone(Done(op[p], serial), serial, op[p])
    BY InsideHas, Zenon
  <2> QED BY <2>1, DoneSizes, Zenon
<1>11. \A q \in Proc : At(q, "clear")' => index'[q] = 0
  BY <1>3, <1>6, ClearsWait
<1>12. Required(p)' = Required(p)
  BY <1>2 DEF Required
<1>13. Midway(p)'
  BY <1>2, <1>3, <1>6, <1>8, <1>9, <1>10, <1>11, <1>12 DEF Midway, At
<1>14. SegmentsFor(meta.size) \in Nat
  BY <1>3, SegmentsFacts
<1>15. Inside(p)'
  BY <1>2, <1>4, <1>6 DEF Inside, At
<1> QED BY <1>3, <1>13, <1>14, <1>15

LEMMA GrowMidway ==
  ASSUME TypeOK, SerialInv, ~disturbed, NEW p \in Proc, WorkerOK(p), Inside(p), Step(p),
         EnsureCapacity(p) \/ GrowSegment(p) \/ ExtendSegment(p) \/ Activate(p)
  PROVE  Inside(p)' /\ Midway(p)' /\ SegmentsFor(meta.size)' <= ActiveCount'
<1>1. WorkersTyped /\ CellsTyped
  BY TypeParts
<1>2. /\ op[p].at \in Nat /\ Required(p) \in Nat /\ meta.lock = p /\ ActiveCount \in Nat
      /\ SegmentsFor(meta.size) <= ActiveCount
      /\ BlocksIn(block, serial, op[p].at, WrittenTo(p), op[p].value)
      /\ \A q \in Proc : At(q, "clear") => index[q] = 0
  BY InsideHas
<1>3. pc[p] \in {"ensure", "grow", "extend"} /\ UNCHANGED <<block, ghosts>>
  BY DEF EnsureCapacity, GrowSegment, ExtendSegment, Activate, At, Data
<1>4. op[p].kind \in {"write", "truncate"}
  BY <1>3 DEF WorkerOK, KindFits
<1>5. meta.size = serial.size
  BY <1>3, Alone DEF Midway
<1>6. CASE Throw(p) /\ UNCHANGED meta
  BY <1>3, <1>6, ThrowMidway
<1>7. CASE /\ pc'[p] \in {"grow", "extend"} /\ loaded'[p] = ActiveCount
           /\ meta' = meta /\ op' = op
  <2>1. serial' = serial /\ block' = block
    BY <1>3 DEF ghosts
  <2>2. WrittenTo(p) = op[p].at
    BY <1>3 DEF WrittenTo, At
  <2>3. WrittenTo(p)' = op[p].at
    BY <1>7 DEF WrittenTo, At
  <2>4. BlocksAre(p)'
    BY <1>2, <1>7, <2>1, <2>2, <2>3 DEF BlocksAre
  <2>5. \A q \in Proc : At(q, "clear")' => index'[q] = 0
    BY <1>2, <1>7, ClearsWait
  <2>6. Midway(p)'
    BY <1>2, <1>5, <1>7, <2>1, <2>4, <2>5 DEF Midway, At, ActiveCount
  <2> QED BY <1>2, <1>4, <1>7, <2>6 DEF Inside, At, ActiveCount
<1>8. CASE EnsureCapacity(p)
  <2>1. CASE Required(p) <= ActiveCapacity /\ EnterBody(p) /\ op' = op
    <3>1. At(p, "ensure") /\ meta' = meta
      BY <1>8 DEF EnsureCapacity
    <3>2. SegmentsFor(Required(p)) <= ActiveCount
      BY <1>2, <2>1, WithinCapacity
    <3>3. ActiveCount' = ActiveCount
      BY <3>1 DEF ActiveCount
    <3> QED BY <1>2, <1>3, <2>1, <3>1, <3>2, <3>3, BodyMidway DEF At
  <2>2. CASE Goto(p, "grow") /\ Load(p, ActiveCount) /\ op' = op
    <3>1. pc'[p] = "grow" /\ loaded'[p] = ActiveCount /\ meta' = meta
      BY <1>1, <1>8, <2>2, Puts, Zenon DEF EnsureCapacity
    <3> QED BY <1>7, <2>2, <3>1
  <2> QED BY <1>6, <1>8, <2>1, <2>2, Zenon DEF EnsureCapacity
<1>9. pc[p] \in {"grow", "extend"} => loaded[p] = ActiveCount
  BY Alone DEF Midway
<1>10. CASE GrowSegment(p)
  <2>1. At(p, "grow") /\ (pc' = pc \/ Goto(p, "extend")) /\ meta' = meta /\ op' = op
        /\ loaded' = loaded
    BY <1>10, Zenon DEF GrowSegment
  <2>2. pc'[p] \in {"grow", "extend"}
    BY <1>1, <2>1, Puts DEF At
  <2> QED BY <1>7, <1>9, <2>1, <2>2 DEF At
<1>11. CASE ExtendSegment(p)
  <2>1. CASE Goto(p, "grow") /\ op' = op
    <3>1. At(p, "extend") /\ meta' = meta /\ loaded' = loaded
      BY <1>11 DEF ExtendSegment
    <3>2. pc'[p] = "grow"
      BY <1>1, <2>1, Puts
    <3> QED BY <1>7, <1>9, <2>1, <3>1, <3>2 DEF At
  <2> QED BY <1>6, <1>11, <2>1, Zenon DEF ExtendSegment
<1>12. CASE Activate(p)
  <2>1. At(p, "grow") /\ EnterBody(p) /\ op' = op /\ loaded[p] = ActiveCount
    BY <1>9, <1>12 DEF Activate, At
  <2>2. IF SegmentsFor(Required(p)) > ActiveCount
        THEN Store("active", SegmentsFor(Required(p))) ELSE UNCHANGED meta
    BY <1>12, <2>1 DEF Activate
  <2>3. SegmentsFor(Required(p)) \in Nat \ {0} /\ {"lock", "size", "active"} \subseteq Cells
    BY <1>2, SegmentsFacts DEF Cells
  <2>4. meta'.lock = meta.lock /\ meta'.size = meta.size
    BY <1>1, <2>2, <2>3, StoredCell
  <2>5. ActiveCount' = IF SegmentsFor(Required(p)) > ActiveCount THEN SegmentsFor(Required(p))
                       ELSE ActiveCount
    <3>1. CASE SegmentsFor(Required(p)) > ActiveCount
      <4>1. meta'.active = SegmentsFor(Required(p))
        BY <1>1, <2>2, <2>3, <3>1, StoredCell
      <4> QED BY <2>3, <3>1, <4>1 DEF ActiveCount, Larger
    <3>2. CASE ~(SegmentsFor(Required(p)) > ActiveCount)
      <4>1. meta' = meta
        BY <2>2, <3>2
      <4> QED BY <3>2, <4>1 DEF ActiveCount
    <3> QED BY <3>1, <3>2
  <2>6. /\ ActiveCount' \in Nat /\ ActiveCount' >= ActiveCount
        /\ SegmentsFor(Required(p)) <= ActiveCount'
    BY <1>2, <2>3, <2>5
  <2> QED BY <1>3, <2>1, <2>4, <2>6, BodyMidway DEF At
<1> QED BY <1>8, <1>10, <1>11, <1>12

\* The blocks, then the size: each step brings the file nearer to the one
\* after the operation.
LEMMA StoreMidway ==
  ASSUME TypeOK, SerialInv, ~disturbed, NEW p \in Proc, WorkerOK(p), Inside(p), Step(p),
         Copy(p) \/ LoadSize(p) \/ StoreSize(p)
  PROVE  Inside(p)' /\ Midway(p)' /\ SegmentsFor(meta.size)' <= ActiveCount'
<1>1. WorkersTyped /\ CellsTyped /\ DataTyped
  BY TypeParts
<1>2. /\ op[p].at \in Nat /\ op[p].len \in Nat /\ op[p].value \in Nat
      /\ Required(p) = op[p].at + op[p].len /\ Required(p) \in Nat
      /\ index[p] \in Nat /\ meta.size \in Nat /\ meta.lock = p
      /\ SegmentsFor(meta.size) <= ActiveCount
      /\ BlocksIn(block, serial, op[p].at, WrittenTo(p), op[p].value)
      /\ \A q \in Proc : At(q, "clear") => index[q] = 0
      /\ op[p].kind = "truncate" => op[p].len = 0
  BY InsideHas
<1>3. /\ op[p].kind = "write" => Done(op[p], serial).size = Larger(serial.size, Required(p))
      /\ op[p].kind = "truncate" => Done(op[p], serial).size = Required(p)
  <2>1. IsDone(Done(op[p], serial), serial, op[p])
    BY InsideHas, Zenon
  <2> DEFINE g == Done(op[p], serial)
  <2> HIDE DEF g
  <2>2. IsDone(g, serial, op[p])
    BY <2>1 DEF g
  <2>3. /\ op[p].kind = "write" => g.size = Larger(serial.size, op[p].at + op[p].len)
        /\ op[p].kind = "truncate" => g.size = op[p].at
    BY <2>2, DoneSizes
  <2>4. /\ op[p].kind = "write" => g.size = Larger(serial.size, Required(p))
        /\ op[p].kind = "truncate" => g.size = Required(p)
    BY <1>2, <2>3
  <2> QED BY <2>4 DEF g
<1>4. Midway(p)
  BY Alone
<1>5. pc[p] \in {"copy", "loadSize", "storeSize"} /\ op' = op /\ serial' = serial
  BY Zenon DEF Copy, LoadSize, StoreSize, At, ghosts
<1>6. /\ meta.size = serial.size /\ SegmentsFor(Required(p)) <= ActiveCount
      /\ op[p].kind \in {"write", "truncate"}
  BY <1>4, <1>5 DEF Midway, WorkerOK, KindFits
<1>7. pc'[p] \in {"copy", "loadSize", "storeSize", "loadPeak"}
  <2>1. \E l \in {"copy", "loadSize", "storeSize", "loadPeak"} : Goto(p, l)
    BY Zenon DEF Copy, LoadSize, StoreSize
  <2> QED BY <1>1, <2>1, Puts
<1>8. Inside(p)'
  BY <1>5, <1>6, <1>7 DEF Inside, At
<1>9. \A q \in Proc : At(q, "clear")' => index'[q] = 0
  BY <1>2, <1>7, ClearsWait
<1>10. Required(p)' = Required(p)
  BY <1>5 DEF Required
<1>11. CASE Copy(p)
  <2>1. /\ At(p, "copy") /\ block' = [block EXCEPT ![index[p]] = op[p].value]
        /\ index'[p] = index[p] + 1 /\ meta' = meta
        /\ pc'[p] = IF index[p] + 1 = Required(p) THEN "loadSize" ELSE "copy"
    BY <1>1, <1>11, Puts, Zenon DEF Copy
  <2>2. op[p].at <= index[p] /\ index[p] < Required(p) /\ op[p].kind = "write"
    BY <2>1 DEF WorkerOK, KindFits, Reached, At
  <2>3. WrittenTo(p) = index[p]
    BY <2>1 DEF WrittenTo
  <2>4. WrittenTo(p)' = index[p] + 1
    BY <1>5, <1>10, <2>1, <2>2 DEF WrittenTo, At
  <2>5. \A b \in 0 .. MaxCap - 1 : block'[b] = IF b = index[p] THEN op[p].value ELSE block[b]
    BY <1>1, <2>1 DEF DataTyped
  <2>6. BlocksIn(block', serial, op[p].at, index[p] + 1, op[p].value)
    <3>1. \A b \in 0 .. MaxCap - 1 :
             block[b] = IF op[p].at <= b /\ b < index[p] THEN op[p].value ELSE Stored(serial, b)
      BY <1>2, <2>3 DEF BlocksIn
    <3>2. ASSUME NEW b \in 0 .. MaxCap - 1
          PROVE  block'[b] = IF op[p].at <= b /\ b < index[p] + 1 THEN op[p].value
                             ELSE Stored(serial, b)
      <4>1. b \in Nat
        BY FileAssumption
      <4>2. b < index[p] + 1 <=> (b < index[p] \/ b = index[p])
        BY <1>2, <4>1
      <4> QED BY <2>2, <2>5, <3>1, <4>2
    <3> QED BY <3>2 DEF BlocksIn
  <2>7. BlocksAre(p)'
    BY <1>5, <2>4, <2>6 DEF BlocksAre
  <2>8. pc'[p] \in {"copy", "loadSize"}
    BY <2>1
  <2>9. Midway(p)'
    BY <1>2, <1>5, <1>6, <1>9, <1>10, <2>1, <2>7, <2>8 DEF Midway, At, ActiveCount
  <2> QED BY <1>2, <1>8, <2>1, <2>9 DEF ActiveCount
<1>12. CASE LoadSize(p)
  <2>1. /\ At(p, "loadSize") /\ block' = block /\ meta' = meta
        /\ pc'[p] = "storeSize" /\ loaded'[p] = SizeAfter(p, meta.size)
    BY <1>1, <1>12, Puts, Zenon DEF LoadSize, Data
  <2>2. op[p].kind = "write"
    BY <2>1 DEF WorkerOK, KindFits, At
  <2>3. WrittenTo(p) = Required(p)
    BY <2>1, <2>2 DEF WrittenTo, At
  <2>4. WrittenTo(p)' = Required(p)
    BY <1>5, <1>10, <2>1, <2>2 DEF WrittenTo, At
  <2>5. BlocksAre(p)'
    BY <1>2, <1>5, <2>1, <2>3, <2>4 DEF BlocksAre
  <2>6. loaded'[p] = Done(op[p], serial).size
    BY <1>3, <1>6, <2>1, <2>2 DEF SizeAfter
  <2>7. Midway(p)'
    BY <1>2, <1>5, <1>6, <1>9, <1>10, <2>1, <2>5, <2>6 DEF Midway, At, ActiveCount
  <2> QED BY <1>2, <1>8, <2>1, <2>7 DEF ActiveCount
<1>13. CASE StoreSize(p)
  <2>1. /\ At(p, "storeSize") /\ block' = block /\ Store("size", loaded[p])
        /\ pc'[p] = "loadPeak"
    BY <1>1, <1>13, Puts, Zenon DEF StoreSize, Data
  <2>2. WrittenTo(p)' = WrittenTo(p)
    BY <1>5, <1>10, <2>1 DEF WrittenTo, At
  <2>3. BlocksAre(p)'
    BY <1>2, <1>5, <2>1, <2>2 DEF BlocksAre
  <2>4. loaded[p] = Done(op[p], serial).size
    BY <1>4, <2>1 DEF Midway
  <2>5. {"lock", "size", "active"} \subseteq Cells
    BY DEF Cells
  <2>6. meta'.lock = p /\ meta'.size = loaded[p] /\ meta'.active = meta.active
    BY <1>1, <1>2, <2>1, <2>5, StoredCell
  <2>7. Done(op[p], serial)' = Done(op[p], serial)
    BY <1>5
  <2>8. Midway(p)'
    BY <1>9, <2>1, <2>3, <2>4, <2>6, <2>7 DEF Midway, At
  <2>9. loaded[p] = meta.size \/ loaded[p] = Required(p)
    BY <1>3, <1>6, <2>4 DEF Larger
  <2>10. SegmentsFor(loaded[p]) <= ActiveCount
    BY <1>2, <1>6, <2>9
  <2> QED BY <1>8, <2>6, <2>8, <2>10 DEF ActiveCount
<1> QED BY <1>11, <1>12, <1>13

\* The cells that only count, and the segments that a truncation gives up.
LEMMA CountersMidway ==
  ASSUME TypeOK, SerialInv, ~disturbed, NEW p \in Proc, WorkerOK(p), Inside(p), Step(p),
         LoadPeak(p) \/ CasPeak(p) \/ Shrink(p) \/ LoadWritten(p) \/ CasWritten(p)
  PROVE  Inside(p)' /\ Midway(p)' /\ SegmentsFor(meta.size)' <= ActiveCount'
<1>1. WorkersTyped /\ CellsTyped
  BY TypeParts
<1>2. /\ op[p].at \in Nat /\ Required(p) = op[p].at + op[p].len
      /\ meta.size \in Nat /\ meta.lock = p
      /\ SegmentsFor(meta.size) <= ActiveCount
      /\ BlocksIn(block, serial, op[p].at, WrittenTo(p), op[p].value)
      /\ \A q \in Proc : At(q, "clear") => index[q] = 0
  BY InsideHas
<1>3. Midway(p)
  BY Alone
<1>4. /\ pc[p] \in {"loadPeak", "casPeak", "shrink", "loadWritten", "casWritten"}
      /\ op' = op /\ serial' = serial /\ block' = block
  BY Zenon DEF LoadPeak, CasPeak, Shrink, LoadWritten, CasWritten, At, ghosts, Data
<1>5. meta.size = Done(op[p], serial).size /\ op[p].kind \in {"write", "truncate"}
  BY <1>3, <1>4 DEF Midway, WorkerOK, KindFits, At
<1>6. pc'[p] \in {"casPeak", "shrink", "loadWritten", "casWritten", "release"}
  <2>1. \E l \in {"casPeak", "shrink", "loadWritten", "casWritten", "release"} : Goto(p, l)
    BY Zenon DEF LoadPeak, CasPeak, Shrink, LoadWritten, CasWritten, AfterPeak
  <2> QED BY <1>1, <2>1, Puts
<1>7. Inside(p)'
  BY <1>4, <1>5, <1>6 DEF Inside, At
<1>8. \A q \in Proc : At(q, "clear")' => index'[q] = 0
  BY <1>2, <1>6, ClearsWait
<1>9. WrittenTo(p)' = WrittenTo(p)
  BY <1>4, <1>6 DEF WrittenTo, At, Required
<1>10. BlocksAre(p)'
  BY <1>2, <1>4, <1>9 DEF BlocksAre
<1>11. {"lock", "size", "active"} \subseteq Cells
  BY DEF Cells
<1>12. meta'.lock = meta.lock /\ meta'.size = meta.size
  <2>1. UNCHANGED meta \/ \E c \in Cells : \E v : c \notin {"lock", "size"} /\ Store(c, v)
    <3>1. "peak" \in Cells /\ "written" \in Cells /\ "peak" \notin {"lock", "size"}
          /\ "written" \notin {"lock", "size"} /\ "active" \notin {"lock", "size"}
      BY DEF Cells
    <3> QED BY <1>11, <3>1, Zenon DEF LoadPeak, CasPeak, Shrink, LoadWritten, CasWritten,
               CompareAndSet
  <2> QED BY <1>1, <1>11, <2>1, StoredCell
<1>13. Done(op[p], serial)' = Done(op[p], serial)
  BY <1>4
<1>14. Midway(p)'
  BY <1>2, <1>5, <1>6, <1>8, <1>10, <1>12, <1>13 DEF Midway, At
<1>15. SegmentsFor(meta'.size) <= ActiveCount'
  <2>1. CASE Shrink(p)
    <3>1. At(p, "shrink") /\ Store("active", SegmentsFor(op[p].at))
      BY <2>1 DEF Shrink
    <3>2. meta'.active = SegmentsFor(op[p].at)
      BY <1>1, <1>11, <3>1, StoredCell
    <3>3. op[p].kind = "truncate"
      BY <3>1 DEF WorkerOK, KindFits
    <3>4. IsDone(Done(op[p], serial), serial, op[p])
      BY InsideHas, Zenon
    <3>5. Done(op[p], serial).size = op[p].at
      BY <3>3, <3>4, DoneSizes, Zenon
    <3>6. SegmentsFor(op[p].at) \in Nat \ {0}
      BY <1>2, SegmentsFacts
    <3> QED BY <1>5, <1>12, <3>2, <3>5, <3>6 DEF ActiveCount, Larger
  <2>2. CASE ~Shrink(p)
    <3>1. UNCHANGED meta \/ \E c \in Cells : \E v : c # "active" /\ Store(c, v)
      <4>1. "peak" \in Cells /\ "written" \in Cells /\ "peak" # "active" /\ "written" # "active"
        BY DEF Cells
      <4> QED BY <2>2, <4>1, Zenon DEF LoadPeak, CasPeak, LoadWritten, CasWritten, CompareAndSet
    <3>2. meta'.active = meta.active
      BY <1>1, <1>11, <3>1, StoredCell
    <3> QED BY <1>2, <1>12, <3>2 DEF ActiveCount
  <2> QED BY <2>1, <2>2
<1> QED BY <1>7, <1>14, <1>15

\* A step inside an operation keeps the others out.
LEMMA InsideStep ==
  ASSUME TypeOK, SerialInv, ~disturbed, NEW p \in Proc, WorkerOK(p), Inside(p), Step(p),
         ~Release(p), ~Revoke(p)
  PROVE  SerialInv'
<1>1. pc[p] \in {"ensure", "grow", "extend", "copy", "loadSize", "storeSize", "loadPeak",
                 "casPeak", "shrink", "loadWritten", "casWritten", "release"}
  BY InsideFacts
<1>2. ~Begin(p) /\ ~Acquire(p) /\ ~ReadSize(p) /\ ~ReadBlock(p) /\ ~JDelete(p)
  BY <1>1 DEF Begin, Start, Idle, Acquire, ReadSize, ReadBlock, JDelete, At
<1>3. \/ EnsureCapacity(p) \/ GrowSegment(p) \/ ExtendSegment(p) \/ Activate(p)
      \/ Copy(p) \/ LoadSize(p) \/ StoreSize(p)
      \/ LoadPeak(p) \/ CasPeak(p) \/ Shrink(p) \/ LoadWritten(p) \/ CasWritten(p)
  BY <1>2, Zenon DEF Step
<1>4. Inside(p)' /\ Midway(p)' /\ SegmentsFor(meta.size)' <= ActiveCount'
  BY <1>3, GrowMidway, StoreMidway, CountersMidway, Zenon
<1>5. FileOK(serial)'
  <2>1. serial' = serial
    BY <1>3, Zenon DEF EnsureCapacity, GrowSegment, ExtendSegment, Activate, Copy, LoadSize,
       StoreSize, LoadPeak, CasPeak, Shrink, LoadWritten, CasWritten, ghosts
  <2>2. FileOK(serial)
    BY DEF SerialInv
  <2> QED BY <2>1, <2>2
<1>6. \A q \in Proc : q # p => ~Inside(q)'
  BY Alone, InsideStays
<1>7. ~Cleared'
  <2>1. Midway(p)' => \A q \in Proc : At(q, "clear")' => index'[q] = 0
    BY DEF Midway
  <2> QED BY <1>4, <2>1 DEF Cleared
<1> QED BY <1>4, <1>5, <1>6, <1>7, Zenon DEF SerialInv

\* Operations that begin, and reads, change nothing that the others see.
LEMMA AsideStep ==
  ASSUME TypeOK, SerialInv, ~disturbed, NEW p \in Proc, WorkerOK(p), Step(p),
         Begin(p) \/ ReadSize(p) \/ ReadBlock(p)
  PROVE  SerialInv'
<1>1. WorkersTyped
  BY TypeParts
<1>2. /\ meta' = meta /\ block' = block /\ serial' = serial
      /\ disturbed' = disturbed
  BY Zenon DEF Begin, Start, ReadSize, ReadBlock, Data, ghosts
<1>3. ~Inside(p) /\ ~At(p, "clear")
  BY InsideFacts DEF Begin, Start, Idle, ReadSize, ReadBlock, At
<1>4. ~Inside(p)' /\ (At(p, "clear")' => index'[p] = 0)
  <2>1. CASE Begin(p)
    <3>1. At(p, "idle") /\ index' = index
      BY <2>1, Zenon DEF Begin, Start, Idle
    <3>2. index[p] = 0
      BY <3>1 DEF WorkerOK, KindFits
    <3>3. ASSUME NEW o, NEW l, Start(p, o, l)
          PROVE  pc'[p] = l /\ op'[p] = o
      BY <1>1, <3>3, Puts, Zenon DEF Start
    <3>4. \/ pc'[p] = "lock"
          \/ pc'[p] = "readSize" /\ \E at : op'[p] = Op("read", at, 1, 0)
          \/ pc'[p] = "clear" /\ op'[p] = Op("delete", 0, 0, 0)
      BY <2>1, <3>3, Zenon DEF Begin
    <3>5. ASSUME NEW at, op'[p] = Op("read", at, 1, 0)
          PROVE  op'[p].kind = "read"
      BY <3>5 DEF Op
    <3>6. op'[p] = Op("delete", 0, 0, 0) => op'[p].kind = "delete"
      BY DEF Op
    <3>7. \/ pc'[p] = "lock"
          \/ pc'[p] = "readSize" /\ op'[p].kind = "read"
          \/ pc'[p] = "clear" /\ op'[p].kind = "delete"
      BY <3>4, <3>5, <3>6, Zenon
    <3> QED BY <3>1, <3>2, <3>7 DEF Inside, At
  <2>2. CASE Finish(p)
    <3>1. pc'[p] = "idle" /\ op'[p] = NoOp
      BY <1>1, <2>2, Puts, Zenon DEF Finish
    <3> QED BY <3>1 DEF Inside, At, NoOp
  <2>3. CASE ReadSize(p) /\ Goto(p, "readBlock") /\ op' = op
    <3>1. pc'[p] = "readBlock" /\ At(p, "readSize")
      BY <1>1, <2>3, Puts, Zenon DEF ReadSize
    <3>2. op'[p].kind = "read"
      BY <2>3, <3>1 DEF WorkerOK, KindFits, At
    <3> QED BY <3>1, <3>2 DEF Inside, At
  <2> QED BY <2>1, <2>2, <2>3, Zenon DEF ReadSize, ReadBlock
<1>5. \A q \in Proc : Inside(q)' <=> Inside(q)
  BY <1>3, <1>4, InsideStays
<1>6. Cleared' <=> Cleared
  <2>1. \A q \in Proc : q # p => (At(q, "clear")' <=> At(q, "clear")) /\ index'[q] = index[q]
    BY OthersStay DEF At
  <2> QED BY <1>3, <1>4, <2>1 DEF Cleared
<1>7. ASSUME NEW q \in Proc, Inside(q)
      PROVE  Midway(q)'
  <2>1. q # p /\ Midway(q)
    BY <1>3, <1>7 DEF SerialInv
  <2>2. pc'[q] = pc[q] /\ op'[q] = op[q] /\ index'[q] = index[q] /\ loaded'[q] = loaded[q]
    BY <2>1, OthersStay
  <2>3. \A r \in Proc : At(r, "clear")' => index'[r] = 0
    <3>1. \A r \in Proc : At(r, "clear") => index[r] = 0
      BY <2>1 DEF Midway
    <3>2. \A r \in Proc : r # p => (At(r, "clear")' <=> At(r, "clear")) /\ index'[r] = index[r]
      BY OthersStay DEF At
    <3> QED BY <1>4, <3>1, <3>2
  <2>4. WrittenTo(q)' = WrittenTo(q) /\ Required(q)' = Required(q)
    BY <2>2 DEF WrittenTo, At, Required
  <2>5. BlocksAre(q)'
    BY <1>2, <2>1, <2>2, <2>4 DEF Midway, BlocksAre
  <2>6. Done(op[q], serial)' = Done(op[q], serial)
    BY <1>2, <2>2
  <2> QED BY <1>2, <2>1, <2>2, <2>3, <2>4, <2>5, <2>6 DEF Midway, At, ActiveCount
<1>8. Between => Between'
  BY <1>2, <1>6 DEF Between
<1>9. FileOK(serial)' <=> FileOK(serial)
  BY <1>2
<1>10. SegmentsFor(meta.size)' = SegmentsFor(meta.size) /\ ActiveCount' = ActiveCount
       /\ meta'.size = meta.size
  BY <1>2 DEF ActiveCount
<1> QED BY <1>2, <1>5, <1>6, <1>7, <1>8, <1>9, <1>10, Zenon DEF SerialInv

\* The lock is free only between operations.
LEMMA AcquireStep ==
  ASSUME TypeOK, SerialInv, ~disturbed, NEW p \in Proc, WorkerOK(p), Step(p), Acquire(p),
         ~disturbed'
  PROVE  SerialInv'
<1>1. WorkersTyped /\ CellsTyped
  BY TypeParts
<1>2. /\ At(p, "lock") /\ meta.lock = 0 /\ Store("lock", p) /\ op' = op /\ block' = block
      /\ pc'[p] = "ensure" /\ serial' = serial /\ ~(\E q \in Proc : At(q, "clear"))
  BY <1>1, Puts, Zenon DEF Acquire, Overlap, Data
<1>3. \A q \in Proc : ~Inside(q)
  <2>1. \A q \in Proc : Inside(q) => meta.lock = q
    BY DEF SerialInv, Midway
  <2>2. 0 \notin Proc
    BY FileAssumption
  <2> QED BY <1>2, <2>1, <2>2
<1>4. Between /\ ~Cleared /\ FileOK(serial) /\ SegmentsFor(meta.size) <= ActiveCount
  BY <1>2, <1>3 DEF SerialInv, Cleared
<1>5. BlocksIn(block, serial, 0, 0, 0) /\ meta.size = serial.size
  BY <1>4 DEF Between
<1>6. op[p].kind \in {"write", "truncate"} /\ op[p].at \in Nat
  BY <1>1, <1>2, OpTyped, FileAssumption DEF WorkerOK, KindFits, At
<1>7. {"lock", "size", "active"} \subseteq Cells
  BY DEF Cells
<1>8. meta'.lock = p /\ meta'.size = meta.size /\ meta'.active = meta.active
  BY <1>1, <1>2, <1>7, StoredCell
<1>9. WrittenTo(p)' = op[p].at
  BY <1>2 DEF WrittenTo, At
<1>10. BlocksAre(p)'
  <2>1. BlocksIn(block, serial, op[p].at, op[p].at, op[p].value)
    BY <1>5, <1>6, NoneStored
  <2> QED BY <1>2, <1>9, <2>1 DEF BlocksAre
<1>11. \A q \in Proc : ~At(q, "clear")'
  BY <1>2, OthersStay DEF At
<1>12. Midway(p)'
  BY <1>2, <1>5, <1>8, <1>10, <1>11 DEF Midway, At
<1>13. Inside(p)' /\ \A q \in Proc : q # p => ~Inside(q)'
  <2>1. Inside(p)'
    BY <1>2, <1>6 DEF Inside, At
  <2> QED BY <1>3, <2>1, InsideStays
<1>14. ~Cleared'
  BY <1>11 DEF Cleared
<1>15. FileOK(serial)' /\ SegmentsFor(meta.size)' <= ActiveCount'
  BY <1>2, <1>4, <1>8 DEF ActiveCount
<1> QED BY <1>12, <1>13, <1>14, <1>15, Zenon DEF SerialInv

\* With the release, the operation becomes part of the history.
LEMMA ReleaseStep ==
  ASSUME TypeOK, SerialInv, ~disturbed, NEW p \in Proc, WorkerOK(p), Step(p), Release(p),
         ~disturbed'
  PROVE  SerialInv'
<1>1. WorkersTyped /\ CellsTyped
  BY TypeParts
<1>2. /\ At(p, "release") /\ block' = block /\ pc'[p] = "idle" /\ op'[p] = NoOp
      /\ serial' = Done(op[p], serial) /\ (Store("lock", 0) \/ UNCHANGED meta)
  BY <1>1, Puts, Zenon DEF Release, Overlap, Finish, Data
<1>3. Inside(p)
  BY <1>2 DEF Inside
<1>4. /\ op[p].at \in Nat /\ Required(p) = op[p].at + op[p].len /\ op[p].len \in Nat
      /\ SegmentsFor(meta.size) <= ActiveCount
      /\ BlocksIn(block, serial, op[p].at, WrittenTo(p), op[p].value)
      /\ \A q \in Proc : At(q, "clear") => index[q] = 0
  BY <1>3, InsideHas
<1>5. meta.size = Done(op[p], serial).size
  BY <1>2, <1>3, Alone DEF Midway, At
<1> DEFINE g == Done(op[p], serial)
<1>6. IsDone(g, serial, op[p])
  BY <1>3, InsideHas, Zenon
<1> HIDE DEF g
<1>7. FileOK(g)
  BY <1>6 DEF IsDone
<1>8. WrittenTo(p) = IF op[p].kind = "write" THEN op[p].at + op[p].len ELSE op[p].at
  BY <1>2, <1>4 DEF WrittenTo, At
<1>9. BlocksIn(block, g, 0, 0, 0)
  <2>1. \A b \in 0 .. MaxCap - 1 :
           block[b] = IF op[p].at <= b /\ b < WrittenTo(p) THEN op[p].value ELSE Stored(serial, b)
    BY <1>4 DEF BlocksIn
  <2>2. ASSUME NEW b \in 0 .. MaxCap - 1
        PROVE  block[b] = Stored(g, b)
    <3>1. b \in Nat
      BY FileAssumption
    <3>2. Stored(g, b) = IF op[p].kind = "write" /\ op[p].at <= b /\ b < op[p].at + op[p].len
                         THEN op[p].value ELSE Stored(serial, b)
      BY <1>6, <3>1 DEF IsDone
    <3> QED BY <1>4, <1>8, <2>1, <3>1, <3>2
  <2> QED BY <2>2 DEF BlocksIn
<1>10. {"lock", "size", "active"} \subseteq Cells
  BY DEF Cells
<1>11. meta'.size = meta.size /\ meta'.active = meta.active
  BY <1>1, <1>2, <1>10, StoredCell
<1>12. \A q \in Proc : ~Inside(q)'
  <2>1. ~Inside(p)'
    BY <1>2 DEF Inside, At, NoOp
  <2> QED BY <1>3, <2>1, Alone, InsideStays
<1>13. ~Cleared'
  BY <1>2, <1>4, ClearsWait
<1>14. serial' = g
  BY <1>2 DEF g
<1>15. Between'
  BY <1>2, <1>5, <1>9, <1>11, <1>14 DEF Between, g
<1>16. FileOK(serial)' /\ SegmentsFor(meta.size)' <= ActiveCount'
  BY <1>4, <1>7, <1>11, <1>14 DEF ActiveCount
<1> QED BY <1>12, <1>13, <1>15, <1>16, Zenon DEF SerialInv

\* A delete that meets no writer leaves the file empty.
LEMMA DeleteStep ==
  ASSUME TypeOK, SerialInv, ~disturbed, NEW p \in Proc, WorkerOK(p), Step(p), JDelete(p),
         ~disturbed'
  PROVE  SerialInv'
<1>1. WorkersTyped /\ CellsTyped /\ DataTyped /\ TypeOK
  BY TypeParts
<1> DEFINE cell == Clearing[index[p] + 1][1]
           v == Clearing[index[p] + 1][2]
<1>2. /\ At(p, "clear") /\ block' = block /\ Store(cell, v) /\ \A q \in Proc : ~Inside(q)
      /\ serial' = IF index[p] = 7 THEN Truncated(serial, 0) ELSE serial
  BY Zenon DEF JDelete, Overlap, Data
<1>3. index[p] \in 0 .. 7 /\ index[p] \in Nat
  BY <1>1, <1>2, OpTyped DEF WorkerOK, KindFits
<1>4. /\ cell \in Cells /\ v \in {0, 1} /\ (cell = "active" \/ v = 0)
      /\ index[p] = 1 => cell = "size"
      /\ index[p] \in {0, 7} => cell = "lock"
      /\ index[p] = 0 \/ index[p] = 1 \/ index[p] >= 2
  BY <1>3, ClearingFacts DEF Clearing
<1> HIDE DEF cell, v
<1>5. Between /\ FileOK(serial) /\ SegmentsFor(meta.size) <= ActiveCount
      /\ (Cleared => meta.size = 0)
  BY <1>2 DEF SerialInv
<1>6. \A d \in Cells : meta'[d] = IF d = cell THEN v ELSE meta[d]
  BY <1>1, <1>2, <1>4, StoredCell
<1>7. {"lock", "size", "active"} \subseteq Cells
  BY DEF Cells
<1>8. index[p] >= 2 => Cleared
  BY <1>2 DEF Cleared
<1>9. meta'.size = meta.size \/ meta'.size = 0
  BY <1>4, <1>6, <1>7
<1>10. index[p] >= 1 => meta'.size = 0
  <2>1. CASE index[p] = 1
    BY <1>4, <1>6, <1>7, <2>1
  <2>2. CASE index[p] >= 2
    BY <1>5, <1>8, <1>9, <2>2
  <2> QED BY <1>3, <2>1, <2>2
<1>11. \/ index[p] = 7 /\ Finish(p)
       \/ /\ index[p] # 7 /\ index' = [index EXCEPT ![p] = @ + 1] /\ pc' = pc /\ op' = op
  BY Zenon DEF JDelete
<1>12. \A q \in Proc : ~Inside(q)'
  <2>1. ~Inside(p)'
    <3>1. CASE Finish(p)
      <4>1. pc'[p] = "idle" /\ op'[p] = NoOp
        BY <1>1, <3>1, Puts, Zenon DEF Finish
      <4> QED BY <4>1 DEF Inside, At, NoOp
    <3>2. CASE pc' = pc /\ op' = op
      BY <1>2, <3>2 DEF Inside, At
    <3> QED BY <1>11, <3>1, <3>2
  <2> QED BY <1>2, <2>1, InsideStays
<1>13. FileOK(serial)'
  BY <1>2, <1>5, TruncatedFacts
<1>14. SegmentsFor(meta'.size) <= ActiveCount'
  <2>1. CASE index[p] = 0
    <3>1. meta'.size = meta.size /\ meta'.active = meta.active
      BY <1>4, <1>6, <1>7, <2>1
    <3> QED BY <1>5, <3>1 DEF ActiveCount
  <2>2. CASE index[p] >= 1
    <3>1. meta.active \in Nat
      BY <1>1, <1>7 DEF CellsTyped
    <3>2. meta'.active \in Nat
      BY <1>4, <1>6, <1>7, <3>1
    <3>3. ActiveCount' \in Nat \ {0}
      BY <3>2 DEF ActiveCount, Larger
    <3>4. SegmentsFor(0) <= ActiveCount'
      <4>1. ASSUME NEW k \in Nat \ {0}
            PROVE  SegmentsFor(0) <= k
        <5>1. 0 <= k * SegCap
          BY FileAssumption
        <5> QED BY <5>1, SegmentsLeast
      <4> QED BY <3>3, <4>1
    <3> QED BY <1>10, <2>2, <3>4
  <2> QED BY <1>3, <2>1, <2>2
<1>15. Cleared' => meta'.size = 0
  <2>1. ASSUME NEW q \in Proc, At(q, "clear")', index'[q] >= 2
        PROVE  meta'.size = 0
    <3>1. CASE q = p
      <4>1. pc'[p] = "clear"
        BY <2>1, <3>1 DEF At
      <4>2. ~Finish(p)
        BY <1>1, <4>1, Puts, Zenon DEF Finish
      <4>3. index'[p] = index[p] + 1
        BY <1>1, <1>11, <4>2, Puts
      <4> QED BY <1>3, <1>10, <2>1, <3>1, <4>3
    <3>2. CASE q # p
      <4>1. At(q, "clear") /\ index[q] >= 2
        BY <2>1, <3>2, OthersStay DEF At
      <4>2. Cleared
        BY <4>1 DEF Cleared
      <4> QED BY <1>5, <1>9, <4>2
    <3> QED BY <3>1, <3>2
  <2> QED BY <2>1 DEF Cleared
<1>16. Between'
  <2>1. BlocksIn(block, serial, 0, 0, 0) /\ (meta.size = serial.size \/ Cleared)
    BY <1>5 DEF Between
  <2>2. CASE index[p] = 7
    <3>1. serial' = Truncated(serial, 0)
      BY <1>2, <2>2
    <3>2. /\ Truncated(serial, 0).size = 0
          /\ \A b \in Nat : Stored(Truncated(serial, 0), b) = Stored(serial, b)
      BY <1>5, TruncatedFacts
    <3>3. \A b \in 0 .. MaxCap - 1 : b \in Nat
      BY FileAssumption
    <3>4. BlocksIn(block', serial', 0, 0, 0)
      BY <1>2, <2>1, <3>1, <3>2, <3>3, Zenon DEF BlocksIn
    <3>5. meta'.size = 0
      BY <1>10, <2>2
    <3> QED BY <3>1, <3>2, <3>4, <3>5 DEF Between
  <2>3. CASE index[p] # 7
    <3>1. serial' = serial /\ pc' = pc /\ index'[p] = index[p] + 1
      BY <1>1, <1>2, <1>11, <2>3, Puts
    <3>2. CASE index[p] = 0
      <4>1. meta'.size = meta.size
        BY <1>4, <1>6, <1>7, <3>2
      <4>2. Cleared => Cleared'
        <5>1. ASSUME NEW q \in Proc, At(q, "clear"), index[q] >= 2
              PROVE  At(q, "clear")' /\ index'[q] >= 2
          <6>1. q # p
            BY <3>2, <5>1
          <6> QED BY <3>1, <5>1, <6>1, OthersStay DEF At
        <5> QED BY <5>1 DEF Cleared
      <4> QED BY <1>2, <2>1, <3>1, <4>1, <4>2 DEF Between
    <3>3. CASE index[p] >= 1
      <4>1. At(p, "clear")' /\ index'[p] >= 2
        BY <1>2, <1>3, <3>1, <3>3 DEF At
      <4>2. Cleared'
        BY <4>1 DEF Cleared
      <4> QED BY <1>2, <2>1, <3>1, <4>2 DEF Between
    <3> QED BY <1>3, <3>2, <3>3
  <2> QED BY <2>2, <2>3
<1> QED BY <1>12, <1>13, <1>14, <1>15, <1>16, Zenon DEF SerialInv

\* The file as it was loaded, beside its history.
LEMMA InitSerial == Init => SerialInv
<1> SUFFICES ASSUME Init
             PROVE  SerialInv
  OBVIOUS
<1> DEFINE g == Written(EmptyFile, 0, Size0, 1)
<1>1. Size0 \in Nat /\ Size0 <= SegCap /\ MaxCap \in Nat /\ SegCap \in Nat \ {0}
  BY FileAssumption
<1>2. FileOK(EmptyFile) /\ EmptyFile.size = 0 /\ \A b \in Nat : Stored(EmptyFile, b) = 0
  BY DEF FileOK, EmptyFile, Stored
<1>3. IsWritten(g, EmptyFile, 0, Size0, 1)
  BY <1>1, <1>2, WrittenFacts
<1>4. serial = g
  BY DEF Init
<1> HIDE DEF g
<1>5. FileOK(g) /\ g.size = Size0
      /\ \A b \in Nat : Stored(g, b) = IF b < Size0 THEN 1 ELSE 0
  BY <1>1, <1>2, <1>3 DEF IsWritten, Larger
<1>6. BlocksIn(block, serial, 0, 0, 0)
  BY <1>1, <1>4, <1>5 DEF Init, BlocksIn
<1>7. meta.size = Size0 /\ ActiveCount = 1
  BY DEF Init, Cells, ActiveCount, Larger
<1>8. SegmentsFor(meta.size) <= ActiveCount
  BY <1>1, <1>7, SegmentsLeast
<1>9. \A p \in Proc : ~Inside(p) /\ ~At(p, "clear")
  BY DEF Init, Inside, At, NoOp
<1> QED BY <1>4, <1>5, <1>6, <1>7, <1>8, <1>9 DEF SerialInv, Between, Cleared

\* A disturbance is not forgotten.
LEMMA StaysDisturbed ==
  ASSUME NEW p \in Proc, Step(p), disturbed \in BOOLEAN, disturbed
  PROVE  disturbed'
BY Zenon DEF Step, Begin, Start, Acquire, Release, Revoke, Overlap, EnsureCapacity, GrowSegment,
   ExtendSegment, Activate, Copy, LoadSize, StoreSize, LoadPeak, CasPeak, Shrink, LoadWritten,
   CasWritten, ReadSize, ReadBlock, JDelete, ghosts

\* As long as nothing disturbs the operations, every step keeps the file and
\* its history together.
LEMMA SerialKept ==
  FileInv /\ SerialInv /\ [Next]_vars => SerialInv'
<1> SUFFICES ASSUME FileInv, SerialInv, [Next]_vars
             PROVE  SerialInv'
  OBVIOUS
<1>1. CASE UNCHANGED vars
  BY <1>1 DEF vars, SerialInv, FileOK, ActiveCount, Cleared, Between, Inside, Midway, BlocksAre,
     WrittenTo, Required, At
<1>2. ASSUME NEW p \in Proc, Step(p)
      PROVE  SerialInv'
  <2>1. TypeOK /\ WorkerOK(p) /\ disturbed \in BOOLEAN
    BY DEF FileInv, TypeOK
  <2>2. CASE disturbed'
    BY <2>2 DEF SerialInv
  <2>3. CASE ~disturbed'
    <3>1. ~disturbed
      BY <1>2, <2>1, <2>3, StaysDisturbed
    <3>2. ~Revoke(p)
      BY <2>3 DEF Revoke, Overlap
    <3>3. CASE Release(p)
      BY <1>2, <2>1, <2>3, <3>1, <3>3, ReleaseStep
    <3>4. CASE Inside(p) /\ ~Release(p)
      BY <1>2, <2>1, <3>1, <3>2, <3>4, InsideStep
    <3>5. CASE Acquire(p)
      BY <1>2, <2>1, <2>3, <3>1, <3>5, AcquireStep
    <3>6. CASE Begin(p) \/ ReadSize(p) \/ ReadBlock(p)
      BY <1>2, <2>1, <3>1, <3>6, AsideStep
    <3>7. CASE JDelete(p)
      BY <1>2, <2>1, <2>3, <3>1, <3>7, DeleteStep
    <3>8. ASSUME ~Inside(p)
          PROVE  Begin(p) \/ Acquire(p) \/ ReadSize(p) \/ ReadBlock(p) \/ JDelete(p)
      <4>1. pc[p] \notin {"ensure", "grow", "extend", "copy", "loadSize", "storeSize",
                          "loadPeak", "casPeak", "shrink", "loadWritten", "casWritten",
                          "release"}
        BY <2>1, <3>8, InsideFacts
      <4>2. /\ ~EnsureCapacity(p) /\ ~GrowSegment(p) /\ ~ExtendSegment(p) /\ ~Activate(p)
            /\ ~Copy(p) /\ ~LoadSize(p) /\ ~StoreSize(p) /\ ~LoadPeak(p) /\ ~CasPeak(p)
            /\ ~Shrink(p) /\ ~LoadWritten(p) /\ ~CasWritten(p) /\ ~Release(p)
        BY <4>1 DEF EnsureCapacity, GrowSegment, ExtendSegment, Activate, Copy, LoadSize,
           StoreSize, LoadPeak, CasPeak, Shrink, LoadWritten, CasWritten, Release, At
      <4> QED BY <1>2, <3>2, <4>2, Zenon DEF Step
    <3> QED BY <3>3, <3>4, <3>5, <3>6, <3>7, <3>8, Zenon
  <2> QED BY <2>2, <2>3
<1> QED BY <1>1, <1>2 DEF Next

\* At rest, a file that agrees with its history shows it.
LEMMA SerialShows ==
  FileInv /\ SerialInv => SerialWhenUndisturbed
<1> SUFFICES ASSUME FileInv, SerialInv, Quiet, ~disturbed
             PROVE  /\ meta.size = serial.size
                    /\ \A b \in 0 .. meta.size - 1 : Read(serial, b, 1) = <<block[b]>>
                    /\ meta.size <= ActiveCapacity
  BY DEF SerialWhenUndisturbed
<1>1. /\ \A p \in Proc : ~Inside(p) /\ ~At(p, "clear")
      /\ TypeOK /\ BackedIn(alloc, meta.size) /\ meta.size \in Nat /\ meta.size <= MaxCap
  BY DEF Quiet, FileInv, Backed, TypeOK, Cells
<1>2. FileOK(serial) /\ SegmentsFor(meta.size) <= ActiveCount /\ Between /\ ~Cleared
  BY <1>1 DEF SerialInv, Cleared
<1>3. meta.size = serial.size /\ BlocksIn(block, serial, 0, 0, 0)
  BY <1>2 DEF Between
<1>4. meta.size <= ActiveCapacity
  BY <1>1, <1>2, CapacityReaches
<1>5. ASSUME NEW b \in 0 .. meta.size - 1
      PROVE  Read(serial, b, 1) = <<block[b]>>
  <2>1. b \in 0 .. MaxCap - 1 /\ ~(b < 0)
    BY <1>1, FileAssumption
  <2>2. block[b] = Stored(serial, b)
    BY <1>3, <2>1 DEF BlocksIn
  <2>3. Read(serial, b, 1) = <<Stored(serial, b)>>
    BY <1>2, <1>3, ReadFacts
  <2> QED BY <2>2, <2>3
<1> QED BY <1>3, <1>4, <1>5

\* As long as no lock was taken away and no delete met a writer, growth over
\* segments, refused operations and sizes come out as on a LocalFile.
THEOREM FileIsSerial == Spec => []SerialWhenUndisturbed
BY InitSerial, SerialKept, SerialShows, FileInvariant, PTL DEF Spec
=============================================================================
