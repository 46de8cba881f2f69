----------------------------- MODULE SharedFile -----------------------------
(***************************************************************************)
(* A file of the shared runtime: a catalog of segments that grow, and a    *)
(* few shared cells (src/src/memoryWriteAheadSharedRuntime.ts).  Workers   *)
(* write and truncate it under its lock, read it without a lock, and clear *)
(* it without a lock (jDelete in src/src/MemoryWriteAheadVFS.ts).          *)
(*                                                                         *)
(* The lock is that of FileLock, reduced to its promise (RevocableLock):   *)
(* a holder that pauses for too long may lose it and not know.  One step   *)
(* is one access to a cell, to a segment, or to one block.                 *)
(***************************************************************************)
EXTENDS LocalFile, FiniteSets

CONSTANTS
    Proc,           \* the workers, positive numbers
    Writer,         \* those that write and truncate
    Reader,         \* those that read
    Deleter,        \* those that delete the file
    Revocable,      \* those that may be taken the lock from
    SegCap,         \* segmentCapacityBytes, in blocks
    MaxCap,         \* maxCapacityBytes, in blocks
    MaxCounter,     \* MAX_INT32_ATOMIC_COUNTER
    MaxOps,         \* bound on the operations of a behaviour
    Size0           \* the size a behaviour starts with, within segment 0

ASSUME FileAssumption ==
    /\ Proc \subseteq Nat \ {0}
    /\ Writer \cup Reader \cup Deleter \cup Revocable \subseteq Proc
    /\ SegCap \in Nat \ {0} /\ MaxCap \in Nat \ {0} /\ SegCap <= MaxCap
    /\ MaxCounter \in Nat \ {0} /\ MaxOps \in Nat /\ Size0 \in 0 .. SegCap

Smaller(m, n) == IF m < n THEN m ELSE n
SegmentsFor(n) == Larger(1, (n + SegCap - 1) \div SegCap)

Segments == 0 .. SegmentsFor(MaxCap) - 1
SegMax(s) == Smaller(SegCap, MaxCap - s * SegCap)    \* createSharedFile
Cells == {"lock", "size", "active", "peak", "written"}

VARIABLES
    meta,           \* the cells
    alloc,          \* the length of the data of each segment
    block,          \* the blocks, of all segments
    pc, op,         \* where a worker stands, in which operation
    index,          \* its loop variable: a segment, a block, a cell
    loaded,         \* what it loaded from a cell
    (* history *)
    ops,            \* operations begun
    written,        \* blocks written, as often as a worker counted them
    serial,         \* the LocalFile after the operations that were done
    disturbed       \* a lock was taken from a worker, or the file was cleared
                    \* beside one: the operations were not one after another

vars == <<meta, alloc, block, pc, op, index, loaded, ops, written, serial, disturbed>>
ghosts == <<ops, written, serial, disturbed>>

NoOp == [kind |-> "none", at |-> 0, len |-> 0, value |-> 0]
Op(kind, at, len, v) == [kind |-> kind, at |-> at, len |-> len, value |-> v]
Required(p) == op[p].at + op[p].len

TypeOK ==
    /\ meta \in [Cells -> Nat] /\ meta.lock \in {0} \cup Proc /\ meta.size <= MaxCap
    /\ meta.active <= Cardinality(Segments)
    /\ meta.peak <= MaxCap /\ meta.written <= MaxCounter
    /\ alloc \in [Segments -> Nat] /\ \A s \in Segments : alloc[s] <= SegMax(s)
    /\ block \in [0 .. MaxCap - 1 -> 0 .. MaxOps + 1]
    /\ pc \in [Proc -> {"idle", "lock", "ensure", "grow", "extend", "copy", "loadSize",
                        "storeSize", "loadPeak", "casPeak", "shrink", "loadWritten",
                        "casWritten", "release", "readSize", "readBlock", "clear"}]
    /\ op \in [Proc -> [kind : {"none", "write", "truncate", "read", "delete"},
                        at : 0 .. MaxCap, len : 0 .. SegCap, value : 0 .. MaxOps + 1]]
    /\ index \in [Proc -> Nat] /\ loaded \in [Proc -> Nat]
    /\ ops \in 0 .. MaxOps /\ written \in Nat
    /\ serial.size \in 0 .. MaxCap /\ disturbed \in BOOLEAN

\* The file as it was loaded: blocks of value 1 in its first segment.
Init ==
    /\ meta = [c \in Cells |-> IF c \in {"size", "peak"} THEN Size0
                               ELSE IF c = "active" THEN 1 ELSE 0]
    /\ alloc = [s \in Segments |-> IF s = 0 THEN SegMax(0) ELSE 0]
    /\ block = [b \in 0 .. MaxCap - 1 |-> IF b < Size0 THEN 1 ELSE 0]
    /\ pc = [p \in Proc |-> "idle"] /\ op = [p \in Proc |-> NoOp]
    /\ index = [p \in Proc |-> 0] /\ loaded = [p \in Proc |-> 0]
    /\ ops = 0 /\ written = 0 /\ disturbed = FALSE
    /\ serial = Written(EmptyFile, 0, Size0, 1)

-----------------------------------------------------------------------------
Goto(p, label) == pc' = [pc EXCEPT ![p] = label]
Store(cell, v) == meta' = [meta EXCEPT ![cell] = v]
Load(p, v) == loaded' = [loaded EXCEPT ![p] = v]
At(p, label) == pc[p] = label
Data == <<alloc, block>>

ActiveCount == Larger(1, meta.active)               \* getActiveSegmentCount
ActiveCapacity ==                                   \* getActiveFileCapacityBytes
    (ActiveCount - 1) * SegCap + alloc[ActiveCount - 1]

-----------------------------------------------------------------------------
(* ensureFileCapacity, growSegment and setActiveSegmentCount *)

FromNextSegment(p) == ActiveCount                   \* a mutant: an off-by-one
FirstToGrow(p) == ActiveCount - 1

\* The operation throws; the lock is released on the way out.
Throw(p) == Goto(p, "release") /\ op' = [op EXCEPT ![p] = NoOp]

\* What follows when the capacity suffices.
Body(p) == IF op[p].kind = "write" THEN "copy" ELSE "storeSize"
EnterBody(p) ==
    /\ Goto(p, Body(p))
    /\ index' = [index EXCEPT ![p] = op[p].at]
    /\ Load(p, op[p].at)

EnsureCapacity(p) ==
    /\ At(p, "ensure")
    /\ \/ /\ Required(p) > MaxCap
          /\ Throw(p)
          /\ UNCHANGED <<index, loaded>>
       \/ /\ Required(p) <= MaxCap /\ Required(p) <= ActiveCapacity
          /\ EnterBody(p) /\ UNCHANGED op
       \/ /\ Required(p) <= MaxCap /\ Required(p) > ActiveCapacity
          /\ Goto(p, "grow")
          /\ index' = [index EXCEPT ![p] = FirstToGrow(p)]
          /\ Load(p, ActiveCount)
          /\ UNCHANGED op
    /\ UNCHANGED <<meta, Data, ghosts>>

SegmentNeeds(p) == Smaller(SegMax(index[p]), Required(p) - index[p] * SegCap)

\* One turn of the loop: nothing to do, or the segment has to grow.
GrowSegment(p) ==
    /\ At(p, "grow") /\ index[p] < SegmentsFor(Required(p))
    /\ \/ /\ SegmentNeeds(p) <= alloc[index[p]]
          /\ index' = [index EXCEPT ![p] = @ + 1]
          /\ UNCHANGED pc
       \/ /\ SegmentNeeds(p) > alloc[index[p]]
          /\ Goto(p, "extend") /\ UNCHANGED index
    /\ UNCHANGED <<meta, Data, op, loaded, ghosts>>

\* grow() throws if another worker has grown the segment further meanwhile.
ExtendSegment(p) ==
    /\ At(p, "extend")
    /\ IF SegmentNeeds(p) >= alloc[index[p]]
       THEN /\ alloc' = [alloc EXCEPT ![index[p]] = SegmentNeeds(p)]
            /\ index' = [index EXCEPT ![p] = @ + 1]
            /\ Goto(p, "grow") /\ UNCHANGED op
       ELSE Throw(p) /\ UNCHANGED <<alloc, index>>
    /\ UNCHANGED <<meta, block, loaded, ghosts>>

\* The loop is done: more segments are active than the worker had found.
Activate(p) ==
    /\ At(p, "grow") /\ index[p] >= SegmentsFor(Required(p))
    /\ IF SegmentsFor(Required(p)) > loaded[p]
       THEN Store("active", SegmentsFor(Required(p))) ELSE UNCHANGED meta
    /\ EnterBody(p)
    /\ UNCHANGED <<Data, op, ghosts>>

-----------------------------------------------------------------------------
(* writeMemoryWriteAheadFile and truncateMemoryWriteAheadFile *)

Copy(p) ==
    /\ At(p, "copy")
    /\ block' = [block EXCEPT ![index[p]] = op[p].value]
    /\ index' = [index EXCEPT ![p] = @ + 1]
    /\ Goto(p, IF index[p] + 1 = Required(p) THEN "loadSize" ELSE "copy")
    /\ UNCHANGED <<meta, alloc, op, loaded, ghosts>>

\* The size after a write, from the size that was found.
JustRequired(p, size) == Required(p)                \* a mutant
SizeAfter(p, size) == Larger(size, Required(p))

LoadSize(p) ==
    /\ At(p, "loadSize")
    /\ Load(p, SizeAfter(p, meta.size))
    /\ Goto(p, "storeSize")
    /\ UNCHANGED <<meta, Data, op, index, ghosts>>

\* setFileSizeBytes: the size, then the highest size so far.
StoreSize(p) ==
    /\ At(p, "storeSize")
    /\ Store("size", loaded[p])
    /\ index' = [index EXCEPT ![p] = loaded[p]]
    /\ Goto(p, "loadPeak")
    /\ UNCHANGED <<Data, op, loaded, ghosts>>

\* A loop of load and compare-and-set: here the compare-and-set.
BlindStore(p, cell, v) == Store(cell, v)            \* a mutant
CompareAndSet(p, cell, v) ==
    IF meta[cell] = loaded[p] THEN Store(cell, v) ELSE UNCHANGED meta

AfterPeak(p) == IF op[p].kind = "write" THEN "loadWritten" ELSE "shrink"

\* updateAtomicMaxCounter: index keeps the value, loaded the one it found.
LoadPeak(p) ==
    /\ At(p, "loadPeak")
    /\ Load(p, meta.peak)
    /\ Goto(p, IF meta.peak < index[p] THEN "casPeak" ELSE AfterPeak(p))
    /\ UNCHANGED <<meta, Data, op, index, ghosts>>
CasPeak(p) ==
    /\ At(p, "casPeak")
    /\ CompareAndSet(p, "peak", index[p])
    /\ Load(p, meta.peak)
    /\ Goto(p, IF meta.peak # loaded[p] /\ meta.peak < index[p] THEN "casPeak"
               ELSE AfterPeak(p))
    /\ UNCHANGED <<Data, op, index, ghosts>>

\* setActiveSegmentCount at the end of a truncation.
Shrink(p) ==
    /\ At(p, "shrink")
    /\ Store("active", SegmentsFor(op[p].at))
    /\ Goto(p, "release")
    /\ UNCHANGED <<Data, op, index, loaded, ghosts>>

\* addSaturatingAtomicCounter, for the bytes written.
Wrapping(p, v) == v + op[p].len                     \* a mutant
Saturating(p, v) == Smaller(MaxCounter, v + op[p].len)
LoadWritten(p) ==
    /\ At(p, "loadWritten")
    /\ Load(p, meta.written)
    /\ Goto(p, IF meta.written < MaxCounter THEN "casWritten" ELSE "release")
    /\ written' = IF meta.written < MaxCounter THEN written ELSE written + op[p].len
    /\ UNCHANGED <<meta, Data, op, index, ops, serial, disturbed>>
CasWritten(p) ==
    /\ At(p, "casWritten")
    /\ CompareAndSet(p, "written", Saturating(p, loaded[p]))
    /\ Load(p, meta.written)
    /\ LET again == meta.written # loaded[p] /\ meta.written < MaxCounter
       IN  /\ Goto(p, IF again THEN "casWritten" ELSE "release")
           /\ written' = IF again THEN written ELSE written + op[p].len
    /\ UNCHANGED <<Data, op, index, ops, serial, disturbed>>

-----------------------------------------------------------------------------
(* The operations of a handle, and jDelete *)

Idle(p) == At(p, "idle") /\ ops < MaxOps
Inside(p) ==
    \/ op[p].kind \in {"write", "truncate"} /\ ~At(p, "lock")
    \/ At(p, "release")

Start(p, o, label) ==
    /\ Idle(p)
    /\ op' = [op EXCEPT ![p] = o]
    /\ Goto(p, label)
    /\ ops' = ops + 1
    /\ UNCHANGED <<meta, Data, index, loaded, written, serial, disturbed>>

\* A log is written from its front and truncated to less: no operation is
\* asked for that leaves a gap.
Begin(p) ==
    \/ p \in Writer /\ \E at \in 0 .. meta.size, len \in 1 .. SegCap :
          Start(p, Op("write", at, len, ops + 2), "lock")
    \/ p \in Writer /\ \E at \in 0 .. meta.size :
          Start(p, Op("truncate", at, 0, 0), "lock")
    \/ p \in Reader /\ \E at \in 0 .. MaxCap - 1 : Start(p, Op("read", at, 1, 0), "readSize")
    \/ p \in Deleter /\ Start(p, Op("delete", 0, 0, 0), "clear")

\* The history: an operation that meets another, or one that is done.
Overlap(meets, file) ==
    /\ disturbed' = (disturbed \/ meets)
    /\ serial' = IF disturbed \/ meets THEN EmptyFile ELSE file

\* #withFileLock
Acquire(p) ==
    /\ At(p, "lock") /\ meta.lock = 0
    /\ Store("lock", p)
    /\ Goto(p, "ensure")
    /\ Overlap(\E q \in Proc : At(q, "clear"), serial)
    /\ UNCHANGED <<Data, op, index, loaded, ops, written>>

\* The same operation on a file that only this worker sees.
Done(o, f) ==
    CASE o.kind = "write" -> Written(f, o.at, o.len, o.value)
      [] o.kind = "truncate" -> Truncated(f, o.at)
      [] OTHER -> f

Finish(p) ==
    /\ op' = [op EXCEPT ![p] = NoOp]
    /\ Goto(p, "idle")
    /\ index' = [index EXCEPT ![p] = 0]
    /\ loaded' = [loaded EXCEPT ![p] = 0]

Release(p) ==
    /\ At(p, "release")
    /\ IF meta.lock = p THEN Store("lock", 0) ELSE UNCHANGED meta
    /\ Overlap(FALSE, Done(op[p], serial))
    /\ Finish(p)
    /\ UNCHANGED <<Data, ops, written>>

\* The lock of a worker that pauses is taken from it.
Revoke(p) ==
    /\ p \in Revocable /\ meta.lock = p
    /\ Store("lock", 0)
    /\ Overlap(TRUE, serial)
    /\ UNCHANGED <<Data, pc, op, index, loaded, ops, written>>

\* readMemoryWriteAheadFile: the size first, then the bytes below it.
UpToCapacity == ActiveCapacity                      \* a mutant
SizeSeen == meta.size
ReadSize(p) ==
    /\ At(p, "readSize")
    /\ \/ /\ op[p].at < SizeSeen
          /\ Goto(p, "readBlock") /\ UNCHANGED <<op, index, loaded>>
       \/ op[p].at >= SizeSeen /\ Finish(p)
    /\ UNCHANGED <<meta, Data, ghosts>>
ReadBlock(p) ==
    /\ At(p, "readBlock")
    /\ Finish(p)
    /\ UNCHANGED <<meta, Data, ghosts>>

\* clearMemoryWriteAheadFile stores zero in every cell, the lock among them,
\* then sizes the file; jDelete stores the lock once more.
Clearing == << <<"lock", 0>>, <<"size", 0>>, <<"active", 0>>, <<"peak", 0>>,
               <<"written", 0>>, <<"size", 0>>, <<"active", 1>>, <<"lock", 0>> >>
JDelete(p) ==
    /\ At(p, "clear")
    /\ LET step == Clearing[index[p] + 1]
       IN  /\ Store(step[1], step[2])
           /\ written' = IF step[1] = "written" THEN 0 ELSE written
    /\ Overlap(\E q \in Proc : Inside(q),
               IF index[p] = 7 THEN Truncated(serial, 0) ELSE serial)
    /\ IF index[p] = 7 THEN Finish(p)
       ELSE index' = [index EXCEPT ![p] = @ + 1] /\ UNCHANGED <<pc, op, loaded>>
    /\ UNCHANGED <<Data, ops>>

Step(p) ==
    \/ Begin(p) \/ Acquire(p) \/ Release(p) \/ Revoke(p)
    \/ EnsureCapacity(p) \/ GrowSegment(p) \/ ExtendSegment(p) \/ Activate(p)
    \/ Copy(p) \/ LoadSize(p) \/ StoreSize(p) \/ LoadPeak(p) \/ CasPeak(p)
    \/ Shrink(p) \/ LoadWritten(p) \/ CasWritten(p)
    \/ ReadSize(p) \/ ReadBlock(p) \/ JDelete(p)

Next == \E p \in Proc : Step(p)

Spec == Init /\ [][Next]_vars

-----------------------------------------------------------------------------
(* Properties *)

Quiet == \A p \in Proc : ~Inside(p) /\ ~At(p, "clear")

\* As long as no lock was taken away and no delete met a writer, the file is
\* between operations what a LocalFile is after the same operations: growth
\* over segments, sizes and refused operations included, and the segments
\* that count as active hold it.
SerialWhenUndisturbed ==
    Quiet /\ ~disturbed =>
        /\ meta.size = serial.size
        /\ \A b \in 0 .. meta.size - 1 : Read(serial, b, 1) = <<block[b]>>
        /\ meta.size <= ActiveCapacity

\* Whatever else happens, also deletes beside writers and writers that have
\* lost their lock: the size never promises bytes that no segment has.
SizeIsBacked ==
    \A b \in 0 .. meta.size - 1 : b % SegCap < alloc[b \div SegCap]

\* A reader that takes no lock, and has seen a size, finds below it bytes
\* that were written: they are stored before the size tells of them.
AppendsReadWhole ==
    \A p \in Proc : At(p, "readBlock") =>
        /\ op[p].at % SegCap < alloc[op[p].at \div SegCap]
        /\ block[op[p].at] # 0

\* Workers may count at the same time, one of them after it lost the lock: no
\* count is lost before the counter is full, and the counter stays full.
CountsEveryWrite == meta.written = Smaller(MaxCounter, written)
=============================================================================
