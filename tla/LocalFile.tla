------------------------------ MODULE LocalFile ------------------------------
(***************************************************************************)
(* A file in the memory of one worker: LocalMemoryAccessHandle and         *)
(* growBuffer of src/src/MemoryWriteAheadVFS.ts.  Nobody else sees it, so   *)
(* its operations are functions from a file to a file.  SharedFile is      *)
(* compared with it.                                                       *)
(*                                                                         *)
(* A file is its size and its buffer, a sequence of blocks; block i of the *)
(* file is element i + 1, and 0 is a block that was never written.         *)
(***************************************************************************)
EXTENDS Naturals, Sequences, SequencesExt

Larger(m, n) == IF m > n THEN m ELSE n

EmptyFile == [size |-> 0, data |-> <<>>]

\* growBuffer: a new buffer is at least twice as long.
Grown(data, required) ==
    IF Len(data) >= required THEN data
    ELSE [i \in 1 .. Larger(required, Larger(2 * Len(data), 1)) |->
             IF i <= Len(data) THEN data[i] ELSE 0]

\* write(): len blocks of value v at offset at.
Written(f, at, len, v) ==
    LET data == Grown(f.data, at + len)
    IN  [size |-> Larger(f.size, at + len),
         data |-> [i \in DOMAIN data |->
                      IF at < i /\ i <= at + len THEN v ELSE data[i]]]

\* truncate(), which may also lengthen the file, and clears nothing.
Truncated(f, size) == [size |-> size, data |-> Grown(f.data, size)]

\* read(): what is there of len blocks at offset at.
Read(f, at, len) ==
    LET Least(m, n) == IF m < n THEN m ELSE n
    IN  SubSeq(f.data, Least(at, f.size) + 1, Least(at + len, f.size))
=============================================================================
