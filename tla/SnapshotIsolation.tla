------------------------- MODULE SnapshotIsolation -------------------------
(***************************************************************************)
(* What the write-ahead log promises to the connections of one database:   *)
(* a single sequence of committed transactions, a frozen prefix of it for  *)
(* every transaction, and a single writer, who commits only on top of the  *)
(* whole sequence.                                                         *)
(***************************************************************************)
EXTENDS Naturals, Sequences

CONSTANTS Conn, Page, Value

VARIABLES
  hist,   \* the committed transactions: the value and the pages of each
  seen,   \* per connection: how many of them its view includes
  mode    \* per connection: "none", or the transaction it runs

vars == <<hist, seen, mode>>

NoWriter == \A c \in Conn : mode[c] # "write"

Init ==
  /\ hist = <<>>
  /\ seen = [c \in Conn |-> 0]
  /\ mode = [c \in Conn |-> "none"]

\* Outside a transaction the view moves forward, never back.
Advance(c) ==
  /\ mode[c] = "none"
  /\ \E n \in seen[c] .. Len(hist) : seen' = [seen EXCEPT ![c] = n]
  /\ UNCHANGED <<hist, mode>>

BeginRead(c) ==
  /\ mode[c] = "none"
  /\ mode' = [mode EXCEPT ![c] = "read"]
  /\ UNCHANGED <<hist, seen>>

\* A write transaction, or the upgrade of a read, sees all that is committed.
BeginWrite(c) ==
  /\ mode[c] # "write" /\ NoWriter
  /\ seen[c] = Len(hist)
  /\ mode' = [mode EXCEPT ![c] = "write"]
  /\ UNCHANGED <<hist, seen>>

Commit(c) ==
  /\ mode[c] = "write"
  /\ seen[c] = Len(hist)
  /\ \E P \in SUBSET Page : \E v \in Value : hist' = Append(hist, [val |-> v, pages |-> P])
  /\ seen' = [seen EXCEPT ![c] = Len(hist')]
  /\ UNCHANGED mode

End(c) ==
  /\ mode' = [mode EXCEPT ![c] = "none"]
  /\ UNCHANGED <<hist, seen>>

Next == \E c \in Conn :
  Advance(c) \/ BeginRead(c) \/ BeginWrite(c) \/ Commit(c) \/ End(c)

Spec == Init /\ [][Next]_vars

-----------------------------------------------------------------------------

\* The transactions among the first n that wrote the page.
WritersOf(p, n) == {i \in 1 .. n : p \in hist[i].pages}

\* The value of a page in the snapshot of the first n transactions.
ValueAt(p, n) ==
  IF WritersOf(p, n) = {} THEN 0
  ELSE hist[CHOOSE i \in WritersOf(p, n) : \A j \in WritersOf(p, n) : j <= i].val
=============================================================================
