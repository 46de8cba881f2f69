---------------------------- MODULE MCWriteAhead ----------------------------
(* Instances of WriteAhead for TLC. *)
EXTENDS WriteAhead

CONSTANTS a, b, c3, p1

TwoConns == {a, b}
ThreeConns == {a, b, c3}
OnePage == {p1}

\* Bound: the first connection opens the empty files, and the log is used when
\* all writers are open.
OpensFirst ==
  LET opening == {c \in Conn : pc[c] \in {"closed", "joining", "create"}}
  IN  /\ HeaderOf(0) = NoHeader /\ HeaderOf(1) = NoHeader =>
           \A c \in Conn \ {a} : pc[c] = "closed"
      /\ opening \cap Writer # {} => attempts = 0
=============================================================================
