----------------------------- MODULE MCFileLock -----------------------------
(* Instances of FileLock for TLC. *)
EXTENDS FileLock

TwoOwners == {1, 2}
ThreeOwners == {1, 2, 3}
=============================================================================
