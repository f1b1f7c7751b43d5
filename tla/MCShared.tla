------------------------------ MODULE MCShared ------------------------------
(* Instances of Shared for TLC. *)
EXTENDS Shared
Minimum == -1000
=============================================================================
