------------------------------ MODULE MCSelect ------------------------------
(* Instances of Select for TLC. *)
EXTENDS Select
=============================================================================
