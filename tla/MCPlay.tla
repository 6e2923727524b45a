------------------------------- MODULE MCPlay -------------------------------
(* Instances of Play for TLC. *)
EXTENDS Play
=============================================================================
