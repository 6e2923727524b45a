------------------------------- MODULE MCHub --------------------------------
(* Instances of Hub for TLC. *)
EXTENDS Hub, TLC

\* Connections are interchangeable.  Used for safety only.
Symmetry == Permutations(Clients)
=============================================================================
