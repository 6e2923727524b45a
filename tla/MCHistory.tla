----------------------------- MODULE MCHistory ------------------------------
(* Instances of History for TLC. *)
EXTENDS History

\* The levels of gamification.ts.
Levels == <<0, 30, 50, 70, 90, 110, 130, 150>>
=============================================================================
