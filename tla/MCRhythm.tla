------------------------------ MODULE MCRhythm ------------------------------
(* Instances of Rhythm for TLC. *)
EXTENDS Rhythm
=============================================================================
