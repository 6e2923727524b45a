--------------------------- MODULE MCTypingArena ----------------------------
(* Instances of TypingArena for TLC. *)
EXTENDS TypingArena
=============================================================================
