------------------------------- MODULE Rhythm -------------------------------
(***************************************************************************)
(* The rhythm of a game: the intervals between keys that handleChange      *)
(* measures in refs (TypingArena.tsx), the consistency that finishGame     *)
(* computes from them, and what handleGameComplete (App.tsx) sends.        *)
(* Refs change at once, so no render matters here.                         *)
(***************************************************************************)
EXTENDS Integers, Sequences, SequencesExt

CONSTANTS
  Pauses,  \* times between two keys, in tenths of a second
  MaxKeys  \* bound: keys in a game

VARIABLES
  active,     \* isActive
  intervals,  \* keyIntervals.current
  sent        \* the consistency in game_end; -1 before the game is over

vars == <<active, intervals, sent>>

Init == active = FALSE /\ intervals = <<>> /\ sent = -1

StartGame ==
  /\ active' = FALSE /\ intervals' = <<>> /\ sent' = -1

\* The first key sets lastKeyTime to now and then measures from it.
HandleChange(pause) ==
  /\ sent = -1
  /\ Len(intervals) < MaxKeys
  /\ active' = TRUE
  /\ intervals' = Append(intervals, IF active THEN pause ELSE 0)
  /\ UNCHANGED sent

Sum(f(_)) == FoldLeft(LAMBDA acc, i : acc + f(i), 0, intervals)

\* The coefficient of variation of n values with sum Total is the root of
\* Variation, n times their sum of squares less Total squared, over Total.
Total == Sum(LAMBDA i : i)
Variation == Len(intervals) * Sum(LAMBDA i : i * i) - Total * Total

\* Math.max(0, Math.round(100 - cv * 100)), without roots.
CalculateConsistency ==
  IF Len(intervals) < 2 \/ Total = 0 THEN 100
  ELSE Max({0} \union
           {c \in 0..100 : 40000 * Variation <= (201 - 2 * c) * (201 - 2 * c) * Total * Total})

\* stats.consistency || 100.
Sent(consistency) == IF consistency = 0 THEN 100 ELSE consistency

FinishGame ==
  /\ active
  /\ active' = FALSE
  /\ sent' = Sent(CalculateConsistency)
  /\ UNCHANGED intervals

Next == StartGame \/ FinishGame \/ \E pause \in Pauses : HandleChange(pause)

Spec == Init /\ [][Next]_vars

-----------------------------------------------------------------------------
\* "CV = stdDev / mean. Consistency = 100 - (CV * 100)" (TypingArena.tsx:87):
\* what is sent is that number, to the half that rounding takes or gives, and
\* 0 stands for everything below.  A consistency of 0 is sent as 100.
ConsistencySent ==
  (sent >= 0 /\ Len(intervals) >= 2 /\ Total > 0) =>
    LET error(d) == (2 * (100 - sent) + d) * (2 * (100 - sent) + d) * Total * Total
    IN /\ sent < 100 => 40000 * Variation >= error(-1)
       /\ sent > 0 => 40000 * Variation <= error(1)

=============================================================================
