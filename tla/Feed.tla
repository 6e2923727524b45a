-------------------------------- MODULE Feed --------------------------------
(***************************************************************************)
(* What the live arena promises a connection, with no channel, goroutine   *)
(* or buffer in sight: accepted events are numbered 1, 2, 3, ... and a     *)
(* connection that joins after event n is shown n+1, n+2, ... in that      *)
(* order, without a gap and without a repetition, until it is cut off.     *)
(* Hub.tla implements this specification.                                  *)
(***************************************************************************)
EXTENDS Naturals, Sequences

CONSTANT Clients

VARIABLES
  published,   \* how many events the arena has accepted
  phase,       \* phase[c]: "out" before joining, "on", "cut" for good
  since,       \* since[c]: the value of published when c joined
  wire         \* wire[c]: the event numbers shown to c so far

vars == <<published, phase, since, wire>>

Init ==
  /\ published = 0
  /\ phase = [c \in Clients |-> "out"]
  /\ since = [c \in Clients |-> 0]
  /\ wire = [c \in Clients |-> <<>>]

Join(c) ==
  /\ phase[c] = "out"
  /\ phase' = [phase EXCEPT ![c] = "on"]
  /\ since' = [since EXCEPT ![c] = published]
  /\ UNCHANGED <<published, wire>>

Publish ==
  /\ published' = published + 1
  /\ UNCHANGED <<phase, since, wire>>

\* One frame: the next n - Len(wire[c]) events, all of them already published.
Show(c) ==
  /\ phase[c] = "on"
  /\ \E n \in (Len(wire[c]) + 1)..(published - since[c]) :
       wire' = [wire EXCEPT ![c] = [i \in 1..n |-> since[c] + i]]
  /\ UNCHANGED <<published, phase, since>>

Cut(c) ==
  /\ phase[c] = "on"
  /\ phase' = [phase EXCEPT ![c] = "cut"]
  /\ UNCHANGED <<published, since, wire>>

Next == Publish \/ \E c \in Clients : Join(c) \/ Show(c) \/ Cut(c)

Spec == Init /\ [][Next]_vars

=============================================================================
