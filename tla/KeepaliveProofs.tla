-------------------------- MODULE KeepaliveProofs ---------------------------
(***************************************************************************)
(* Theorems about Keepalive, for every choice of the periods and for       *)
(* writes, round trips and handlers of any length.                         *)
(*                                                                         *)
(* None of the properties is inductive.  ResponsiveKept needs to know that *)
(* the deadline lies beyond the next tick while no pong is owed, and how   *)
(* much of the margin is used up while one is (InTime), and that what      *)
(* closed the connection stays on record (Recorded).  DeadNoticed needs to *)
(* know what is left of the time in which a dead peer's last pong comes    *)
(* and is read (LastPong).                                                 *)
(***************************************************************************)
EXTENDS Keepalive, TLAPS

\* What the numbers leave for one late ping and its pong.
Margin == pongWait - pingPeriod

\* The read deadline of a peer that answers.
InTime ==
  IF Owed THEN deadline + overdue >= Margin ELSE deadline >= ticker + Margin

\* Why the connection of a peer that answers was closed.
Recorded ==
  \/ writer = "ended" /\ blocked = writeWait
  \/ reader = "ended" /\ overdue >= Margin

\* While the peer lives.
AliveInv ==
  peer = "alive" =>
    /\ dead = 0
    /\ IF closed THEN Recorded ELSE reader # "ended" /\ writer # "ended" /\ InTime

\* What is left of the deadline, and of the last pong, after the peer's death.
LastPong ==
  /\ dead + deadline <= NoticeBound
  /\ reader = "handling" => dead + busy <= RoundTrip + Handling
  /\ reader = "reading" => busy = 0
  /\ coming > 0 => dead <= age
  /\ arrived > 0 => dead <= RoundTrip + Handling

\* The inductive invariant.
KeepInv == TypeOK /\ AliveInv /\ (reader # "ended" => LastPong)

-----------------------------------------------------------------------------
\* The ping period is a natural number, smaller than the pong wait.
LEMMA PeriodNat == pingPeriod \in Nat /\ pingPeriod < pongWait /\ 0 < pingPeriod
  BY KeepaliveAssumption DEF pingPeriod, KeepaliveAssumption

\* A step down from a natural number stays one; from a positive one it is a
\* subtraction.
LEMMA Minus1Nat ==
  ASSUME NEW n \in Nat
  PROVE  Minus1(n) \in Nat /\ Minus1(n) <= n /\ (n > 0 => Minus1(n) = n - 1)
                           /\ Minus1(n) + 1 >= n
  BY DEF Minus1

\* Sums grow with their terms.
LEMMA SumBound ==
  ASSUME NEW a \in Nat, NEW b \in Nat, NEW c \in Nat, NEW d \in Nat, a <= c, b <= d
  PROVE  a + b <= c + d
  OBVIOUS

\* The invariant holds when the connection is made.
LEMMA KeepInit == Init => KeepInv
<1> SUFFICES ASSUME Init PROVE KeepInv
  OBVIOUS
<1> USE KeepaliveAssumption, PeriodNat DEF Init, KeepaliveAssumption, NoticeBound
<1>1. TypeOK
  <2>1. closed \in BOOLEAN /\ due \in BOOLEAN
    OBVIOUS
  <2> QED BY <2>1 DEF TypeOK
<1>2. AliveInv
  <2>1. ~closed /\ ~due
    OBVIOUS
  <2> QED BY <2>1 DEF AliveInv, InTime, Owed, Margin
<1>3. LastPong
  BY DEF LastPong
<1> QED BY <1>1, <1>2, <1>3 DEF KeepInv

\* Every step keeps the invariant.
LEMMA KeepStep == KeepInv /\ [Next]_vars => KeepInv'
<1> SUFFICES ASSUME KeepInv, [Next]_vars PROVE KeepInv'
  OBVIOUS
<1> USE KeepaliveAssumption, PeriodNat
    DEF KeepaliveAssumption, KeepInv, TypeOK, AliveInv, InTime, Recorded, Owed, Margin, LastPong,
        NoticeBound, Writing, pumps, timers, pongs
\* From now on a pong is owed, and the whole margin is left.
<1>1. CASE TickerFires BY <1>1 DEF TickerFires
<1>2. CASE StartPing
  <2> USE <1>2 DEF StartPing
  <2>1. TypeOK'
    <3>1. due' \in BOOLEAN OBVIOUS
    <3>2. writer' = "ping" /\ blocked' \in 0..writeWait OBVIOUS
    <3> QED BY <3>1, <3>2
  <2>2. AliveInv'
    <3>1. Owed /\ Owed' OBVIOUS
    <3> HIDE DEF Owed
    <3>2. (closed /\ Recorded) => Recorded' OBVIOUS
    <3>3. InTime => InTime' BY <3>1
    <3> QED BY <3>1, <3>2, <3>3
  <2>3. LastPong \/ reader = "ended" OBVIOUS
  <2>4. reader' # "ended" => LastPong' BY <2>3
  <2> QED BY <2>1, <2>2, <2>4 DEF KeepInv
<1>3. CASE StartMessage BY <1>3 DEF StartMessage
\* The ping is out: its pong is coming, if the peer lives.
<1>4. CASE Written BY <1>4 DEF Written
\* Unless the connection was closed before, the write has blocked for writeWait.
<1>5. CASE WriteFails BY <1>5 DEF WriteFails
<1>6. CASE PongArrives BY <1>6 DEF PongArrives
<1>7. CASE PeerDies BY <1>7 DEF PeerDies
\* No pong has arrived, so a dead peer's last one may still be ahead.
<1>8. CASE HandleEvent
  <2> USE <1>8 DEF HandleEvent
  <2>1. TypeOK' OBVIOUS
  <2>2. AliveInv'
    <3>1. Owed' = Owed OBVIOUS
    <3> HIDE DEF Owed
    <3>2. InTime' = InTime BY <3>1
    <3> QED BY <3>2
  <2>3. LastPong'
    <3>1. reader = "reading" /\ LastPong OBVIOUS
    <3>2. dead' \in Nat /\ dead' <= RoundTrip /\ busy' \in Nat /\ busy' <= Handling OBVIOUS
    <3>3. dead' + busy' <= RoundTrip + Handling BY <3>2, SumBound
    <3> QED BY <3>1, <3>3
  <2> QED BY <2>1, <2>2, <2>3 DEF KeepInv
<1>9. CASE HandlerReturns BY <1>9 DEF HandlerReturns
\* The new deadline lies a margin beyond the next tick.
<1>10. CASE ReadPong BY <1>10 DEF ReadPong, PongHandler
\* A deadline that passes has used up the margin, or the peer is dead.
<1>11. CASE ReadFails BY <1>11 DEF ReadFails
\* The deadline and the next tick, or the margin, come closer by the same second.
<1>12. CASE Tick BY <1>12, Minus1Nat DEF Tick
<1>13. CASE UNCHANGED vars BY <1>13 DEF vars
<1> QED BY <1>1, <1>2, <1>3, <1>4, <1>5, <1>6, <1>7, <1>8, <1>9, <1>10, <1>11, <1>12, <1>13 DEF Next

-----------------------------------------------------------------------------
\* The invariant holds of every behaviour.
THEOREM Kept == Spec => []KeepInv
<1> QED BY KeepInit, KeepStep, PTL DEF Spec

\* Every state is well typed, whatever the periods and delays: the clocks stay
\* within their bounds, and no write blocks beyond its deadline.
THEOREM KeepaliveTypes == Spec => []TypeOK
<1>1. KeepInv => TypeOK
  BY DEF KeepInv
<1> QED BY <1>1, Kept, PTL

\* For all periods and all delays a peer that answers its pings is dropped
\* only after a write that blocked for writeWait, or when a ping, its pong and
\* what was handled before took up all of pongWait - pingPeriod.
THEOREM PeersKept == Spec => []ResponsiveKept
<1>1. KeepInv => ResponsiveKept
  BY DEF KeepInv, AliveInv, Recorded, Margin, ResponsiveKept
<1> QED BY <1>1, Kept, PTL

\* A dead peer is held for at most pongWait, a round trip and a handling.
THEOREM DeadPeersNoticed == Spec => []DeadNoticed
<1>1. KeepInv => DeadNoticed
  BY KeepaliveAssumption
  DEF KeepaliveAssumption, KeepInv, TypeOK, LastPong, DeadNoticed, NoticeBound
<1> QED BY <1>1, Kept, PTL

=============================================================================
