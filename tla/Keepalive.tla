----------------------------- MODULE Keepalive ------------------------------
(***************************************************************************)
(* The keepalive of a websocket connection (client.go), on a clock that    *)
(* ticks.  writePump sends a ping every pingPeriod; a pong that readPump   *)
(* reads moves the read deadline pongWait ahead.  Nothing else moves it,   *)
(* so an idle connection lives on its pongs.                               *)
(*                                                                         *)
(* Both pumps may be late, by any time.  writePump does not look at its    *)
(* ticker while a write to a slow peer blocks, and select may prefer one   *)
(* message after another to the tick.  readPump reads nothing while        *)
(* HandleEvent waits for the stores, which no context limits, and when it  *)
(* comes back after the deadline the read fails even if the pong has been  *)
(* there for long: that is how net.Conn's deadlines work.                  *)
(***************************************************************************)
EXTENDS Naturals

CONSTANTS
  pongWait,   \* seconds (60)
  writeWait,  \* seconds a write may block before it fails (10)
  RoundTrip,  \* bound: time from a ping to the arrival of its pong
  Handling    \* bound: time that readPump handles the messages ahead of a pong

pingPeriod == (pongWait * 9) \div 10

\* "Must be less than pongWait" (client.go:18).
ASSUME KeepaliveAssumption ==
  /\ pongWait \in Nat /\ writeWait \in Nat /\ RoundTrip \in Nat /\ Handling \in Nat
  /\ 0 < pingPeriod /\ pingPeriod < pongWait

VARIABLES
  peer,      \* "alive" | "dead": it answers, or is gone without a word
  reader,    \* readPump: "reading" | "handling" | "ended"
  writer,    \* writePump: "idle" | "message" | "ping", the write it is in, | "ended"
  blocked,   \* seconds that this write has blocked
  deadline,  \* seconds left until the read deadline
  ticker,    \* seconds left until the ticker fires
  due,       \* is a tick in the ticker's channel?
  busy,      \* seconds that readPump's handling goes on for
  coming,    \* pongs under way
  arrived,   \* pongs there and not read
  age,       \* seconds since the last ping was written
  overdue,   \* history: seconds since a ping is due, or out, and no pong was read
  dead,      \* history: seconds since the peer died
  closed     \* has a pump closed the connection?

pumps == <<reader, writer, blocked, closed>>
timers == <<deadline, ticker, due, busy>>
pongs == <<coming, arrived, age>>
vars == <<peer, pumps, timers, pongs, overdue, dead>>

Init ==
  /\ peer = "alive" /\ reader = "reading" /\ writer = "idle" /\ blocked = 0 /\ closed = FALSE
  /\ deadline = pongWait /\ ticker = pingPeriod /\ due = FALSE /\ busy = 0
  /\ coming = 0 /\ arrived = 0 /\ age = 0 /\ overdue = 0 /\ dead = 0

-----------------------------------------------------------------------------
(* writePump.                                                              *)

\* The ticker's channel has room for one tick; a second one is dropped.
TickerFires ==
  /\ writer # "ended" /\ ticker = 0
  /\ ticker' = pingPeriod /\ due' = TRUE
  /\ UNCHANGED <<peer, pumps, deadline, busy, pongs, overdue, dead>>

\* select picks at random what is ready: the tick, or a message of the hub.
StartPing ==
  /\ writer = "idle" /\ due
  /\ writer' = "ping" /\ due' = FALSE /\ blocked' = 0
  /\ UNCHANGED <<peer, reader, closed, deadline, ticker, busy, pongs, overdue, dead>>

StartMessage ==
  /\ writer = "idle" /\ ~closed
  /\ writer' = "message" /\ blocked' = 0
  /\ UNCHANGED <<peer, reader, closed, timers, pongs, overdue, dead>>

Writing == writer \in {"ping", "message"}

\* A write to a peer that is dead succeeds as well, into the system's buffers.
Written ==
  /\ Writing /\ ~closed
  /\ writer' = "idle" /\ blocked' = 0
  /\ IF writer = "ping" /\ peer = "alive"
     THEN coming' = coming + 1 /\ age' = 0
     ELSE UNCHANGED <<coming, age>>
  /\ UNCHANGED <<peer, reader, closed, timers, arrived, overdue, dead>>

\* The write deadline passes, or the connection is closed and the hub has
\* closed the channel: writePump returns and closes the connection.
WriteFails ==
  /\ writer # "ended"
  /\ closed \/ (Writing /\ blocked = writeWait)
  /\ writer' = "ended" /\ closed' = TRUE
  /\ UNCHANGED <<peer, reader, blocked, timers, pongs, overdue, dead>>

-----------------------------------------------------------------------------
(* The peer.                                                               *)

PongArrives ==
  /\ coming > 0
  /\ coming' = coming - 1 /\ arrived' = arrived + 1
  /\ UNCHANGED <<peer, pumps, timers, age, overdue, dead>>

\* What is under way when the peer dies may arrive or not.
PeerDies ==
  /\ peer = "alive"
  /\ peer' = "dead"
  /\ coming' \in 0..coming
  /\ UNCHANGED <<pumps, timers, arrived, age, overdue, dead>>

-----------------------------------------------------------------------------
(* readPump.                                                               *)

\* A message that came before the pong is handled; a dead peer sends no more.
HandleEvent ==
  /\ reader = "reading" /\ deadline > 0 /\ ~closed
  /\ dead <= RoundTrip /\ arrived = 0
  /\ reader' = "handling"
  /\ busy' \in 1..Handling
  /\ UNCHANGED <<peer, writer, blocked, closed, deadline, ticker, due, pongs, overdue, dead>>

HandlerReturns ==
  /\ reader = "handling" /\ busy = 0
  /\ reader' = "reading"
  /\ UNCHANGED <<peer, writer, blocked, closed, timers, pongs, overdue, dead>>

PongHandlerNothing == UNCHANGED deadline
PongHandlerLong == deadline' = pongWait + writeWait

\* SetReadDeadline(time.Now().Add(pongWait)).
PongHandler == deadline' = pongWait

\* A ping is due, or on its way, whose pong has not been read.
Owed == due \/ writer = "ping" \/ coming + arrived > 0

\* Also after the deadline, if the pong came in one piece with the message
\* handled before it, which the connection has buffered.
ReadPong ==
  /\ reader = "reading" /\ ~closed
  /\ arrived > 0
  /\ PongHandler
  /\ arrived' = arrived - 1 /\ overdue' = 0
  /\ UNCHANGED <<peer, pumps, ticker, due, busy, coming, age, dead>>

ReadFailsOpen ==
  /\ reader = "reading"
  /\ deadline = 0 \/ closed
  /\ reader' = "ended"
  /\ UNCHANGED <<peer, writer, blocked, closed, timers, pongs, overdue, dead>>

\* The deadline has passed, or the connection is closed: readPump returns.
ReadFails ==
  /\ reader = "reading"
  /\ deadline = 0 \/ closed
  /\ reader' = "ended" /\ closed' = TRUE
  /\ UNCHANGED <<peer, writer, blocked, timers, pongs, overdue, dead>>

-----------------------------------------------------------------------------
(* Time.                                                                   *)

Minus1(n) == IF n = 0 THEN 0 ELSE n - 1

\* How long a dead peer may be held; the model stops counting beyond.
NoticeBound == pongWait + RoundTrip + Handling

\* A second passes, unless something is to happen before.
Tick ==
  /\ writer # "ended" => ticker > 0
  /\ ~(writer = "idle" /\ due)
  /\ Writing => blocked < writeWait /\ ~closed
  /\ coming > 0 => age < RoundTrip
  /\ reader = "handling" => busy > 0
  /\ reader = "reading" => deadline > 0 /\ arrived = 0 /\ ~closed
  /\ writer # "ended" \/ reader # "ended"
  /\ ticker' = Minus1(ticker) /\ deadline' = Minus1(deadline) /\ busy' = Minus1(busy)
  /\ blocked' = IF Writing THEN blocked + 1 ELSE blocked
  /\ age' = IF coming > 0 THEN age + 1 ELSE age
  /\ overdue' = IF Owed /\ peer = "alive" /\ reader # "ended" THEN overdue + 1 ELSE overdue
  /\ dead' = IF peer = "dead" /\ dead <= NoticeBound THEN dead + 1 ELSE dead
  /\ UNCHANGED <<peer, reader, writer, due, coming, arrived, closed>>

Next ==
  \/ TickerFires \/ StartPing \/ StartMessage \/ Written \/ WriteFails
  \/ PongArrives \/ PeerDies
  \/ HandleEvent \/ HandlerReturns \/ ReadPong \/ ReadFails
  \/ Tick

Spec == Init /\ [][Next]_vars

\* Time passes, the network delivers what is under way and the pumps run; a
\* peer need not die, a message need not come and a write may block.
FairSpec ==
  /\ Spec
  /\ SF_vars(Tick) /\ WF_vars(PongArrives)
  /\ WF_vars(TickerFires) /\ WF_vars(StartPing) /\ WF_vars(WriteFails)
  /\ WF_vars(HandlerReturns) /\ WF_vars(ReadPong) /\ WF_vars(ReadFails)

-----------------------------------------------------------------------------
(* Properties.                                                             *)

\* Types; no write blocks for longer than its deadline.
TypeOK ==
  /\ peer \in {"alive", "dead"}
  /\ reader \in {"reading", "handling", "ended"}
  /\ writer \in {"idle", "message", "ping", "ended"} /\ blocked \in 0..writeWait
  /\ deadline \in 0..pongWait /\ ticker \in 0..pingPeriod
  /\ due \in BOOLEAN /\ busy \in 0..Handling
  /\ coming \in Nat /\ arrived \in Nat /\ age \in 0..RoundTrip
  /\ overdue \in Nat /\ dead \in 0..(NoticeBound + 1) /\ closed \in BOOLEAN

\* A peer that answers its pings is dropped for one of two reasons only: a
\* write blocked for all of writeWait, or a pong is still unread when the tick
\* of its ping is as long ago as pongWait exceeds pingPeriod (six seconds): the
\* write before the ping, the network and the handlers took that long
\* together.  However idle it is, and whatever delays there were before.
ResponsiveKept ==
  (peer = "alive" /\ (closed \/ reader = "ended" \/ writer = "ended")) =>
    blocked = writeWait \/ overdue >= pongWait - pingPeriod

\* A peer that is gone holds its connection for no longer than the deadline
\* of its last pong, plus the time in which that pong came and was read.
DeadNoticed == reader # "ended" => dead <= NoticeBound

\* Both pumps of a dead peer's connection come to their end.
DeadTornDown == (peer = "dead") ~> (reader = "ended" /\ writer = "ended")

=============================================================================
