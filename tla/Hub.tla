-------------------------------- MODULE Hub ---------------------------------
(***************************************************************************)
(* The hub of one backend process (hub.go) and the three goroutines that   *)
(* serve a websocket connection (client.go): ServeWs until the hub has     *)
(* taken the connection, then readPump and writePump.  They meet on the    *)
(* unbuffered channels register, unregister and broadcast, and on each     *)
(* connection's buffered channel send.                                     *)
(*                                                                         *)
(* A rendezvous on an unbuffered channel is one step of both sides.  A     *)
(* broadcast message is named by its rank: bcast counts the messages the   *)
(* hub has accepted, so the k-th one is the number k.  The history         *)
(* variables joined and wire record what each peer could observe.          *)
(***************************************************************************)
EXTENDS Naturals, Sequences, FiniteSets

CONSTANTS
  Clients,        \* the connections: one *Client each, never reused
  SendCap,        \* capacity of Client.send (256 in the code)
  MaxBroadcasts   \* bound: messages that enter the system, peers and Redis together

ASSUME HubAssumption == SendCap \in Nat \ {0} /\ MaxBroadcasts \in Nat

VARIABLES
  clients,  \* Hub.clients, the map's keys
  todo,     \* the part of clients the fan-out loop has still to visit
  bcast,    \* number of messages taken from Hub.broadcast
  feeder,   \* the goroutine that forwards Redis messages: "ranging" | "broadcasting"
  serve,    \* ServeWs: "none" | "registering" | "returned"
  reader,   \* readPump
  writer,   \* writePump
  conn,     \* has a pump called conn.Close? "open" | "closed"
  send,     \* the buffer of Client.send
  closed,   \* has close(client.send) been called?
  panic,    \* a send on or a close of a closed channel was attempted
  togo,     \* writePump's n: messages still to be drained into the open frame
  frame,    \* the messages written into the open websocket frame
  wire,     \* history: messages in frames completed by w.Close()
  joined    \* history: bcast when the hub took the registration

hubVars == <<clients, todo, bcast>>
chanVars == <<send, closed, panic>>
writerVars == <<writer, togo, frame, wire>>
vars == <<hubVars, feeder, serve, reader, conn, chanVars, writerVars, joined>>

ReaderState == {"none", "reading", "handling", "broadcasting",
                "unregistering", "closing", "done"}
WriterState == {"none", "waiting", "opening", "draining", "done"}

Init ==
  /\ clients = {} /\ todo = {} /\ bcast = 0
  /\ feeder = "ranging"
  /\ serve = [c \in Clients |-> "none"]
  /\ reader = [c \in Clients |-> "none"]
  /\ writer = [c \in Clients |-> "none"]
  /\ conn = [c \in Clients |-> "open"]
  /\ send = [c \in Clients |-> <<>>]
  /\ closed = [c \in Clients |-> FALSE]
  /\ panic = FALSE
  /\ togo = [c \in Clients |-> 0]
  /\ frame = [c \in Clients |-> <<>>]
  /\ wire = [c \in Clients |-> <<>>]
  /\ joined = [c \in Clients |-> 0]

\* The hub's loop is back at its select once the fan-out has visited everyone.
AtSelect == todo = {}

\* close(client.send): a second close is a Go panic.
CloseSend(c) ==
  /\ closed' = [closed EXCEPT ![c] = TRUE]
  /\ panic' = (panic \/ closed[c])

\* Messages that have entered the system and that the hub has not taken yet.
InFlight == {c \in Clients : reader[c] \in {"handling", "broadcasting"}}
Entered == bcast + Cardinality(InFlight) + (IF feeder = "broadcasting" THEN 1 ELSE 0)

-----------------------------------------------------------------------------
(* ServeWs: upgrade, hand the new Client to the hub, then start the pumps. *)

ServeWs(c) ==
  /\ serve[c] = "none"
  /\ serve' = [serve EXCEPT ![c] = "registering"]
  /\ UNCHANGED <<hubVars, feeder, reader, conn, chanVars, writerVars, joined>>

\* The two go statements follow at once; a goroutine that has not been
\* scheduled yet is one that has not taken its first step.
HubRegister(c) ==
  /\ AtSelect
  /\ serve[c] = "registering"
  /\ serve' = [serve EXCEPT ![c] = "returned"]
  /\ clients' = clients \union {c}
  /\ joined' = [joined EXCEPT ![c] = bcast]
  /\ reader' = [reader EXCEPT ![c] = "reading"]
  /\ writer' = [writer EXCEPT ![c] = "waiting"]
  /\ UNCHANGED <<todo, bcast, feeder, conn, chanVars, togo, frame, wire>>

-----------------------------------------------------------------------------
(* readPump.                                                               *)

\* A message the peer sent: bytes that were already buffered can still be
\* read after conn.Close, so the connection's state is not a guard.
ReadMessage(c) ==
  /\ reader[c] = "reading"
  /\ Entered < MaxBroadcasts
  /\ reader' = [reader EXCEPT ![c] = "handling"]
  /\ UNCHANGED <<hubVars, feeder, serve, conn, chanVars, writerVars, joined>>

\* HandleEvent (see Records.tla) returns; readPump blocks on hub.broadcast.
HandleEvent(c) ==
  /\ reader[c] = "handling"
  /\ reader' = [reader EXCEPT ![c] = "broadcasting"]
  /\ UNCHANGED <<hubVars, feeder, serve, conn, chanVars, writerVars, joined>>

\* The peer closed or vanished, the 60 s read deadline passed, a message was
\* over the size limit, or the other pump closed the connection.
ReadErrorNoUnregister(c) ==
  /\ reader[c] = "reading"
  /\ reader' = [reader EXCEPT ![c] = "closing"]
  /\ UNCHANGED <<hubVars, feeder, serve, conn, chanVars, writerVars, joined>>

ReadError(c) ==
  /\ reader[c] = "reading"
  /\ reader' = [reader EXCEPT ![c] = "unregistering"]
  /\ UNCHANGED <<hubVars, feeder, serve, conn, chanVars, writerVars, joined>>

CloseConn(c) ==
  /\ reader[c] = "closing"
  /\ reader' = [reader EXCEPT ![c] = "done"]
  /\ conn' = [conn EXCEPT ![c] = "closed"]
  /\ UNCHANGED <<hubVars, feeder, serve, chanVars, writerVars, joined>>

-----------------------------------------------------------------------------
(* The hub's select loop and its fan-out.                                  *)

HubUnregisterUnchecked(c) ==
  /\ AtSelect
  /\ reader[c] = "unregistering"
  /\ reader' = [reader EXCEPT ![c] = "closing"]
  /\ clients' = clients \ {c}
  /\ CloseSend(c)
  /\ UNCHANGED <<todo, bcast, feeder, serve, conn, send, writerVars, joined>>

HubUnregisterNoClose(c) ==
  /\ AtSelect
  /\ reader[c] = "unregistering"
  /\ reader' = [reader EXCEPT ![c] = "closing"]
  /\ clients' = clients \ {c}
  /\ UNCHANGED <<todo, bcast, feeder, serve, conn, chanVars, writerVars, joined>>

HubUnregister(c) ==
  /\ AtSelect
  /\ reader[c] = "unregistering"
  /\ reader' = [reader EXCEPT ![c] = "closing"]
  /\ IF c \in clients
     THEN clients' = clients \ {c} /\ CloseSend(c)
     ELSE UNCHANGED <<clients, closed, panic>>
  /\ UNCHANGED <<todo, bcast, feeder, serve, conn, send, writerVars, joined>>

StartFanOut ==
  /\ AtSelect
  /\ bcast' = bcast + 1
  /\ todo' = clients
  /\ UNCHANGED <<clients, serve, conn, chanVars, writerVars, joined>>

HubBroadcast(c) ==
  /\ reader[c] = "broadcasting"
  /\ reader' = [reader EXCEPT ![c] = "reading"]
  /\ StartFanOut
  /\ UNCHANGED feeder

HubBroadcastRedis ==
  /\ feeder = "broadcasting"
  /\ feeder' = "ranging"
  /\ StartFanOut
  /\ UNCHANGED reader

\* A message on the channel global_broadcast reaches the forwarding goroutine.
RedisMessage ==
  /\ feeder = "ranging"
  /\ Entered < MaxBroadcasts
  /\ feeder' = "broadcasting"
  /\ UNCHANGED <<hubVars, serve, reader, conn, chanVars, writerVars, joined>>

Push(c) ==
  /\ send' = [send EXCEPT ![c] = Append(@, bcast)]
  /\ panic' = (panic \/ closed[c])
  /\ UNCHANGED <<clients, closed>>

Evict(c) ==
  /\ CloseSend(c)
  /\ clients' = clients \ {c}
  /\ UNCHANGED send

HubDeliverOffByOne(c) ==
  /\ c \in todo
  /\ todo' = todo \ {c}
  /\ IF Len(send[c]) <= SendCap THEN Push(c) ELSE Evict(c)
  /\ UNCHANGED <<bcast, feeder, serve, reader, conn, writerVars, joined>>

HubDeliverBlocking(c) ==
  /\ c \in todo
  /\ Len(send[c]) < SendCap
  /\ todo' = todo \ {c}
  /\ Push(c)
  /\ UNCHANGED <<bcast, feeder, serve, reader, conn, writerVars, joined>>

HubDeliverSkip(c) ==
  /\ c \in todo
  /\ todo' = todo \ {c}
  /\ IF Len(send[c]) < SendCap THEN Push(c) ELSE UNCHANGED <<clients, chanVars>>
  /\ UNCHANGED <<bcast, feeder, serve, reader, conn, writerVars, joined>>

\* select { case client.send <- message: default: close and delete }
HubDeliver(c) ==
  /\ c \in todo
  /\ todo' = todo \ {c}
  /\ IF Len(send[c]) < SendCap THEN Push(c) ELSE Evict(c)
  /\ UNCHANGED <<bcast, feeder, serve, reader, conn, writerVars, joined>>

-----------------------------------------------------------------------------
(* writePump.                                                              *)

WriterTake(c) ==
  /\ writer[c] = "waiting"
  /\ send[c] # <<>>
  /\ writer' = [writer EXCEPT ![c] = "opening"]
  /\ frame' = [frame EXCEPT ![c] = <<Head(send[c])>>]
  /\ send' = [send EXCEPT ![c] = Tail(@)]
  /\ UNCHANGED <<hubVars, feeder, serve, reader, conn, closed, panic, togo, wire, joined>>

WriterOpenCountsTaken(c) ==
  /\ writer[c] = "opening"
  /\ writer' = [writer EXCEPT ![c] = "draining"]
  /\ togo' = [togo EXCEPT ![c] = Len(send[c]) + 1]
  /\ UNCHANGED <<hubVars, feeder, serve, reader, conn, chanVars, frame, wire, joined>>

\* NextWriter succeeds and n := len(c.send) is read.
WriterOpen(c) ==
  /\ writer[c] = "opening"
  /\ writer' = [writer EXCEPT ![c] = "draining"]
  /\ togo' = [togo EXCEPT ![c] = Len(send[c])]
  /\ UNCHANGED <<hubVars, feeder, serve, reader, conn, chanVars, frame, wire, joined>>

WriterDrain(c) ==
  /\ writer[c] = "draining"
  /\ togo[c] > 0
  /\ send[c] # <<>>
  /\ togo' = [togo EXCEPT ![c] = @ - 1]
  /\ frame' = [frame EXCEPT ![c] = Append(@, Head(send[c]))]
  /\ send' = [send EXCEPT ![c] = Tail(@)]
  /\ UNCHANGED <<hubVars, feeder, serve, reader, conn, closed, panic, writer, wire, joined>>

\* w.Close() succeeds: the whole frame is on the wire.
WriterFlushFirstOnly(c) ==
  /\ writer[c] = "draining"
  /\ togo[c] = 0
  /\ conn[c] = "open"
  /\ writer' = [writer EXCEPT ![c] = "waiting"]
  /\ wire' = [wire EXCEPT ![c] = Append(@, Head(frame[c]))]
  /\ frame' = [frame EXCEPT ![c] = <<>>]
  /\ UNCHANGED <<hubVars, feeder, serve, reader, conn, chanVars, togo, joined>>

WriterFlush(c) ==
  /\ writer[c] = "draining"
  /\ togo[c] = 0
  /\ conn[c] = "open"
  /\ writer' = [writer EXCEPT ![c] = "waiting"]
  /\ wire' = [wire EXCEPT ![c] = @ \o frame[c]]
  /\ frame' = [frame EXCEPT ![c] = <<>>]
  /\ UNCHANGED <<hubVars, feeder, serve, reader, conn, chanVars, togo, joined>>

\* writePump's deferred conn.Close.
WriterReturn(c) ==
  /\ writer' = [writer EXCEPT ![c] = "done"]
  /\ frame' = [frame EXCEPT ![c] = <<>>]
  /\ conn' = [conn EXCEPT ![c] = "closed"]
  /\ UNCHANGED <<hubVars, feeder, serve, reader, chanVars, togo, wire, joined>>

\* A ping, NextWriter or w.Close returned an error: the peer is gone, the
\* 10 s write deadline passed, or the connection is closed already.
WriteError(c) ==
  /\ \/ writer[c] \in {"waiting", "opening"}
     \/ writer[c] = "draining" /\ togo[c] = 0
  /\ WriterReturn(c)

\* The channel is closed and drained: say goodbye and return.
WriterClosed(c) ==
  /\ writer[c] = "waiting"
  /\ send[c] = <<>>
  /\ closed[c]
  /\ WriterReturn(c)

-----------------------------------------------------------------------------
\* The bound is used up and every connection is over: only then may the
\* model stop, so TLC's deadlock check looks for every other way to stop.
Quiescent ==
  /\ Entered = MaxBroadcasts
  /\ feeder = "ranging" /\ todo = {}
  /\ \A c \in Clients : reader[c] = "done" /\ writer[c] = "done"
  /\ UNCHANGED vars

Next ==
  \/ \E c \in Clients :
       \/ ServeWs(c) \/ HubRegister(c)
       \/ ReadMessage(c) \/ HandleEvent(c) \/ ReadError(c) \/ CloseConn(c)
       \/ HubUnregister(c) \/ HubBroadcast(c) \/ HubDeliver(c)
       \/ WriterTake(c) \/ WriterOpen(c) \/ WriterDrain(c) \/ WriterFlush(c)
       \/ WriteError(c) \/ WriterClosed(c)
  \/ RedisMessage \/ HubBroadcastRedis
  \/ Quiescent

Spec == Init /\ [][Next]_vars

\* A goroutine that can take a step takes one.  With the connection open a
\* write may succeed for ever; once it is closed the next one fails (the
\* ticker supplies one when there is nothing to send), and so does the next
\* read once the bytes already buffered are used up.
WriterStep(c) ==
  \/ WriterTake(c) \/ WriterOpen(c) \/ WriterDrain(c) \/ WriterFlush(c) \/ WriterClosed(c)
  \/ conn[c] = "closed" /\ WriteError(c)

ReaderStep(c) ==
  \/ HandleEvent(c) \/ CloseConn(c)
  \/ conn[c] = "closed" /\ ReadError(c)

\* The receives of the hub's select that serve connection c (at most one of
\* them can be pending at a time).
HubReceive(c) == HubRegister(c) \/ HubUnregister(c) \/ HubBroadcast(c)

\* Go's select picks at random among the ready cases and a channel serves its
\* waiting senders in order, so a receive that is possible again and again is
\* performed: strong fairness.  HandleEvent returns (its database calls have
\* no deadline of their own: that is an assumption).  The peer owes nothing:
\* no fairness for ReadMessage, or for errors while the connection is open.
Fairness ==
  /\ SF_vars(HubBroadcastRedis)
  /\ WF_vars(\E c \in Clients : HubDeliver(c))
  /\ \A c \in Clients :
       SF_vars(HubReceive(c)) /\ WF_vars(ReaderStep(c)) /\ WF_vars(WriterStep(c))

FairSpec == Spec /\ Fairness

-----------------------------------------------------------------------------
(* Properties.                                                             *)

\* Types, and the two bounds on memory the code relies on: a connection's
\* backlog never exceeds the channel's capacity, and an open frame holds the
\* message taken first and at most one buffer's worth of drained ones.
TypeOK ==
  /\ clients \in SUBSET Clients /\ todo \in SUBSET Clients
  /\ bcast \in Nat
  /\ feeder \in {"ranging", "broadcasting"}
  /\ serve \in [Clients -> {"none", "registering", "returned"}]
  /\ reader \in [Clients -> ReaderState]
  /\ writer \in [Clients -> WriterState]
  /\ conn \in [Clients -> {"open", "closed"}]
  /\ send \in [Clients -> Seq(Nat)] /\ \A c \in Clients : Len(send[c]) <= SendCap
  /\ closed \in [Clients -> BOOLEAN] /\ panic \in BOOLEAN
  /\ togo \in [Clients -> Nat]
  /\ frame \in [Clients -> Seq(Nat)]
  /\ \A c \in Clients : Len(frame[c]) + togo[c] <= SendCap + 1
  /\ wire \in [Clients -> Seq(Nat)]
  /\ joined \in [Clients -> Nat]

\* Two owners may close a connection's channel, the unregister branch and the
\* eviction in the fan-out (hub.go:53 and hub.go:60), in either order, and the
\* fan-out may find it closed: the process never dies of a send on, or a
\* second close of, a closed channel.
NoPanic == ~panic

\* Membership and the channel stand or fall together: a registered connection
\* has an open channel, and one the hub has dropped has a closed one, without
\* which its writePump would wait for ever.
OpenIffMember ==
  \A c \in Clients : serve[c] = "returned" => (c \in clients <=> ~closed[c])

\* The inner loop of writePump (client.go:92-95) receives n times without
\* looking at the channel again: whatever the hub does meanwhile (push, evict,
\* unregister) the n messages are there, so the loop never blocks and never
\* writes the zero value of a closed channel.
DrainNeverBlocks == \A c \in Clients : togo[c] <= Len(send[c])

\* The event numbers of a sequence continue the numbering after n.
Follows(s, n) == \A i \in DOMAIN s : s[i] = n + i

\* Where the next broadcast stands in c's pipeline: everything up to here has
\* been pushed to c's channel by the hub.
Shown(c) == joined[c] + Len(wire[c])
Written(c) == Shown(c) + Len(frame[c])
Queued(c) == Written(c) + Len(send[c])

\* What has been written, is being written and is queued for a connection is
\* one gap-free run of the broadcasts since its registration, and for a
\* registered one the run ends at the latest broadcast (the one before it
\* while the fan-out has not reached the connection): an event is lost to a
\* connection only by cutting the connection off.
InOrderNoGaps ==
  \A c \in Clients :
    /\ Follows(wire[c], joined[c])
    /\ writer[c] # "done" =>
         /\ Follows(frame[c], Shown(c))
         /\ Follows(send[c], Written(c))
         /\ c \in clients => Queued(c) = IF c \in todo THEN bcast - 1 ELSE bcast

\* The hub implements the feed: what a peer is shown is what Feed.tla promises.
FeedPhase ==
  [c \in Clients |-> IF serve[c] # "returned" THEN "out"
                     ELSE IF writer[c] = "done" THEN "cut" ELSE "on"]

FeedView == INSTANCE Feed WITH published <- bcast, phase <- FeedPhase, since <- joined

ImplementsFeed == FeedView!Spec

\* Whichever way a connection begins to end (its peer leaves, a write fails,
\* the hub evicts it), both pumps end, its channel is closed and the hub
\* forgets it: nothing is leaked.
Ending(c) ==
  /\ serve[c] = "returned"
  /\ \/ conn[c] = "closed" \/ closed[c]
     \/ reader[c] \in {"unregistering", "closing", "done"}
Gone(c) == reader[c] = "done" /\ writer[c] = "done" /\ c \notin clients /\ closed[c]
TornDown == \A c \in Clients : Ending(c) ~> Gone(c)

\* A broadcast made while a connection is registered reaches its wire, or the
\* connection is cut off; a silent or slow peer cannot keep it pending.
Delivered ==
  \A c \in Clients : \A k \in 1..MaxBroadcasts :
    (bcast = k /\ c \in clients /\ joined[c] < k)
      ~> (Shown(c) >= k \/ writer[c] = "done")

\* Nobody waits for the hub for ever: not a connection that registers, not a
\* readPump that broadcasts or unregisters, not the Redis goroutine; a slow
\* peer is evicted rather than waited for.
HubServesAll ==
  /\ feeder = "broadcasting" ~> feeder = "ranging"
  /\ \A c \in Clients :
       /\ serve[c] = "registering" ~> serve[c] = "returned"
       /\ reader[c] \in {"broadcasting", "unregistering"}
            ~> reader[c] \in {"reading", "closing"}

\* Every frame carries one event: useWebSocket.ts:37 parses a frame as one
\* JSON document, and models/events.go:18 calls WSEvent the wrapper of all
\* messages.  writePump's drain loop writes the queued events into the same
\* frame with nothing between them.
OneEventPerFrame == \A c \in Clients : Len(frame[c]) <= 1

=============================================================================
