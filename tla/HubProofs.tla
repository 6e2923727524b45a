----------------------------- MODULE HubProofs ------------------------------
(***************************************************************************)
(* Machine-checked proofs about Hub, for any set of connections, any       *)
(* channel capacity and any number of messages.                            *)
(***************************************************************************)
EXTENDS Hub, SequenceTheorems, TLAPS

\* Before ServeWs has handed c over nothing of c has moved.
Fresh(c) ==
  serve[c] # "returned" =>
    /\ reader[c] = "none" /\ writer[c] = "none"
    /\ c \notin clients /\ ~closed[c]
    /\ send[c] = <<>> /\ frame[c] = <<>> /\ wire[c] = <<>> /\ joined[c] = 0

\* Afterwards both pumps exist, and membership and the channel agree.
Started(c) ==
  serve[c] = "returned" =>
    /\ reader[c] # "none" /\ writer[c] # "none"
    /\ c \in clients <=> ~closed[c]

\* What writePump's position says about its frame and its countdown.
WriterOK(c) ==
  /\ togo[c] <= Len(send[c])
  /\ writer[c] # "draining" => togo[c] = 0
  /\ writer[c] = "opening" => Len(frame[c]) = 1
  /\ frame[c] = <<>> <=> writer[c] \notin {"opening", "draining"}

\* The two bounds of TypeOK, for one connection.
Bounds(c) == Len(send[c]) <= SendCap /\ Len(frame[c]) + togo[c] <= SendCap + 1

ConnInv(c) == Fresh(c) /\ Started(c) /\ WriterOK(c) /\ Bounds(c)

PlainTypes ==
  /\ clients \subseteq Clients /\ todo \subseteq clients
  /\ bcast \in Nat /\ feeder \in {"ranging", "broadcasting"}
  /\ serve \in [Clients -> {"none", "registering", "returned"}]
  /\ reader \in [Clients -> ReaderState] /\ writer \in [Clients -> WriterState]
  /\ conn \in [Clients -> {"open", "closed"}]
  /\ closed \in [Clients -> BOOLEAN] /\ panic = FALSE
  /\ togo \in [Clients -> Nat] /\ joined \in [Clients -> Nat]

QueueTypes ==
  /\ send \in [Clients -> Seq(Nat)] /\ frame \in [Clients -> Seq(Nat)]
  /\ wire \in [Clients -> Seq(Nat)]

\* The inductive invariant of the channel protocol.
ChanInv == PlainTypes /\ QueueTypes /\ \A c \in Clients : ConnInv(c)

-----------------------------------------------------------------------------
(* Facts about one-element queue operations.                               *)

\* The empty queue is a queue of length 0.
LEMMA NoneQueued == <<>> \in Seq(Nat) /\ Len(<<>>) = 0
BY EmptySeq

\* A queue's length is a number, and 0 only for the empty queue.
LEMMA QueueLen ==
  ASSUME NEW s \in Seq(Nat)
  PROVE  Len(s) \in Nat /\ (s # <<>> => Len(s) > 0)
BY EmptySeq, LenProperties

\* Appending keeps the sequence typed and adds one to its length.
LEMMA PushFacts ==
  ASSUME NEW s \in Seq(Nat), NEW e \in Nat
  PROVE  /\ Append(s, e) \in Seq(Nat)
         /\ Len(Append(s, e)) = Len(s) + 1
         /\ Append(s, e) # <<>>
BY AppendProperties

\* Taking the head of a nonempty queue.
LEMMA PopFacts ==
  ASSUME NEW s \in Seq(Nat), s # <<>>
  PROVE  /\ Head(s) \in Nat
         /\ Tail(s) \in Seq(Nat)
         /\ Len(s) \in Nat \ {0}
         /\ Len(Tail(s)) = Len(s) - 1
BY HeadTailProperties, EmptySeq

\* The queue that holds one message.
LEMMA OneQueued ==
  ASSUME NEW e \in Nat
  PROVE  <<e>> \in Seq(Nat) /\ Len(<<e>>) = 1 /\ <<e>> # <<>>
OBVIOUS

-----------------------------------------------------------------------------
LEMMA ChanInit == Init => ChanInv
<1> SUFFICES ASSUME Init PROVE ChanInv
  OBVIOUS
<1>1. PlainTypes
  BY DEF Init, PlainTypes, ReaderState, WriterState
<1>2. QueueTypes
  BY NoneQueued DEF Init, QueueTypes
<1>3. ASSUME NEW c \in Clients PROVE ConnInv(c)
  <2>1. /\ serve[c] = "none" /\ reader[c] = "none" /\ writer[c] = "none"
        /\ ~closed[c] /\ togo[c] = 0 /\ joined[c] = 0 /\ c \notin clients
        /\ send[c] = <<>> /\ frame[c] = <<>> /\ wire[c] = <<>>
    BY DEF Init
  <2> QED
    BY <2>1, NoneQueued, HubAssumption DEF ConnInv, Fresh, Started, WriterOK, Bounds
<1> QED
  BY <1>1, <1>2, <1>3 DEF ChanInv

LEMMA ChanStep == ChanInv /\ [Next]_vars => ChanInv'
<1> SUFFICES ASSUME ChanInv, [Next]_vars PROVE ChanInv'
  OBVIOUS
<1> USE DEF ChanInv, vars, hubVars, chanVars, writerVars
<1>1. ASSUME NEW c \in Clients, ServeWs(c) PROVE ChanInv'
  <2>1. PlainTypes'
    BY <1>1 DEF ServeWs, PlainTypes, ReaderState, WriterState, ConnInv, Fresh, Started, WriterOK, Bounds
  <2>2. QueueTypes'
    BY <1>1 DEF ServeWs, QueueTypes
  <2>3. ASSUME NEW d \in Clients PROVE ConnInv(d)'
    BY <1>1 DEF ServeWs, PlainTypes, ConnInv, Fresh, Started, WriterOK, Bounds
  <2> QED BY <2>1, <2>2, <2>3
<1>2. ASSUME NEW c \in Clients, HubRegister(c) PROVE ChanInv'
  <2>1. PlainTypes'
    BY <1>2 DEF HubRegister, AtSelect, PlainTypes, ReaderState, WriterState, ConnInv, Fresh, Started, WriterOK, Bounds
  <2>2. QueueTypes'
    BY <1>2 DEF HubRegister, AtSelect, QueueTypes
  <2>3. ASSUME NEW d \in Clients PROVE ConnInv(d)'
    BY <1>2 DEF HubRegister, AtSelect, PlainTypes, ConnInv, Fresh, Started, WriterOK, Bounds
  <2> QED BY <2>1, <2>2, <2>3
<1>3. ASSUME NEW c \in Clients, ReadMessage(c) PROVE ChanInv'
  <2>1. PlainTypes'
    BY <1>3 DEF ReadMessage, PlainTypes, ReaderState, WriterState, ConnInv, Fresh, Started, WriterOK, Bounds
  <2>2. QueueTypes'
    BY <1>3 DEF ReadMessage, QueueTypes
  <2>3. ASSUME NEW d \in Clients PROVE ConnInv(d)'
    BY <1>3 DEF ReadMessage, PlainTypes, ConnInv, Fresh, Started, WriterOK, Bounds
  <2> QED BY <2>1, <2>2, <2>3
<1>4. ASSUME NEW c \in Clients, HandleEvent(c) PROVE ChanInv'
  <2>1. PlainTypes'
    BY <1>4 DEF HandleEvent, PlainTypes, ReaderState, WriterState, ConnInv, Fresh, Started, WriterOK, Bounds
  <2>2. QueueTypes'
    BY <1>4 DEF HandleEvent, QueueTypes
  <2>3. ASSUME NEW d \in Clients PROVE ConnInv(d)'
    BY <1>4 DEF HandleEvent, PlainTypes, ConnInv, Fresh, Started, WriterOK, Bounds
  <2> QED BY <2>1, <2>2, <2>3
<1>5. ASSUME NEW c \in Clients, ReadError(c) PROVE ChanInv'
  <2>1. PlainTypes'
    BY <1>5 DEF ReadError, PlainTypes, ReaderState, WriterState, ConnInv, Fresh, Started, WriterOK, Bounds
  <2>2. QueueTypes'
    BY <1>5 DEF ReadError, QueueTypes
  <2>3. ASSUME NEW d \in Clients PROVE ConnInv(d)'
    BY <1>5 DEF ReadError, PlainTypes, ConnInv, Fresh, Started, WriterOK, Bounds
  <2> QED BY <2>1, <2>2, <2>3
<1>6. ASSUME NEW c \in Clients, CloseConn(c) PROVE ChanInv'
  <2>1. PlainTypes'
    BY <1>6 DEF CloseConn, PlainTypes, ReaderState, WriterState, ConnInv, Fresh, Started, WriterOK, Bounds
  <2>2. QueueTypes'
    BY <1>6 DEF CloseConn, QueueTypes
  <2>3. ASSUME NEW d \in Clients PROVE ConnInv(d)'
    BY <1>6 DEF CloseConn, PlainTypes, ConnInv, Fresh, Started, WriterOK, Bounds
  <2> QED BY <2>1, <2>2, <2>3
<1>7. ASSUME NEW c \in Clients, HubUnregister(c) PROVE ChanInv'
  <2>1. PlainTypes'
    BY <1>7 DEF HubUnregister, AtSelect, CloseSend, PlainTypes, ReaderState, WriterState, ConnInv, Fresh, Started, WriterOK, Bounds
  <2>2. QueueTypes'
    BY <1>7 DEF HubUnregister, AtSelect, CloseSend, QueueTypes
  <2>3. ASSUME NEW d \in Clients PROVE ConnInv(d)'
    BY <1>7 DEF HubUnregister, AtSelect, CloseSend, PlainTypes, ConnInv, Fresh, Started, WriterOK, Bounds
  <2> QED BY <2>1, <2>2, <2>3
<1>8. ASSUME NEW c \in Clients, HubBroadcast(c) PROVE ChanInv'
  <2>1. PlainTypes'
    BY <1>8 DEF HubBroadcast, StartFanOut, AtSelect, PlainTypes, ReaderState, WriterState, ConnInv, Fresh, Started, WriterOK, Bounds
  <2>2. QueueTypes'
    BY <1>8 DEF HubBroadcast, StartFanOut, AtSelect, QueueTypes
  <2>3. ASSUME NEW d \in Clients PROVE ConnInv(d)'
    BY <1>8 DEF HubBroadcast, StartFanOut, AtSelect, PlainTypes, ConnInv, Fresh, Started, WriterOK, Bounds
  <2> QED BY <2>1, <2>2, <2>3
<1>9. ASSUME NEW c \in Clients, HubDeliver(c) PROVE ChanInv'
  <2>1. /\ c \in clients /\ ~closed[c] /\ serve[c] = "returned"
        /\ todo' = todo \ {c}
        /\ UNCHANGED <<bcast, feeder, serve, reader, conn, writer, togo, frame, wire, joined>>
    BY <1>9 DEF HubDeliver, PlainTypes, ConnInv, Fresh, Started, WriterOK, Bounds
  <2>2. CASE Len(send[c]) < SendCap
    <3> DEFINE s == Append(send[c], bcast)
    <3>1. /\ send' = [send EXCEPT ![c] = s] /\ panic' = FALSE
          /\ UNCHANGED <<clients, closed>>
      BY <1>9, <2>1, <2>2 DEF HubDeliver, Push, PlainTypes
    <3>2. s \in Seq(Nat) /\ Len(s) = Len(send[c]) + 1 /\ Len(send[c]) \in Nat
      BY PushFacts, QueueLen DEF PlainTypes, QueueTypes
    <3> HIDE DEF s
    <3>3. PlainTypes'
      BY <2>1, <3>1 DEF PlainTypes
    <3>4. QueueTypes'
      BY <2>1, <3>1, <3>2 DEF QueueTypes
    <3>5. ASSUME NEW d \in Clients, d # c PROVE ConnInv(d)'
      BY <2>1, <3>1, <3>5 DEF QueueTypes, ConnInv, Fresh, Started, WriterOK, Bounds
    <3>6. ConnInv(c)'
      <4>1. send'[c] = s
        BY <3>1 DEF QueueTypes
      <4> QED BY <2>1, <2>2, <3>1, <3>2, <4>1, HubAssumption DEF PlainTypes, ConnInv, Fresh, Started, WriterOK, Bounds
    <3> QED BY <3>3, <3>4, <3>5, <3>6
  <2>3. CASE ~(Len(send[c]) < SendCap)
    <3>1. /\ clients' = clients \ {c} /\ send' = send /\ panic' = FALSE
          /\ closed' = [closed EXCEPT ![c] = TRUE]
      BY <1>9, <2>1, <2>3 DEF HubDeliver, Evict, CloseSend, PlainTypes
    <3>2. PlainTypes' /\ QueueTypes'
      BY <2>1, <3>1 DEF PlainTypes, QueueTypes
    <3>3. ASSUME NEW d \in Clients PROVE ConnInv(d)'
      BY <2>1, <3>1 DEF PlainTypes, ConnInv, Fresh, Started, WriterOK, Bounds
    <3> QED BY <3>2, <3>3
  <2> QED BY <2>2, <2>3
<1>10. ASSUME NEW c \in Clients, WriterTake(c) PROVE ChanInv'
  <2> DEFINE s == Tail(send[c])  f == <<Head(send[c])>>
  <2>1. /\ writer[c] = "waiting" /\ writer' = [writer EXCEPT ![c] = "opening"]
        /\ send' = [send EXCEPT ![c] = s] /\ frame' = [frame EXCEPT ![c] = f]
        /\ UNCHANGED <<clients, todo, bcast, feeder, serve, reader, conn, closed, panic, togo,
                      wire, joined>>
    BY <1>10 DEF WriterTake
  <2>2. /\ s \in Seq(Nat) /\ Len(s) = Len(send[c]) - 1 /\ Len(send[c]) \in Nat /\ Len(s) \in Nat
        /\ f \in Seq(Nat) /\ Len(f) = 1 /\ f # <<>>
    BY <1>10, PopFacts, OneQueued DEF WriterTake, QueueTypes
  <2> HIDE DEF s, f
  <2>3. PlainTypes'
    BY <2>1, <2>2 DEF PlainTypes, WriterState
  <2>4. QueueTypes'
    BY <2>1, <2>2 DEF QueueTypes
  <2>5. ASSUME NEW d \in Clients, d # c PROVE ConnInv(d)'
    BY <2>1, <2>5 DEF PlainTypes, QueueTypes, ConnInv, Fresh, Started, WriterOK, Bounds
  <2>6. ConnInv(c)'
    <3>1. /\ send'[c] = s /\ frame'[c] = f /\ writer'[c] = "opening" /\ togo'[c] = togo[c]
      BY <2>1 DEF PlainTypes, QueueTypes
    <3>2. /\ serve[c] = "returned" /\ writer[c] = "waiting" /\ togo[c] \in Nat
          /\ Len(send[c]) <= SendCap /\ Len(frame[c]) + togo[c] <= SendCap + 1
          /\ togo[c] <= Len(send[c]) /\ (writer[c] # "draining" => togo[c] = 0)
          /\ (writer[c] = "opening" => Len(frame[c]) = 1)
          /\ (frame[c] = <<>> <=> writer[c] \notin {"opening", "draining"})
      BY <2>1 DEF PlainTypes, ConnInv, Fresh, WriterOK, Bounds
    <3>3. SendCap \in Nat
      BY HubAssumption
    <3>4. Bounds(c)'
      <4>1. Len(frame'[c]) = 1 /\ togo'[c] = 0 /\ Len(send'[c]) = Len(send[c]) - 1
        BY <2>2, <3>1, <3>2
      <4>2. Len(send[c]) \in Nat /\ Len(send[c]) <= SendCap
        BY <2>2, <3>2
      <4> QED BY <3>3, <4>1, <4>2 DEF Bounds
    <3>5. WriterOK(c)'
      BY <2>2, <3>1, <3>2 DEF WriterOK
    <3> QED
      BY <2>1, <3>1, <3>2, <3>4, <3>5 DEF ConnInv, Fresh, Started
  <2> QED BY <2>3, <2>4, <2>5, <2>6
<1>11. ASSUME NEW c \in Clients, WriterOpen(c) PROVE ChanInv'
  <2>1. /\ writer[c] = "opening" /\ writer' = [writer EXCEPT ![c] = "draining"]
        /\ togo' = [togo EXCEPT ![c] = Len(send[c])]
        /\ UNCHANGED <<clients, todo, bcast, feeder, serve, reader, conn, send, closed, panic,
                      frame, wire, joined>>
    BY <1>11 DEF WriterOpen
  <2>2. Len(send[c]) \in Nat
    BY QueueLen DEF QueueTypes
  <2>3. PlainTypes'
    BY <2>1, <2>2 DEF PlainTypes, WriterState
  <2>4. QueueTypes'
    BY <2>1, <2>2 DEF QueueTypes
  <2>5. ASSUME NEW d \in Clients, d # c PROVE ConnInv(d)'
    BY <2>1, <2>5 DEF PlainTypes, QueueTypes, ConnInv, Fresh, Started, WriterOK, Bounds
  <2>6. ConnInv(c)'
    <3>1. /\ send'[c] = send[c] /\ frame'[c] = frame[c] /\ writer'[c] = "draining"
          /\ togo'[c] = Len(send[c])
      BY <2>1 DEF PlainTypes, QueueTypes
    <3>2. /\ serve[c] = "returned" /\ writer[c] = "opening" /\ togo[c] \in Nat
          /\ Len(send[c]) <= SendCap /\ Len(frame[c]) + togo[c] <= SendCap + 1
          /\ togo[c] <= Len(send[c]) /\ (writer[c] # "draining" => togo[c] = 0)
          /\ (writer[c] = "opening" => Len(frame[c]) = 1)
          /\ (frame[c] = <<>> <=> writer[c] \notin {"opening", "draining"})
      BY <2>1 DEF PlainTypes, ConnInv, Fresh, WriterOK, Bounds
    <3>3. SendCap \in Nat
      BY HubAssumption
    <3>4. Bounds(c)'
      <4>1. /\ Len(frame'[c]) = 1 /\ togo'[c] = Len(send[c])
            /\ Len(send'[c]) = Len(send[c])
        BY <3>1, <3>2
      <4> QED BY <2>2, <3>2, <3>3, <4>1 DEF Bounds
    <3>5. WriterOK(c)'
      BY <2>2, <3>1, <3>2 DEF WriterOK
    <3> QED
      BY <2>1, <3>1, <3>2, <3>4, <3>5 DEF ConnInv, Fresh, Started
  <2> QED BY <2>3, <2>4, <2>5, <2>6
<1>12. ASSUME NEW c \in Clients, WriterDrain(c) PROVE ChanInv'
  <2> DEFINE s == Tail(send[c])  f == Append(frame[c], Head(send[c]))
  <2>1. /\ writer[c] = "draining" /\ send' = [send EXCEPT ![c] = s]
        /\ frame' = [frame EXCEPT ![c] = f]
        /\ togo' = [togo EXCEPT ![c] = togo[c] - 1] /\ togo[c] > 0
        /\ UNCHANGED <<clients, todo, bcast, feeder, serve, reader, conn, closed, panic, writer,
                      wire, joined>>
    BY <1>12 DEF WriterDrain
  <2>2. /\ s \in Seq(Nat) /\ Len(s) = Len(send[c]) - 1 /\ Len(send[c]) \in Nat /\ Len(s) \in Nat
        /\ f \in Seq(Nat) /\ Len(f) = Len(frame[c]) + 1 /\ f # <<>>
        /\ Len(frame[c]) \in Nat
    BY <1>12, PopFacts, PushFacts, QueueLen DEF WriterDrain, QueueTypes
  <2> HIDE DEF s, f
  <2>3. PlainTypes'
    BY <2>1, <2>2 DEF PlainTypes, WriterState
  <2>4. QueueTypes'
    BY <2>1, <2>2 DEF QueueTypes
  <2>5. ASSUME NEW d \in Clients, d # c PROVE ConnInv(d)'
    BY <2>1, <2>5 DEF PlainTypes, QueueTypes, ConnInv, Fresh, Started, WriterOK, Bounds
  <2>6. ConnInv(c)'
    <3>1. /\ send'[c] = s /\ frame'[c] = f /\ writer'[c] = "draining"
          /\ togo'[c] = togo[c] - 1
      BY <2>1 DEF PlainTypes, QueueTypes
    <3>2. /\ serve[c] = "returned" /\ writer[c] = "draining" /\ togo[c] \in Nat
          /\ Len(send[c]) <= SendCap /\ Len(frame[c]) + togo[c] <= SendCap + 1
          /\ togo[c] <= Len(send[c]) /\ (writer[c] # "draining" => togo[c] = 0)
          /\ (writer[c] = "opening" => Len(frame[c]) = 1)
          /\ (frame[c] = <<>> <=> writer[c] \notin {"opening", "draining"})
      BY <2>1 DEF PlainTypes, ConnInv, Fresh, WriterOK, Bounds
    <3>3. SendCap \in Nat
      BY HubAssumption
    <3>4. Bounds(c)'
      <4>1. /\ Len(frame'[c]) = Len(frame[c]) + 1 /\ togo'[c] = togo[c] - 1
            /\ Len(send'[c]) = Len(send[c]) - 1
        BY <2>2, <3>1
      <4>2. /\ Len(send[c]) \in Nat /\ Len(frame[c]) \in Nat /\ togo[c] \in Nat
            /\ Len(send[c]) <= SendCap /\ Len(frame[c]) + togo[c] <= SendCap + 1
        BY <2>2, <3>2
      <4> QED BY <3>3, <4>1, <4>2 DEF Bounds
    <3>5. WriterOK(c)'
      BY <2>2, <3>1, <3>2 DEF WriterOK
    <3> QED
      BY <2>1, <3>1, <3>2, <3>4, <3>5 DEF ConnInv, Fresh, Started
  <2> QED BY <2>3, <2>4, <2>5, <2>6
<1>13. ASSUME NEW c \in Clients, WriterFlush(c) PROVE ChanInv'
  <2> DEFINE w == wire[c] \o frame[c]
  <2>1. /\ writer[c] = "draining" /\ writer' = [writer EXCEPT ![c] = "waiting"]
        /\ togo[c] = 0 /\ wire' = [wire EXCEPT ![c] = w] /\ frame' = [frame EXCEPT ![c] = <<>>]
        /\ UNCHANGED <<clients, todo, bcast, feeder, serve, reader, conn, send, closed, panic,
                      togo, joined>>
    BY <1>13 DEF WriterFlush
  <2>2. w \in Seq(Nat) /\ <<>> \in Seq(Nat) /\ Len(<<>>) = 0
    BY ConcatProperties, NoneQueued DEF QueueTypes
  <2> HIDE DEF w
  <2>3. PlainTypes'
    BY <2>1, <2>2 DEF PlainTypes, WriterState
  <2>4. QueueTypes'
    BY <2>1, <2>2 DEF QueueTypes
  <2>5. ASSUME NEW d \in Clients, d # c PROVE ConnInv(d)'
    BY <2>1, <2>5 DEF PlainTypes, QueueTypes, ConnInv, Fresh, Started, WriterOK, Bounds
  <2>6. ConnInv(c)'
    BY <2>1, <2>2, HubAssumption DEF PlainTypes, QueueTypes, ConnInv, Fresh, Started, WriterOK, Bounds
  <2> QED BY <2>3, <2>4, <2>5, <2>6
<1>14. ASSUME NEW c \in Clients, WriteError(c) \/ WriterClosed(c) PROVE ChanInv'
  <2>1. /\ writer[c] \in {"waiting", "opening", "draining"} /\ togo[c] = 0
        /\ writer' = [writer EXCEPT ![c] = "done"]
        /\ frame' = [frame EXCEPT ![c] = <<>>] /\ conn' = [conn EXCEPT ![c] = "closed"]
        /\ UNCHANGED <<clients, todo, bcast, feeder, serve, reader, send, closed, panic, togo,
                      wire, joined>>
    BY <1>14 DEF WriteError, WriterClosed, WriterReturn, ConnInv, Fresh, Started, WriterOK, Bounds
  <2>2. <<>> \in Seq(Nat) /\ Len(<<>>) = 0
    BY NoneQueued
  <2>3. PlainTypes'
    BY <2>1, <2>2 DEF PlainTypes, WriterState
  <2>4. QueueTypes'
    BY <2>1, <2>2 DEF QueueTypes
  <2>5. ASSUME NEW d \in Clients, d # c PROVE ConnInv(d)'
    BY <2>1, <2>5 DEF PlainTypes, QueueTypes, ConnInv, Fresh, Started, WriterOK, Bounds
  <2>6. ConnInv(c)'
    BY <2>1, <2>2, HubAssumption DEF PlainTypes, QueueTypes, ConnInv, Fresh, Started, WriterOK, Bounds
  <2> QED BY <2>3, <2>4, <2>5, <2>6
<1>15. CASE RedisMessage
  <2>1. PlainTypes'
    BY <1>15 DEF RedisMessage, PlainTypes, ReaderState, WriterState, ConnInv, Fresh, Started, WriterOK, Bounds
  <2>2. QueueTypes'
    BY <1>15 DEF RedisMessage, QueueTypes
  <2>3. ASSUME NEW d \in Clients PROVE ConnInv(d)'
    BY <1>15 DEF RedisMessage, PlainTypes, ConnInv, Fresh, Started, WriterOK, Bounds
  <2> QED BY <2>1, <2>2, <2>3
<1>16. CASE HubBroadcastRedis
  <2>1. PlainTypes'
    BY <1>16 DEF HubBroadcastRedis, StartFanOut, AtSelect, PlainTypes, ReaderState, WriterState, ConnInv, Fresh, Started, WriterOK, Bounds
  <2>2. QueueTypes'
    BY <1>16 DEF HubBroadcastRedis, StartFanOut, AtSelect, QueueTypes
  <2>3. ASSUME NEW d \in Clients PROVE ConnInv(d)'
    BY <1>16 DEF HubBroadcastRedis, StartFanOut, AtSelect, PlainTypes, ConnInv, Fresh, Started, WriterOK, Bounds
  <2> QED BY <2>1, <2>2, <2>3
<1>17. CASE Quiescent \/ UNCHANGED vars
  <2>1. PlainTypes'
    BY <1>17 DEF Quiescent, PlainTypes, ReaderState, WriterState, ConnInv, Fresh, Started, WriterOK, Bounds
  <2>2. QueueTypes'
    BY <1>17 DEF Quiescent, QueueTypes
  <2>3. ASSUME NEW d \in Clients PROVE ConnInv(d)'
    BY <1>17 DEF Quiescent, PlainTypes, ConnInv, Fresh, Started, WriterOK, Bounds
  <2> QED BY <2>1, <2>2, <2>3
<1> QED
  BY <1>1, <1>2, <1>3, <1>4, <1>5, <1>6, <1>7, <1>8, <1>9, <1>10, <1>11, <1>12, <1>13,
     <1>14, <1>15, <1>16, <1>17 DEF Next

\* What the channel invariant gives the properties of Hub.tla.
LEMMA ChanFacts ==
  ChanInv => TypeOK /\ NoPanic /\ OpenIffMember /\ DrainNeverBlocks
<1> SUFFICES ASSUME ChanInv PROVE TypeOK /\ NoPanic /\ OpenIffMember /\ DrainNeverBlocks
  OBVIOUS
<1>1. \A c \in Clients : Len(send[c]) <= SendCap /\ Len(frame[c]) + togo[c] <= SendCap + 1
  BY DEF ChanInv, ConnInv, Bounds
<1>2. TypeOK
  BY <1>1 DEF ChanInv, PlainTypes, QueueTypes, TypeOK
<1>3. NoPanic
  BY DEF ChanInv, PlainTypes, NoPanic
<1>4. OpenIffMember
  BY DEF ChanInv, ConnInv, Started, OpenIffMember
<1>5. DrainNeverBlocks
  BY DEF ChanInv, ConnInv, WriterOK, DrainNeverBlocks
<1> QED
  BY <1>2, <1>3, <1>4, <1>5

LEMMA ChanInvariant == Spec => []ChanInv
BY ChanInit, ChanStep, PTL DEF Spec

\* The state is well typed, no channel holds more than its capacity and no
\* open frame more than one message plus one buffer (client.go:90-95).
THEOREM TypeCorrect == Spec => []TypeOK
BY ChanInvariant, ChanFacts, PTL

\* No interleaving of unregistering, eviction and fan-out closes a send
\* channel twice or sends on a closed one (hub.go:50-61).
THEOREM PanicFree == Spec => []NoPanic
BY ChanInvariant, ChanFacts, PTL

\* The hub's map and the channels agree at every step (hub.go:48-61).
THEOREM MembersOpen == Spec => []OpenIffMember
BY ChanInvariant, ChanFacts, PTL

\* The drain loop of writePump finds every message it counted (client.go:92-95).
THEOREM DrainReady == Spec => []DrainNeverBlocks
BY ChanInvariant, ChanFacts, PTL

-----------------------------------------------------------------------------
(* Order: what is written, being written and queued is one run of the      *)
(* broadcasts since the registration.                                      *)

OrderOK(c) ==
  /\ Follows(wire[c], joined[c])
  /\ writer[c] # "done" =>
       /\ Follows(frame[c], Shown(c))
       /\ Follows(send[c], Written(c))
       /\ Queued(c) <= bcast
       /\ c \in clients => Queued(c) = IF c \in todo THEN bcast - 1 ELSE bcast

OrderInv == ChanInv /\ \A c \in Clients : OrderOK(c)

\* The empty sequence continues any numbering.
LEMMA FollowsEmpty == \A n \in Nat : Follows(<<>>, n)
BY DEF Follows

\* The next number may be appended.
LEMMA FollowsPush ==
  ASSUME NEW s \in Seq(Nat), NEW n \in Nat, NEW e \in Nat, Follows(s, n), e = n + Len(s) + 1
  PROVE  Follows(Append(s, e), n)
<1>1. Len(s) \in Nat /\ DOMAIN s = 1..Len(s)
  BY LenProperties
<1>2. /\ DOMAIN Append(s, e) = 1..(Len(s) + 1)
      /\ \A i \in 1..Len(s) : Append(s, e)[i] = s[i]
      /\ Append(s, e)[Len(s) + 1] = e
  BY <1>1, AppendProperties
<1>3. ASSUME NEW i \in 1..(Len(s) + 1) PROVE Append(s, e)[i] = n + i
  <2>1. CASE i \in 1..Len(s)
    BY <1>1, <1>2, <2>1 DEF Follows
  <2>2. CASE i = Len(s) + 1
    BY <1>1, <1>2, <2>2
  <2> QED BY <1>1, <2>1, <2>2
<1> QED BY <1>2, <1>3 DEF Follows

\* The head is the next number, and the tail continues after it.
LEMMA FollowsPop ==
  ASSUME NEW s \in Seq(Nat), NEW n \in Nat, s # <<>>, Follows(s, n)
  PROVE  Head(s) = n + 1 /\ Follows(Tail(s), n + 1)
<1>1. Len(s) \in Nat /\ Len(s) > 0 /\ DOMAIN s = 1..Len(s)
  BY LenProperties, EmptySeq
<1>2. Head(s) = n + 1
  BY <1>1 DEF Follows
<1>3. /\ Tail(s) \in Seq(Nat) /\ Len(Tail(s)) = Len(s) - 1
      /\ \A i \in 1..(Len(s) - 1) : Tail(s)[i] = s[i + 1]
  BY HeadTailProperties
<1>4. DOMAIN Tail(s) = 1..(Len(s) - 1)
  BY <1>3, LenProperties
<1>5. ASSUME NEW i \in 1..(Len(s) - 1) PROVE Tail(s)[i] = n + 1 + i
  <2>1. i \in Nat /\ i + 1 \in DOMAIN s
    BY <1>1
  <2>2. s[i + 1] = n + (i + 1)
    BY <2>1 DEF Follows
  <2> QED BY <1>3, <2>1, <2>2
<1> QED BY <1>2, <1>4, <1>5 DEF Follows

\* Two runs that meet are one run.
LEMMA FollowsConcat ==
  ASSUME NEW s \in Seq(Nat), NEW t \in Seq(Nat), NEW n \in Nat,
         Follows(s, n), Follows(t, n + Len(s))
  PROVE  Follows(s \o t, n)
<1>1. /\ Len(s) \in Nat /\ DOMAIN s = 1..Len(s) /\ Len(t) \in Nat /\ DOMAIN t = 1..Len(t)
  BY LenProperties
<1>2. /\ DOMAIN (s \o t) = 1..(Len(s) + Len(t))
      /\ \A i \in 1..(Len(s) + Len(t)) :
           (s \o t)[i] = IF i <= Len(s) THEN s[i] ELSE t[i - Len(s)]
  BY <1>1, ConcatProperties, LenProperties
<1>3. ASSUME NEW i \in 1..(Len(s) + Len(t)) PROVE (s \o t)[i] = n + i
  <2>1. CASE i <= Len(s)
    <3>1. i \in DOMAIN s
      BY <1>1, <2>1
    <3>2. s[i] = n + i
      BY <3>1 DEF Follows
    <3> QED BY <1>2, <2>1, <3>2
  <2>2. CASE ~(i <= Len(s))
    <3>1. i \in Nat /\ i - Len(s) \in DOMAIN t
      BY <1>1, <2>2
    <3>2. t[i - Len(s)] = (n + Len(s)) + (i - Len(s))
      BY <3>1 DEF Follows
    <3>3. (n + Len(s)) + (i - Len(s)) = n + i
      BY <1>1, <3>1
    <3> QED BY <1>2, <2>2, <3>2, <3>3
  <2> QED BY <2>1, <2>2
<1> QED BY <1>2, <1>3 DEF Follows

LEMMA PlusAssoc == \A i, j, k \in Nat : i + (j + k) = (i + j) + k
OBVIOUS

\* The positions are numbers.
LEMMA Positions ==
  ASSUME ChanInv, NEW c \in Clients
  PROVE  /\ bcast \in Nat /\ joined[c] \in Nat
         /\ wire[c] \in Seq(Nat) /\ frame[c] \in Seq(Nat) /\ send[c] \in Seq(Nat)
         /\ Len(wire[c]) \in Nat /\ Len(frame[c]) \in Nat /\ Len(send[c]) \in Nat
         /\ Shown(c) \in Nat /\ Written(c) \in Nat /\ Queued(c) \in Nat
<1>1. /\ bcast \in Nat /\ joined[c] \in Nat
      /\ wire[c] \in Seq(Nat) /\ frame[c] \in Seq(Nat) /\ send[c] \in Seq(Nat)
  BY DEF ChanInv, PlainTypes, QueueTypes
<1>2. Len(wire[c]) \in Nat /\ Len(frame[c]) \in Nat /\ Len(send[c]) \in Nat
  BY <1>1, QueueLen
<1>3. joined[c] \in Nat
  BY <1>1
<1>4. Shown(c) \in Nat
  BY <1>2, <1>3 DEF Shown
<1>5. Written(c) \in Nat
  BY <1>2, <1>4 DEF Written
<1>6. Queued(c) \in Nat
  BY <1>2, <1>5 DEF Queued
<1> QED BY <1>1, <1>2, <1>4, <1>5, <1>6

\* A step that leaves a connection's queues, its writer and the broadcast
\* count alone, and at most takes it out of the map, keeps its order.
LEMMA OrderFrame ==
  ASSUME NEW d \in Clients, OrderOK(d),
         wire'[d] = wire[d], frame'[d] = frame[d], send'[d] = send[d],
         joined'[d] = joined[d], writer'[d] = writer[d], bcast' = bcast,
         d \in clients' => d \in clients /\ (d \in todo' <=> d \in todo)
  PROVE  OrderOK(d)'
BY DEF OrderOK, Shown, Written, Queued, Follows

LEMMA OrderInit == Init => OrderInv
<1> SUFFICES ASSUME Init PROVE OrderInv
  OBVIOUS
<1>1. ChanInv
  BY ChanInit
<1>2. ASSUME NEW c \in Clients PROVE OrderOK(c)
  <2>1. /\ wire[c] = <<>> /\ frame[c] = <<>> /\ send[c] = <<>> /\ joined[c] = 0
        /\ bcast = 0 /\ c \notin clients
    BY DEF Init
  <2>2. Shown(c) = 0 /\ Written(c) = 0 /\ Queued(c) = 0
    BY <2>1, NoneQueued DEF Shown, Written, Queued
  <2> QED BY <2>1, <2>2, FollowsEmpty DEF OrderOK
<1> QED BY <1>1, <1>2 DEF OrderInv

LEMMA OrderStep == OrderInv /\ [Next]_vars => OrderInv'
<1> SUFFICES ASSUME OrderInv, [Next]_vars PROVE OrderInv'
  OBVIOUS
<1>0. ChanInv /\ ChanInv'
  BY ChanStep DEF OrderInv
<1> USE DEF vars, hubVars, chanVars, writerVars
<1>1. ASSUME NEW c \in Clients,
             ServeWs(c) \/ ReadMessage(c) \/ HandleEvent(c) \/ ReadError(c) \/ CloseConn(c)
               \/ HubUnregister(c) \/ WriterOpen(c)
      PROVE  \A d \in Clients : OrderOK(d)'
  <2>1. /\ UNCHANGED <<wire, frame, send, joined, bcast, todo>> /\ clients' \subseteq clients
        /\ writer' = writer \/ WriterOpen(c)
    BY <1>1 DEF ServeWs, ReadMessage, HandleEvent, ReadError, CloseConn, HubUnregister,
                WriterOpen
  <2>4. WriterOpen(c) => \A d \in Clients : d = c \/ writer'[d] = writer[d]
    BY <1>0 DEF WriterOpen, ChanInv, PlainTypes
  <2>2. ASSUME NEW d \in Clients, writer'[d] = writer[d] PROVE OrderOK(d)'
    BY <2>1, <2>2, OrderFrame DEF OrderInv
  <2>3. ASSUME WriterOpen(c) PROVE OrderOK(c)'
    <3>1. writer[c] = "opening" /\ writer'[c] = "draining"
      BY <2>3, <1>0 DEF WriterOpen, ChanInv, PlainTypes
    <3> QED BY <2>1, <3>1 DEF OrderInv, OrderOK, Shown, Written, Queued, Follows
  <2> QED BY <2>1, <2>2, <2>3, <2>4
<1>2. ASSUME NEW c \in Clients, HubRegister(c) PROVE \A d \in Clients : OrderOK(d)'
  <2>1. /\ clients' = clients \union {c} /\ joined' = [joined EXCEPT ![c] = bcast]
        /\ writer' = [writer EXCEPT ![c] = "waiting"] /\ todo = {}
        /\ UNCHANGED <<todo, bcast, send, frame, wire>> /\ serve[c] # "returned"
    BY <1>2 DEF HubRegister, AtSelect
  <2>2. ASSUME NEW d \in Clients, d # c PROVE OrderOK(d)'
    <3>1. joined'[d] = joined[d] /\ writer'[d] = writer[d]
      BY <1>0, <2>1, <2>2 DEF ChanInv, PlainTypes
    <3> QED BY <2>1, <2>2, <3>1, OrderFrame DEF OrderInv
  <2>3. OrderOK(c)'
    <3>1. /\ wire'[c] = <<>> /\ frame'[c] = <<>> /\ send'[c] = <<>>
          /\ joined'[c] = bcast /\ bcast' = bcast /\ todo' = {} /\ bcast \in Nat
      BY <1>0, <2>1 DEF ChanInv, PlainTypes, QueueTypes, ConnInv, Fresh
    <3>2. Shown(c)' = bcast /\ Written(c)' = bcast /\ Queued(c)' = bcast
      BY <3>1, NoneQueued DEF Shown, Written, Queued
    <3> QED BY <3>1, <3>2, FollowsEmpty DEF OrderOK
  <2> QED BY <2>2, <2>3
<1>3. ASSUME StartFanOut PROVE \A d \in Clients : OrderOK(d)'
  <2>1. /\ todo = {} /\ bcast' = bcast + 1 /\ todo' = clients
        /\ UNCHANGED <<clients, send, writer, frame, wire, joined>>
    BY <1>3 DEF StartFanOut, AtSelect
  <2> TAKE d \in Clients
  <2>2. bcast \in Nat /\ Queued(d) \in Nat
    BY <1>0, Positions
  <2>3. Shown(d)' = Shown(d) /\ Written(d)' = Written(d) /\ Queued(d)' = Queued(d)
    BY <2>1 DEF Shown, Written, Queued
  <2>4. OrderOK(d) /\ wire'[d] = wire[d] /\ frame'[d] = frame[d] /\ send'[d] = send[d]
    BY <2>1 DEF OrderInv
  <2>5. /\ writer[d] # "done" => Queued(d) <= bcast' /\ (d \in clients => Queued(d) = bcast)
        /\ bcast = bcast' - 1
    BY <2>1, <2>2, <2>4 DEF OrderOK
  <2> QED BY <2>1, <2>3, <2>4, <2>5 DEF OrderOK, Follows
<1>4. ASSUME NEW c \in Clients, HubDeliver(c) PROVE \A d \in Clients : OrderOK(d)'
  <2>1. /\ c \in todo /\ todo' = todo \ {c} /\ c \in clients
        /\ UNCHANGED <<bcast, writer, frame, wire, joined>>
    BY <1>0, <1>4 DEF HubDeliver, ChanInv, PlainTypes
  <2>2. CASE Len(send[c]) < SendCap
    <3>1. send' = [send EXCEPT ![c] = Append(send[c], bcast)] /\ clients' = clients
      BY <1>4, <2>2 DEF HubDeliver, Push
    <3>2. ASSUME NEW d \in Clients, d # c PROVE OrderOK(d)'
      <4>1. send'[d] = send[d] /\ (d \in todo' <=> d \in todo)
        BY <1>0, <2>1, <3>1, <3>2 DEF ChanInv, QueueTypes
      <4> QED BY <2>1, <3>1, <4>1, OrderFrame DEF OrderInv
    <3>3. OrderOK(c)'
      <4>1. /\ bcast \in Nat /\ send[c] \in Seq(Nat) /\ Len(send[c]) \in Nat
            /\ Written(c) \in Nat /\ OrderOK(c) /\ Queued(c) = Written(c) + Len(send[c])
        BY <1>0, Positions DEF OrderInv, Queued
      <4>2. /\ send'[c] = Append(send[c], bcast) /\ c \notin todo'
            /\ Len(Append(send[c], bcast)) = Len(send[c]) + 1
        BY <1>0, <2>1, <3>1, <4>1, PushFacts DEF ChanInv, QueueTypes
      <4>3. Shown(c)' = Shown(c) /\ Written(c)' = Written(c)
        BY <2>1 DEF Shown, Written
      <4>4. Queued(c)' = Written(c) + (Len(send[c]) + 1)
        BY <4>2, <4>3 DEF Queued
      <4>5. ASSUME writer[c] # "done"
            PROVE  /\ bcast = Written(c) + Len(send[c]) + 1 /\ Follows(send[c], Written(c))
                   /\ Follows(frame[c], Shown(c))
        <5>1. Queued(c) = bcast - 1 /\ Follows(send[c], Written(c))
              /\ Follows(frame[c], Shown(c))
          BY <2>1, <4>1, <4>5 DEF OrderOK
        <5>2. Written(c) + Len(send[c]) = bcast - 1
          BY <4>1, <5>1
        <5> QED BY <4>1, <5>1, <5>2
      <4>6. ASSUME writer[c] # "done"
            PROVE  Follows(send'[c], Written(c)) /\ Queued(c)' = bcast
        BY <4>1, <4>2, <4>4, <4>5, <4>6, FollowsPush
      <4>7. Follows(wire'[c], joined'[c]) /\ frame'[c] = frame[c] /\ writer'[c] = writer[c]
        BY <2>1, <4>1 DEF OrderOK
      <4> QED BY <2>1, <4>1, <4>2, <4>3, <4>5, <4>6, <4>7 DEF OrderOK
    <3> QED BY <3>2, <3>3
  <2>3. CASE ~(Len(send[c]) < SendCap)
    <3>1. send' = send /\ clients' = clients \ {c}
      BY <1>4, <2>3 DEF HubDeliver, Evict
    <3> QED BY <2>1, <3>1, OrderFrame DEF OrderInv
  <2> QED BY <2>2, <2>3
<1>5. ASSUME NEW c \in Clients, WriterTake(c) PROVE \A d \in Clients : OrderOK(d)'
  <2>1. /\ writer[c] = "waiting" /\ send[c] # <<>> /\ writer' = [writer EXCEPT ![c] = "opening"]
        /\ frame' = [frame EXCEPT ![c] = <<Head(send[c])>>]
        /\ send' = [send EXCEPT ![c] = Tail(send[c])]
        /\ UNCHANGED <<clients, todo, bcast, wire, joined>>
    BY <1>5 DEF WriterTake
  <2>2. ASSUME NEW d \in Clients, d # c PROVE OrderOK(d)'
    <3>1. send'[d] = send[d] /\ frame'[d] = frame[d] /\ writer'[d] = writer[d]
      BY <1>0, <2>1, <2>2 DEF ChanInv, PlainTypes, QueueTypes
    <3> QED BY <2>1, <3>1, OrderFrame DEF OrderInv
  <2>3. OrderOK(c)'
    <3>1. /\ send'[c] = Tail(send[c]) /\ frame'[c] = <<Head(send[c])>> /\ frame[c] = <<>>
          /\ writer'[c] = "opening"
      BY <1>0, <2>1 DEF ChanInv, PlainTypes, QueueTypes, ConnInv, WriterOK
    <3>2. /\ Len(send[c]) \in Nat /\ send[c] \in Seq(Nat) /\ Shown(c) \in Nat /\ OrderOK(c)
          /\ bcast \in Nat
      BY <1>0, Positions DEF OrderInv
    <3>3. Written(c) = Shown(c) /\ Queued(c) = Shown(c) + Len(send[c])
      BY <3>1, <3>2, NoneQueued DEF Written, Queued
    <3>4. /\ Head(send[c]) = Shown(c) + 1 /\ Follows(Tail(send[c]), Shown(c) + 1)
      BY <2>1, <3>2, <3>3, FollowsPop DEF OrderOK
    <3>5. Len(Tail(send[c])) = Len(send[c]) - 1 /\ Head(send[c]) \in Nat
      BY <2>1, <3>2, PopFacts
    <3>6. Shown(c)' = Shown(c) /\ Len(<<Head(send[c])>>) = 1
      BY <2>1, <3>5, OneQueued DEF Shown
    <3>7. Written(c)' = Shown(c) + 1
      BY <3>1, <3>6 DEF Written
    <3>8. Queued(c)' = Queued(c)
      <4>1. Queued(c)' = Shown(c) + 1 + (Len(send[c]) - 1)
        BY <3>1, <3>5, <3>7 DEF Queued
      <4> QED BY <3>2, <3>3, <4>1
    <3>9. Follows(frame'[c], Shown(c))
      BY <3>1, <3>4 DEF Follows
    <3> QED BY <2>1, <3>1, <3>2, <3>4, <3>6, <3>7, <3>8, <3>9 DEF OrderOK
  <2> QED BY <2>2, <2>3
<1>6. ASSUME NEW c \in Clients, WriterDrain(c) PROVE \A d \in Clients : OrderOK(d)'
  <2>1. /\ writer[c] = "draining" /\ send[c] # <<>>
        /\ frame' = [frame EXCEPT ![c] = Append(frame[c], Head(send[c]))]
        /\ send' = [send EXCEPT ![c] = Tail(send[c])]
        /\ UNCHANGED <<clients, todo, bcast, writer, wire, joined>>
    BY <1>6 DEF WriterDrain
  <2>2. ASSUME NEW d \in Clients, d # c PROVE OrderOK(d)'
    <3>1. send'[d] = send[d] /\ frame'[d] = frame[d]
      BY <1>0, <2>1, <2>2 DEF ChanInv, QueueTypes
    <3> QED BY <2>1, <3>1, OrderFrame DEF OrderInv
  <2>3. OrderOK(c)'
    <3>1. send'[c] = Tail(send[c]) /\ frame'[c] = Append(frame[c], Head(send[c]))
      BY <1>0, <2>1 DEF ChanInv, QueueTypes
    <3>2. /\ Len(send[c]) \in Nat /\ send[c] \in Seq(Nat) /\ Shown(c) \in Nat /\ OrderOK(c)
          /\ frame[c] \in Seq(Nat) /\ Len(frame[c]) \in Nat /\ Written(c) \in Nat
          /\ Written(c) = Shown(c) + Len(frame[c]) /\ Queued(c) = Written(c) + Len(send[c])
      BY <1>0, Positions DEF OrderInv, Written, Queued
    <3>3. /\ Head(send[c]) = Written(c) + 1 /\ Follows(Tail(send[c]), Written(c) + 1)
          /\ Follows(frame[c], Shown(c))
      BY <2>1, <3>2, FollowsPop DEF OrderOK
    <3>4. Len(Tail(send[c])) = Len(send[c]) - 1 /\ Head(send[c]) \in Nat
      BY <2>1, <3>2, PopFacts
    <3>5. Head(send[c]) = Shown(c) + Len(frame[c]) + 1
      BY <3>2, <3>3
    <3>6. /\ Follows(frame'[c], Shown(c))
          /\ Len(frame'[c]) = Len(frame[c]) + 1
      BY <3>1, <3>2, <3>3, <3>4, <3>5, FollowsPush, PushFacts
    <3>7. Shown(c)' = Shown(c)
      BY <2>1 DEF Shown
    <3>8. Written(c)' = Written(c) + 1
      <4>1. Written(c)' = Shown(c) + (Len(frame[c]) + 1)
        BY <3>6, <3>7 DEF Written
      <4> QED BY <3>2, <4>1
    <3>9. Queued(c)' = Queued(c)
      <4>1. Queued(c)' = (Written(c) + 1) + (Len(send[c]) - 1)
        BY <3>1, <3>4, <3>8 DEF Queued
      <4>2. Written(c) \in Nat /\ Len(send[c]) \in Nat /\ Queued(c) = Written(c) + Len(send[c])
        BY <3>2
      <4> QED BY <4>1, <4>2
    <3> QED BY <2>1, <3>1, <3>2, <3>3, <3>6, <3>7, <3>8, <3>9 DEF OrderOK
  <2> QED BY <2>2, <2>3
<1>7. ASSUME NEW c \in Clients, WriterFlush(c) PROVE \A d \in Clients : OrderOK(d)'
  <2>1. /\ writer[c] = "draining" /\ writer' = [writer EXCEPT ![c] = "waiting"]
        /\ wire' = [wire EXCEPT ![c] = wire[c] \o frame[c]]
        /\ frame' = [frame EXCEPT ![c] = <<>>]
        /\ UNCHANGED <<clients, todo, bcast, send, joined>>
    BY <1>7 DEF WriterFlush
  <2>2. ASSUME NEW d \in Clients, d # c PROVE OrderOK(d)'
    <3>1. wire'[d] = wire[d] /\ frame'[d] = frame[d] /\ writer'[d] = writer[d]
      BY <1>0, <2>1, <2>2 DEF ChanInv, PlainTypes, QueueTypes
    <3> QED BY <2>1, <3>1, OrderFrame DEF OrderInv
  <2>3. OrderOK(c)'
    <3>1. wire'[c] = wire[c] \o frame[c] /\ frame'[c] = <<>> /\ writer'[c] = "waiting"
      BY <1>0, <2>1 DEF ChanInv, PlainTypes, QueueTypes
    <3>2. /\ wire[c] \in Seq(Nat) /\ frame[c] \in Seq(Nat) /\ joined[c] \in Nat /\ OrderOK(c)
          /\ Len(wire[c]) \in Nat /\ Len(frame[c]) \in Nat /\ Written(c) \in Nat
          /\ Shown(c) = joined[c] + Len(wire[c]) /\ Written(c) = Shown(c) + Len(frame[c])
      BY <1>0, Positions DEF OrderInv, Shown, Written
    <3>3. Follows(wire[c], joined[c]) /\ Follows(frame[c], joined[c] + Len(wire[c]))
      BY <2>1, <3>2 DEF OrderOK
    <3>4. Follows(wire'[c], joined'[c])
      BY <2>1, <3>1, <3>2, <3>3, FollowsConcat
    <3>5. Len(wire'[c]) = Len(wire[c]) + Len(frame[c])
      BY <3>1, <3>2, ConcatProperties
    <3>6. Shown(c)' = Written(c)
      <4>1. Shown(c)' = joined[c] + (Len(wire[c]) + Len(frame[c]))
        BY <2>1, <3>5 DEF Shown
      <4>2. joined[c] \in Nat /\ Len(wire[c]) \in Nat /\ Len(frame[c]) \in Nat
        BY <3>2
      <4>3. joined[c] + (Len(wire[c]) + Len(frame[c])) = (joined[c] + Len(wire[c])) + Len(frame[c])
        BY <4>2, PlusAssoc, Zenon
      <4>4. Written(c) = (joined[c] + Len(wire[c])) + Len(frame[c])
        BY <3>2
      <4> QED BY <4>1, <4>3, <4>4, Zenon
    <3>7. Written(c)' = Written(c)
      BY <3>1, <3>2, <3>6, NoneQueued DEF Written
    <3>8. Queued(c)' = Queued(c)
      BY <2>1, <3>7 DEF Queued
    <3> QED BY <2>1, <3>1, <3>2, <3>4, <3>6, <3>7, <3>8, FollowsEmpty DEF OrderOK
  <2> QED BY <2>2, <2>3
<1>8. ASSUME NEW c \in Clients, WriteError(c) \/ WriterClosed(c)
      PROVE  \A d \in Clients : OrderOK(d)'
  <2>1. /\ writer' = [writer EXCEPT ![c] = "done"] /\ frame' = [frame EXCEPT ![c] = <<>>]
        /\ UNCHANGED <<clients, todo, bcast, send, wire, joined>>
    BY <1>8 DEF WriteError, WriterClosed, WriterReturn
  <2>2. ASSUME NEW d \in Clients, d # c PROVE OrderOK(d)'
    <3>1. frame'[d] = frame[d] /\ writer'[d] = writer[d]
      BY <1>0, <2>1, <2>2 DEF ChanInv, PlainTypes, QueueTypes
    <3> QED BY <2>1, <3>1, OrderFrame DEF OrderInv
  <2>3. OrderOK(c)'
    <3>1. writer'[c] = "done" /\ Follows(wire[c], joined[c])
      BY <1>0, <2>1 DEF ChanInv, PlainTypes, OrderInv, OrderOK
    <3> QED BY <2>1, <3>1 DEF OrderOK
  <2> QED BY <2>2, <2>3
<1>9. CASE RedisMessage \/ Quiescent \/ UNCHANGED vars
  <2>1. UNCHANGED <<wire, frame, send, joined, writer, bcast, clients, todo>>
    BY <1>9 DEF RedisMessage, Quiescent
  <2>2. \A d \in Clients : OrderOK(d)'
    BY <2>1, OrderFrame DEF OrderInv
  <2> QED BY <1>0, <2>2 DEF OrderInv
<1> QED
  BY <1>0, <1>1, <1>2, <1>3, <1>4, <1>5, <1>6, <1>7, <1>8, <1>9
  DEF Next, OrderInv, HubBroadcast, HubBroadcastRedis

\* Every connection sees the broadcasts since its registration in the order
\* the hub took them, without a gap, until it is cut off (hub.go:55-62 with
\* client.go:78-100).
THEOREM OrderKept == Spec => []InOrderNoGaps
<1>1. OrderInv => InOrderNoGaps
  BY DEF OrderInv, OrderOK, InOrderNoGaps
<1> QED BY <1>1, OrderInit, OrderStep, PTL DEF Spec

-----------------------------------------------------------------------------
(* Refinement: the hub implements Feed.                                    *)

\* What is left of the published events after a frame bounds the frame.
LEMMA Room ==
  \A j, w, f, q, b \in Nat :
    f > 0 /\ ((j + w) + f) + q <= b => w + f \in (w + 1)..(b - j)
OBVIOUS

\* A step that changes nothing a peer can see.
LEMMA FeedStutter ==
  ASSUME UNCHANGED <<bcast, wire, joined>>,
         \A d \in Clients : FeedPhase'[d] = FeedPhase[d]
  PROVE  UNCHANGED FeedView!vars
<1>1. FeedPhase' = FeedPhase
  BY DEF FeedPhase
<1> QED BY <1>1 DEF FeedView!vars

LEMMA FeedStep ==
  ASSUME OrderInv, ChanInv', [Next]_vars
  PROVE  [FeedView!Next]_(FeedView!vars)
<1>0. ChanInv
  BY DEF OrderInv
<1> USE DEF vars, hubVars, chanVars, writerVars
<1>1. ASSUME NEW c \in Clients,
             ServeWs(c) \/ ReadMessage(c) \/ HandleEvent(c) \/ ReadError(c) \/ CloseConn(c)
               \/ HubUnregister(c) \/ HubDeliver(c)
               \/ WriterTake(c) \/ WriterOpen(c) \/ WriterDrain(c)
      PROVE  UNCHANGED FeedView!vars
  <2>1. UNCHANGED <<bcast, wire, joined>>
    BY <1>1 DEF ServeWs, ReadMessage, HandleEvent, ReadError, CloseConn, HubUnregister,
                HubDeliver, WriterTake, WriterOpen, WriterDrain
  <2>2. CASE ServeWs(c)
    <3>1. \A d \in Clients : /\ serve'[d] = "returned" <=> serve[d] = "returned"
                             /\ writer'[d] = writer[d]
      BY <1>0, <2>2 DEF ServeWs, ChanInv, PlainTypes
    <3> QED BY <2>1, <3>1, FeedStutter DEF FeedPhase
  <2>3. CASE ~ServeWs(c)
    <3>1. serve' = serve
      BY <1>1, <2>3 DEF ReadMessage, HandleEvent, ReadError, CloseConn, HubUnregister,
                HubDeliver, WriterTake, WriterOpen, WriterDrain
    <3>2. \A d \in Clients : writer'[d] = "done" <=> writer[d] = "done"
      BY <1>0, <1>1, <2>3 DEF ReadMessage, HandleEvent, ReadError, CloseConn, HubUnregister,
                HubDeliver, WriterTake, WriterOpen, WriterDrain, ChanInv, PlainTypes
    <3> QED BY <2>1, <3>1, <3>2, FeedStutter DEF FeedPhase
  <2> QED BY <2>2, <2>3
<1>2. ASSUME NEW c \in Clients, HubRegister(c) PROVE FeedView!Join(c)
  <2>1. /\ serve[c] = "registering" /\ serve' = [serve EXCEPT ![c] = "returned"]
        /\ joined' = [joined EXCEPT ![c] = bcast]
        /\ writer' = [writer EXCEPT ![c] = "waiting"] /\ UNCHANGED <<bcast, wire>>
    BY <1>2 DEF HubRegister
  <2>2. FeedPhase[c] = "out" /\ FeedPhase' = [FeedPhase EXCEPT ![c] = "on"]
    BY <1>0, <2>1 DEF FeedPhase, ChanInv, PlainTypes
  <2> QED BY <2>1, <2>2 DEF FeedView!Join
<1>3. ASSUME StartFanOut PROVE FeedView!Publish
  BY <1>3 DEF StartFanOut, FeedView!Publish, FeedPhase
<1>4. ASSUME NEW c \in Clients, WriterFlush(c) PROVE FeedView!Show(c)
  <2>1. /\ writer[c] = "draining" /\ writer' = [writer EXCEPT ![c] = "waiting"]
        /\ wire' = [wire EXCEPT ![c] = wire[c] \o frame[c]]
        /\ UNCHANGED <<bcast, serve, joined, send>>
    BY <1>4 DEF WriterFlush
  <2>2. serve[c] = "returned" /\ frame[c] # <<>> /\ OrderOK(c)
    BY <1>0, <2>1 DEF ChanInv, ConnInv, Fresh, WriterOK, OrderInv
  <2>3. FeedPhase[c] = "on" /\ FeedPhase' = FeedPhase
    <3>1. FeedPhase[c] = "on"
      BY <2>1, <2>2 DEF FeedPhase
    <3>2. \A d \in Clients : writer'[d] = "done" <=> writer[d] = "done"
      BY <1>0, <2>1 DEF ChanInv, PlainTypes
    <3> QED BY <2>1, <3>1, <3>2 DEF FeedPhase
  <2> DEFINE s == wire[c] \o frame[c]  n == Len(wire[c]) + Len(frame[c])
  <2>4. /\ wire[c] \in Seq(Nat) /\ frame[c] \in Seq(Nat) /\ joined[c] \in Nat /\ bcast \in Nat
        /\ Len(wire[c]) \in Nat /\ Len(frame[c]) \in Nat /\ Len(send[c]) \in Nat
    BY <1>0, Positions
  <2>5. Len(frame[c]) > 0
    BY <2>2, <2>4, QueueLen
  <2>6. Follows(s, joined[c])
    <3>1. Follows(wire[c], joined[c]) /\ Follows(frame[c], joined[c] + Len(wire[c]))
      BY <2>1, <2>2 DEF OrderOK, Shown
    <3> QED BY <2>4, <3>1, FollowsConcat
  <2>7. s \in Seq(Nat) /\ Len(s) = n
    BY <2>4, ConcatProperties
  <2>8. n \in (Len(wire[c]) + 1)..(bcast - joined[c])
    <3>1. ((joined[c] + Len(wire[c])) + Len(frame[c])) + Len(send[c]) <= bcast
      BY <2>1, <2>2 DEF OrderOK, Shown, Written, Queued
    <3> QED BY <2>4, <2>5, <3>1, Room, Zenon
  <2>9. s = [i \in 1..n |-> joined[c] + i]
    <3>1. s \in [1..n -> Nat]
      BY <2>7, LenProperties
    <3>2. \A i \in 1..n : s[i] = joined[c] + i
      BY <2>6, <3>1 DEF Follows
    <3> HIDE DEF s, n
    <3> QED BY <3>1, <3>2
  <2>10. wire' = [wire EXCEPT ![c] = [i \in 1..n |-> joined[c] + i]]
    BY <2>1, <2>9
  <2> HIDE DEF n
  <2> QED BY <2>1, <2>3, <2>8, <2>10 DEF FeedView!Show
<1>5. ASSUME NEW c \in Clients, WriteError(c) \/ WriterClosed(c) PROVE FeedView!Cut(c)
  <2>1. /\ writer[c] \in {"waiting", "opening", "draining"}
        /\ writer' = [writer EXCEPT ![c] = "done"] /\ UNCHANGED <<bcast, serve, joined, wire>>
    BY <1>5 DEF WriteError, WriterClosed, WriterReturn
  <2>2. serve[c] = "returned"
    BY <1>0, <2>1 DEF ChanInv, ConnInv, Fresh
  <2>3. FeedPhase[c] = "on" /\ FeedPhase' = [FeedPhase EXCEPT ![c] = "cut"]
    BY <1>0, <2>1, <2>2 DEF FeedPhase, ChanInv, PlainTypes
  <2> QED BY <2>1, <2>3 DEF FeedView!Cut
<1>6. CASE RedisMessage \/ Quiescent \/ UNCHANGED vars
  BY <1>6 DEF RedisMessage, Quiescent, FeedView!vars, FeedPhase
<1> QED
  BY <1>1, <1>2, <1>3, <1>4, <1>5, <1>6
  DEF Next, FeedView!Next, HubBroadcast, HubBroadcastRedis

\* The goroutines, channels and buffers of hub.go and client.go implement the
\* feed of Feed.tla: a registration is a join, an accepted broadcast is a
\* publication, a completed frame shows the next events, and everything else
\* is invisible to the peers.
THEOREM HubRefinesFeed == Spec => ImplementsFeed
<1>1. Init => FeedView!Init
  <2> SUFFICES ASSUME Init PROVE FeedView!Init
    OBVIOUS
  <2>1. FeedPhase = [c \in Clients |-> "out"]
    BY DEF Init, FeedPhase
  <2> QED BY <2>1 DEF Init, FeedView!Init
<1>2. OrderInv /\ ChanInv' /\ [Next]_vars => [FeedView!Next]_(FeedView!vars)
  BY FeedStep
<1>3. OrderInv => ChanInv
  BY DEF OrderInv
<1> QED
  BY <1>1, <1>2, <1>3, OrderInit, OrderStep, PTL DEF Spec, ImplementsFeed, FeedView!Spec

=============================================================================
