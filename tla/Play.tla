-------------------------------- MODULE Play --------------------------------
(***************************************************************************)
(* A browser and the backend: the page of Session sends what the readPump  *)
(* and the handlers of Records receive.  A message is lost with its        *)
(* connection; the page learns of that by the close of its socket alone,   *)
(* since no message is acknowledged.                                       *)
(***************************************************************************)
EXTENDS Session

CONSTANTS
  MaxMessages,  \* bound: messages the server receives
  MaxFaults     \* bound: failed calls, process exits and broken connections

ASSUME PlayAssumption ==
  /\ MaxMessages \in Nat /\ MaxFaults \in Nat
  /\ Users # {} /\ Names # {}
  /\ "no name" \notin Names   \* a drawn name is never the mark of a missing one

VARIABLES
  users, matches, board, pc, job, found, received, faults, announced, joins, torn,
  dropped   \* history: the games whose handler gave up, and why

serverVars == <<users, matches, board, pc, job, found, received, faults, announced, joins, torn>>
vars == <<pageVars, serverVars, dropped>>

\* A game is identified by its wpm.  The page's messages bring their own user
\* and name, so that any users and names will do for Records!ReceiveAny.
Server == INSTANCE Records WITH
            Sessions <- Sockets, Scores <- 1..MaxGames,
            UserOf <- [s \in Sockets |-> CHOOSE u \in Users : TRUE],
            GuestName <- [u \in Users |-> CHOOSE name \in Names : TRUE]

Init == PageInit /\ Server!Init /\ dropped = {}

-----------------------------------------------------------------------------
(* The connection.                                                         *)

\* The upgrade succeeds: both ends are there.
Establish(s) ==
  /\ SocketOpen(s)
  /\ Server!Connect(s)
  /\ UNCHANGED dropped

\* The connection ends and takes with it what is on the way.
Lost(s) ==
  /\ down' = down \union {s}
  /\ up' = [up EXCEPT ![s] = <<>>]
  /\ UNCHANGED <<profile, strict, current, sock, shown, queue, due, games>>

\* The network fails, a deadline passes, or the hub evicts the connection.
Break(s) ==
  /\ pc[s] # "closed" /\ s \notin down
  /\ faults < MaxFaults
  /\ faults' = faults + 1
  /\ Lost(s)
  /\ UNCHANGED <<users, matches, board, pc, job, found, received, announced, joins, torn, dropped>>

ReadMessage(s) ==
  /\ up[s] # <<>>
  /\ LET m == Head(up[s])
         next == received + 1
     IN \/ /\ m.kind = "join"
           /\ Server!Receive(s, [n |-> next, by |-> s, kind |-> "join", user |-> m.user, name |-> m.name])
        \/ /\ m.kind = "game_end"
           /\ Server!Receive(s, [n |-> next, by |-> s, kind |-> "game_end", user |-> m.user, wpm |-> m.wpm])
  /\ up' = [up EXCEPT ![s] = Tail(@)]
  /\ UNCHANGED <<profile, strict, current, sock, shown, queue, due, down, games>>
  /\ UNCHANGED dropped

ReadOversizeSkips(s) ==
  /\ up[s] # <<>>
  /\ Head(up[s]).kind = "oversize"
  /\ pc[s] = "reading"
  /\ up' = [up EXCEPT ![s] = Tail(@)]
  /\ UNCHANGED <<profile, strict, current, sock, shown, queue, due, down, games>>
  /\ UNCHANGED <<serverVars, dropped>>

\* SetReadLimit: the read fails and readPump closes the connection.
ReadOversize(s) ==
  /\ up[s] # <<>>
  /\ Head(up[s]).kind = "oversize"
  /\ Server!Disconnect(s)
  /\ Lost(s)
  /\ UNCHANGED dropped

\* The read fails: the browser has closed, or the connection is lost.
ReadError(s) ==
  /\ up[s] = <<>>
  /\ s \in down \/ sock[s] = "closed"
  /\ Server!Disconnect(s)
  /\ UNCHANGED <<pageVars, dropped>>

-----------------------------------------------------------------------------
(* The handlers.                                                           *)

Drop(s, why) == dropped' = dropped \union {[game |-> job[s].wpm, why |-> why]}

\* The foreign key refuses the match, since no join was handled or it was in
\* vain; or a column does not hold its number.
Refuses(s) == pc[s] = "saving" /\ matches' = matches
WhyRefused(s) ==
  CASE job[s].user \in DOMAIN users -> "numbers"
    [] job[s].user \in joins \ DOMAIN users -> "no row"
    [] OTHER -> "no join"

Handler(s) ==
  /\ \/ Server!CreateGuest(s) \/ Server!CreateMatch(s) \/ Server!GetUser(s)
     \/ Server!UpdateLeaderboard(s) \/ Server!Announce(s)
  /\ IF Refuses(s) THEN Drop(s, WhyRefused(s)) ELSE UNCHANGED dropped
  /\ UNCHANGED pageVars

HandlerFails(s) ==
  /\ Server!CallFails(s) \/ Server!RankRetried(s)
  /\ IF pc[s] = "saving" THEN Drop(s, "failed") ELSE UNCHANGED dropped
  /\ UNCHANGED pageVars

\* The process exits and is started again: every connection is lost.
Restart ==
  /\ Server!Restart
  /\ LET live == {s \in Sockets : pc[s] # "closed"}
     IN /\ down' = down \union live
        /\ up' = [s \in Sockets |-> IF s \in live THEN <<>> ELSE up[s]]
  /\ UNCHANGED <<profile, strict, current, sock, shown, queue, due, games>>
  /\ UNCHANGED dropped

Next ==
  \/ PageStep /\ UNCHANGED <<serverVars, dropped>>
  \/ \E s \in Sockets :
       \/ Establish(s) \/ Break(s)
       \/ ReadMessage(s) \/ ReadOversize(s) \/ ReadError(s)
       \/ Handler(s) \/ HandlerFails(s)
  \/ Restart

Spec == Init /\ [][Next]_vars

ServerStep(s) ==
  ReadMessage(s) \/ ReadOversize(s) \/ ReadError(s) \/ Handler(s) \/ HandlerFails(s)

\* The browser runs its tasks, a lost connection closes its socket, readPump
\* reads and the stores answer.  The player and the network owe nothing.
FairSpec ==
  /\ Spec
  /\ WF_vars(Render /\ UNCHANGED <<serverVars, dropped>>)
  /\ WF_vars(JoinEffect /\ UNCHANGED <<serverVars, dropped>>)
  /\ \A s \in Sockets :
       /\ WF_vars(SocketClose(s) /\ UNCHANGED <<serverVars, dropped>>)
       /\ WF_vars(ServerStep(s))

-----------------------------------------------------------------------------
(* Properties.                                                             *)

\* Types of the page, the network and the server.
TypeOK ==
  /\ storage \in Profile \union {NoProfile} /\ ids \subseteq Users
  /\ current \in {0} \union Sockets
  /\ sock \in [Sockets -> {"unused", "connecting", "open", "closing", "closed"}]
  /\ IF current = 0 THEN shown = NoPage ELSE shown \in Page
  /\ due \in BOOLEAN /\ down \subseteq Sockets
  /\ dropped \subseteq [game : 1..Len(games), why : {"numbers", "no row", "no join", "failed"}]
  /\ Server!TypeOK

\* The page, once it has rendered what it knows, never shows a connection
\* that is not there; and, except under StrictMode, where the first socket's
\* close may come after the second one's open, never misses one that is.
ConnectedIsOpen ==
  (current # 0 /\ queue = <<>>) =>
    /\ shown.conn => sock[current] = "open"
    /\ sock[current] = "open" => shown.conn \/ strict

\* A match is refused only for a stated reason: its player's join failed, or
\* found its name taken, or a number fits no column.  Otherwise the join
\* effect, whenever it runs, is in time: for a new connection, a reload and a
\* profile that was cleared while the page was open.  The exception is a game
\* that ends between the open of the socket, or a new profile, and the join
\* effect.
RefusalsExplained ==
  \A d \in dropped :
    LET g == games[d.game] IN
    /\ d.why = "no join" /\ g.joined => faults > 0
    /\ d.why = "no row" => \E u \in DOMAIN users : u # g.user.id /\ users[u] = g.user.username

\* What is stored is what was played: a match is that of a finished game, under
\* the player who was on screen at its end, and no game is stored twice, across
\* reloads, cleared profiles, saves whose reply is lost, and restarts.
SavedWasPlayed ==
  \A i \in DOMAIN matches :
    /\ matches[i].wpm \in DOMAIN games
    /\ matches[i].user = games[matches[i].wpm].user.id
    /\ \A j \in DOMAIN matches : matches[j].wpm = matches[i].wpm => j = i

\* Game n is saved, or its handler gave up, or the page of game n is gone or
\* shows that it may be lost.
Accounted(n) ==
  \/ \E i \in DOMAIN matches : matches[i].wpm = n
  \/ \E d \in dropped : d.game = n
  \/ current # games[n].page
  \/ ~AllSystemsGo(shown)

\* A finished game is saved, or its handler gives up and logs why, or the
\* footer says that the system is degraded, unless the player leaves: no
\* game is lost on the way behind a page that shows all systems operational.
NotLostInSilence ==
  \A n \in 1..MaxGames :
    <>(n \in DOMAIN games) => <>(n \in DOMAIN games /\ Accounted(n))

=============================================================================
