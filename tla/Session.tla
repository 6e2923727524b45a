------------------------------ MODULE Session -------------------------------
(***************************************************************************)
(* One browser: the page (App.tsx) with its websocket (useWebSocket.ts),   *)
(* the profile in localStorage (auth.ts) and the footer's verdict          *)
(* (FooterStatus.tsx).  A page creates its socket when it is mounted and   *)
(* never another one; React's StrictMode (main.tsx), in a development      *)
(* build, mounts twice and closes the first socket while it connects.      *)
(*                                                                         *)
(* The callbacks of a socket queue a state update; a later task renders    *)
(* the queue, and another one runs the effects of that render.  Handlers   *)
(* use the state of the last render, but the socket as it is.  After a     *)
(* click React would render at once: the model lets other events come in   *)
(* between there as well, which adds behaviours and takes none away.       *)
(***************************************************************************)
EXTENDS Naturals, Sequences, FiniteSets, SequencesExt

CONSTANTS
  Users,       \* profile ids: uuids, each drawn once
  Names,       \* usernames that generateGuestName may draw
  MaxSockets,  \* bound: sockets created
  MaxGames     \* bound: games finished

ASSUME SessionAssumption == MaxSockets \in Nat /\ MaxGames \in Nat

Sockets == 1..MaxSockets

VARIABLES
  storage,  \* localStorage.typemaster_profile
  ids,      \* ids drawn so far
  strict,   \* is this a development build under StrictMode?
  current,  \* ws.current of the open page; 0: no page
  sock,     \* readyState of each socket
  shown,    \* App's state in the last render
  queue,    \* updates set since, in order
  due,      \* has the join effect of the last render still to run?
  up,       \* messages on their way to the server, per socket
  down,     \* sockets whose connection has ended on the way or at the server
  games     \* history: the finished games

profile == <<storage, ids>>
network == <<up, down>>
pageVars == <<profile, strict, current, sock, shown, queue, due, network, games>>

Profile == [id : Users, username : Names]
NoProfile == [id |-> "none"]
Page == [conn : BOOLEAN, healthy : BOOLEAN,
         view : {"landing", "arena", "profile"}, user : Profile]
NoPage == [view |-> "none"]

PageInit ==
  /\ storage = NoProfile /\ ids = {}
  /\ strict \in BOOLEAN
  /\ current = 0 /\ sock = [s \in Sockets |-> "unused"]
  /\ shown = NoPage /\ queue = <<>> /\ due = FALSE
  /\ up = [s \in Sockets |-> <<>>] /\ down = {}
  /\ games = <<>>

\* getOrCreateProfile, called by every render, returns p.
GetOrCreateProfile(p) ==
  \/ storage # NoProfile /\ p = storage /\ UNCHANGED profile
  \/ /\ storage = NoProfile
     /\ p.id = CHOOSE u \in Users : u \notin ids   \* which uuid makes no difference
     /\ storage' = p /\ ids' = ids \union {p.id}

\* The player, or another tab, clears the site's data.
ClearProfile ==
  /\ storage # NoProfile /\ ids # Users
  /\ storage' = NoProfile
  /\ UNCHANGED <<ids, strict, current, sock, shown, queue, due, network, games>>

-----------------------------------------------------------------------------
(* The page is loaded and left.                                            *)

\* First render and first effects.  There is no connection to join on.
Load ==
  LET used == Cardinality({s \in Sockets : sock[s] # "unused"})
      last == IF strict THEN used + 2 ELSE used + 1
  IN /\ current = 0
     /\ last \in Sockets
     /\ current' = last
     /\ sock' = [s \in Sockets |-> IF s = last THEN "connecting"
                                   ELSE IF s \in used + 1..last THEN "closing" ELSE sock[s]]
     /\ \E p \in Profile :
          /\ GetOrCreateProfile(p)
          /\ shown' = [conn |-> FALSE, healthy |-> FALSE, view |-> "landing", user |-> p]
     /\ UNCHANGED <<strict, queue, due, network, games>>

\* The tab is closed or reloaded; what was sent before is still delivered.
Unload ==
  /\ current # 0
  /\ current' = 0
  /\ sock' = [s \in Sockets |-> IF sock[s] = "unused" THEN "unused" ELSE "closed"]
  /\ shown' = NoPage /\ queue' = <<>> /\ due' = FALSE
  /\ UNCHANGED <<profile, strict, network, games>>

-----------------------------------------------------------------------------
(* Events that reach the page.                                             *)

SetState(field, value) == queue' = Append(queue, [set |-> field, to |-> value])

\* onopen.
SocketOpen(s) ==
  /\ sock[s] = "connecting"
  /\ sock' = [sock EXCEPT ![s] = "open"]
  /\ SetState("conn", TRUE)
  /\ UNCHANGED <<profile, strict, current, shown, due, network, games>>

Closes(s) == sock[s] \in {"connecting", "closing"} \/ (sock[s] = "open" /\ s \in down)

SocketCloseUnseen(s) ==
  /\ Closes(s)
  /\ sock' = [sock EXCEPT ![s] = "closed"]
  /\ UNCHANGED <<profile, strict, current, shown, queue, due, network, games>>

\* onclose, of whichever socket: the attempt fails, the cleanup closed it, or
\* the connection has ended.
SocketClose(s) ==
  /\ Closes(s)
  /\ sock' = [sock EXCEPT ![s] = "closed"]
  /\ SetState("conn", FALSE)
  /\ UNCHANGED <<profile, strict, current, shown, due, network, games>>

\* The one request for /health is answered that all is well; another answer,
\* or none, changes nothing that is seen.
HealthAnswered ==
  /\ current # 0
  /\ ~shown.healthy /\ ~\E i \in DOMAIN queue : queue[i].set = "healthy"
  /\ SetState("healthy", TRUE)
  /\ UNCHANGED <<profile, strict, current, sock, shown, due, network, games>>

-----------------------------------------------------------------------------
(* Rendering and the join effect.                                          *)

Apply(r, u) == [r EXCEPT ![u.set] = u.to]

JoinDepsNoUser(r) == r.conn # shown.conn

\* [isConnected, sendMessage, user.id, user.username]; sendMessage never changes.
JoinDeps(r) == r.conn # shown.conn \/ r.user # shown.user

Rendered(q) == FoldLeft(Apply, shown, q)

RenderAll(q) ==
  /\ ~due
  /\ \E p \in Profile :
       /\ GetOrCreateProfile(p)
       /\ shown' = [Rendered(q) EXCEPT !.user = p]
  /\ due' = JoinDeps(shown')
  /\ queue' = <<>>
  /\ UNCHANGED <<strict, current, sock, network, games>>

\* What was queued, or setLastMessage for a broadcast of any connection.
Render ==
  /\ current # 0
  /\ queue # <<>> \/ sock[current] = "open"
  /\ RenderAll(queue)

\* setView in a click's handler.
SetView(view) ==
  /\ current # 0
  /\ view # shown.view
  /\ RenderAll(Append(queue, [set |-> "view", to |-> view]))

\* The logo leads to the landing page, the USER button to the profile.
Nav(view) == view \in {"landing", "profile"} /\ SetView(view)

\* ENTER ARENA on the landing page, BACK_TO_ARENA on the profile.
OnStart == shown.view = "landing" /\ SetView("arena")
OnBack == shown.view = "profile" /\ SetView("arena")

\* sendMessage: ws.current is the socket of the last mount.  What is sent on
\* a connection that has already ended elsewhere is not delivered.
SendMessage(m) ==
  IF sock[current] = "open" /\ current \notin down
  THEN up' = [up EXCEPT ![current] = Append(@, m)]
  ELSE UNCHANGED up

JoinLobby == [kind |-> "join", user |-> shown.user.id, name |-> shown.user.username]

JoinEffect ==
  /\ due
  /\ due' = FALSE
  /\ IF shown.conn THEN SendMessage(JoinLobby) ELSE UNCHANGED up
  /\ UNCHANGED <<profile, strict, current, sock, shown, queue, down, games>>

-----------------------------------------------------------------------------
(* The game, of which App sees two callbacks.                              *)

\* The join effect has run for the connection and the user on screen.
Joined == sock[current] = "open" /\ shown.conn /\ ~due

GameEndPrevious(oversize) ==
  IF oversize THEN [kind |-> "oversize"]
  ELSE [kind |-> "game_end", user |-> shown.user.id, wpm |-> Len(games)]

\* A finished game; its wpm is its number.  With many bad keys the message
\* is longer than the server reads.
GameEnd(oversize) ==
  IF oversize THEN [kind |-> "oversize"]
  ELSE [kind |-> "game_end", user |-> shown.user.id, wpm |-> Len(games) + 1]

HandleGameComplete(oversize) ==
  /\ current # 0 /\ shown.view = "arena"
  /\ Len(games) < MaxGames
  /\ SendMessage(GameEnd(oversize))
  /\ games' = Append(games, [user |-> shown.user, page |-> current, joined |-> Joined])
  /\ UNCHANGED <<profile, strict, current, sock, shown, queue, due, down>>

\* FooterStatus: ALL SYSTEMS OPERATIONAL, or SYSTEM DEGRADED.
AllSystemsGo(r) == r.healthy /\ r.conn

-----------------------------------------------------------------------------
PageStep ==
  \/ ClearProfile \/ Load \/ Unload
  \/ \E s \in Sockets : SocketClose(s)
  \/ HealthAnswered \/ Render
  \/ \E view \in {"landing", "profile"} : Nav(view)
  \/ OnStart \/ OnBack
  \/ JoinEffect
  \/ \E oversize \in BOOLEAN : HandleGameComplete(oversize)

=============================================================================
