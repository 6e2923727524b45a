----------------------------- MODULE PlayProofs -----------------------------
(***************************************************************************)
(* Theorems about Play, for any users, names, sockets, games, messages and *)
(* faults, proved with TLAPS.                                              *)
(*                                                                         *)
(* PageInv is about the browser alone: which of its sockets live, and what *)
(* the queued updates make of isConnected.  ServerInv is about the server  *)
(* alone.  Sent relates the messages on the way to the finished games,     *)
(* Naming says that every profile met anywhere has the one name of its id, *)
(* and Joining that, before the first fault, a game ended after the join   *)
(* effect is behind that effect's message.  Once says that a game to be    *)
(* saved is in one place only, on the way or in a handler's hands.         *)
(***************************************************************************)
EXTENDS Play, Induction, FiniteSetTheorems

Rendering == INSTANCE FoldLaws WITH Op <- Apply

-----------------------------------------------------------------------------
(* The inductive invariants.                                               *)

SockState == {"unused", "connecting", "open", "closing", "closed"}
View == {"landing", "arena", "profile"}

\* What is queued, and what a click adds to it.
Setting == [set : {"conn", "healthy"}, to : BOOLEAN]
Update == Setting \union [set : {"view"}, to : View]

\* What is on the way to the server, and what was played.
Wire == [kind : {"oversize"}] \union [kind : {"join"}, user : Users, name : Names]
          \union [kind : {"game_end"}, user : Users, wpm : 1..MaxGames]
Game == [user : Profile, page : Sockets, joined : BOOLEAN]

\* A profile can be drawn whenever there is none; there are no updates, no
\* render and no effect without a page.
PageTypes ==
  /\ storage \in Profile \union {NoProfile} /\ ids \subseteq Users
  /\ storage = NoProfile => ids # Users \/ Users = {}
  /\ strict \in BOOLEAN /\ current \in {0} \union Sockets
  /\ sock \in [Sockets -> SockState]
  /\ current = 0 => shown = NoPage /\ queue = <<>> /\ ~due
  /\ current # 0 => shown \in Page
  /\ queue \in Seq(Setting) /\ due \in BOOLEAN
  /\ up \in [Sockets -> Seq(Wire)] /\ down \subseteq Sockets
  /\ games \in Seq(Game) /\ Len(games) <= MaxGames

\* Only the page's own socket lives, and under StrictMode one that closes.
SocketsOK ==
  \A s \in Sockets : s # current =>
    sock[s] \in {"unused", "closed"} \/ (current # 0 /\ strict /\ sock[s] = "closing")

\* isConnected when the updates q are rendered.
Conn(q) == Rendering!Fold(shown, q).conn

ConnOK ==
  current # 0 =>
    /\ Conn(queue) => sock[current] = "open"
    /\ sock[current] = "open" => Conn(queue) \/ strict
    /\ shown.conn => sock[current] # "connecting"

PageInv == PageTypes /\ SocketsOK /\ ConnOK

-----------------------------------------------------------------------------
(* Updates and pages.                                                      *)

\* The kinds of records are told apart by their fields.
LEMMA Marks == NoProfile \notin Profile
BY DEF NoProfile, Profile

\* Updates are what the callbacks and the clicks queue.
LEMMA UpdateKinds ==
  /\ \A b \in BOOLEAN : [set |-> "conn", to |-> b] \in Setting /\ [set |-> "healthy", to |-> b] \in Setting
  /\ \A v \in View : [set |-> "view", to |-> v] \in Update
  /\ Setting \subseteq Update /\ \A q \in Seq(Setting) : q \in Seq(Update)
<1>1. Setting \subseteq Update
  BY DEF Update
<1>2. \A q \in Seq(Setting) : q \in Seq(Update)
  BY <1>1, SeqMonotonic
<1> QED BY <1>1, <1>2 DEF Setting, Update, View

\* An update changes one field of a page, and never the user.
LEMMA ApplyTyped ==
  ASSUME NEW r \in Page, NEW u \in Update
  PROVE  /\ Apply(r, u) \in Page /\ Apply(r, u).user = r.user
         /\ Apply(r, u).conn = IF u.set = "conn" THEN u.to ELSE r.conn
<1>1. CASE u \in Setting
  BY <1>1 DEF Setting, Page, Apply
<1>2. CASE u \in [set : {"view"}, to : View]
  BY <1>2 DEF View, Page, Apply
<1> QED BY <1>1, <1>2 DEF Update

\* Rendering folds.
LEMMA RenderedIsFold == ASSUME NEW q PROVE Rendered(q) = Rendering!Fold(shown, q)
BY DEF Rendered, Rendering!Fold, Rendering!FoldLeft, FoldLeft, Rendering!MapThenFoldSet,
       MapThenFoldSet, Rendering!Max, Max

\* Rendering gives a page, and the last update decides on isConnected.
LEMMA RenderedLaws ==
  ASSUME shown \in Page
  PROVE  /\ \A q \in Seq(Update) : Rendered(q) \in Page /\ Rendered(q).conn = Conn(q)
         /\ Conn(<<>>) = shown.conn
         /\ \A q \in Seq(Update), u \in Update :
              Conn(Append(q, u)) = IF u.set = "conn" THEN u.to ELSE Conn(q)
<1>1. \A q \in Seq(Update) : Rendering!Fold(shown, q) \in Page
  BY ApplyTyped, Rendering!FoldKeeps
<1>2. Conn(<<>>) = shown.conn
  BY Rendering!FoldEmpty DEF Conn
<1>3. ASSUME NEW q \in Seq(Update), NEW u \in Update
      PROVE  Conn(Append(q, u)) = IF u.set = "conn" THEN u.to ELSE Conn(q)
  <2>1. Rendering!Fold(shown, Append(q, u)) = Apply(Rendering!Fold(shown, q), u)
    BY Rendering!FoldAppend
  <2>2. Rendering!Fold(shown, q) \in Page
    BY <1>1
  <2> QED BY <2>1, <2>2, ApplyTyped DEF Conn
<1> QED BY <1>1, <1>2, <1>3, RenderedIsFold DEF Conn

\* isConnected after a step that leaves the page.
LEMMA ConnAfter ==
  ASSUME NEW q, shown' = shown, queue' = q
  PROVE  Conn(queue)' = Conn(q)
BY DEF Conn

\* A profile comes from the storage, or is drawn with an id of its own.
LEMMA ProfileDrawn ==
  ASSUME PageTypes, NEW p \in Profile, GetOrCreateProfile(p)
  PROVE  /\ storage' = p /\ ids \subseteq ids' /\ ids' \subseteq Users
         /\ \/ storage = p /\ ids' = ids
            \/ storage = NoProfile /\ p.id \notin ids /\ p.id \in ids'
               /\ ids' = ids \union {p.id}
<1>1. p.id \in Users
  BY DEF Profile
<1>2. CASE storage # NoProfile
  BY <1>2 DEF GetOrCreateProfile, profile, PageTypes
<1>3. CASE storage = NoProfile
  <2>1. ids # Users /\ ids \subseteq Users
    BY <1>1, <1>3 DEF PageTypes
  <2>2. \E u \in Users : u \notin ids
    BY <2>1
  <2>3. p.id = (CHOOSE u \in Users : u \notin ids) /\ storage' = p /\ ids' = ids \union {p.id}
    BY <1>3 DEF GetOrCreateProfile
  <2>4. p.id \notin ids
    BY <2>2, <2>3
  <2> QED BY <1>1, <1>3, <2>1, <2>3, <2>4
<1> QED BY <1>2, <1>3

\* Once a page has a profile it is in the storage.
LEMMA ProfileKept ==
  ASSUME PageTypes, NEW p \in Profile, GetOrCreateProfile(p)
  PROVE  /\ storage' \in Profile \union {NoProfile} /\ ids' \subseteq Users
         /\ storage' # NoProfile
BY ProfileDrawn, Marks

\* A render shows what the queue makes of the page, with the stored profile.
LEMMA RenderFields ==
  ASSUME PageTypes, current # 0, NEW q \in Seq(Update), RenderAll(q)
  PROVE  \E p \in Profile :
           /\ GetOrCreateProfile(p) /\ shown' \in Page
           /\ shown'.user = p /\ shown'.conn = Conn(q)
<1>1. PICK p \in Profile : GetOrCreateProfile(p) /\ shown' = [Rendered(q) EXCEPT !.user = p]
  BY DEF RenderAll
<1>2. Rendered(q) \in Page /\ Rendered(q).conn = Conn(q)
  BY RenderedLaws DEF PageTypes
<1>3. shown' \in Page /\ shown'.user = p /\ shown'.conn = Rendered(q).conn
  BY <1>1, <1>2 DEF Page
<1> QED BY <1>1, <1>2, <1>3

-----------------------------------------------------------------------------
(* The page.                                                               *)

\* Messages and connections come and go without the page.
Travels ==
  /\ up' \in [Sockets -> Seq(Wire)] /\ down \subseteq down' /\ down' \subseteq Sockets
  /\ UNCHANGED <<profile, strict, current, sock, shown, queue, due, games>>

\* The page is not changed by what happens on the way.
LEMMA TravelsPage == ASSUME PageInv, Travels PROVE PageInv'
<1>1. /\ storage' = storage /\ ids' = ids /\ strict' = strict /\ current' = current /\ sock' = sock
      /\ shown' = shown /\ queue' = queue /\ due' = due /\ games' = games
  BY DEF Travels, profile
<1>2. PageTypes'
  BY <1>1 DEF Travels, PageInv, PageTypes
<1>3. SocketsOK' /\ ConnOK'
  BY <1>1 DEF PageInv, SocketsOK, ConnOK, Conn
<1> QED BY <1>2, <1>3 DEF PageInv

\* Clearing the profile is for the storage alone.
LEMMA ClearPage == ASSUME PageInv, ClearProfile PROVE PageInv'
<1>1. /\ storage' = NoProfile /\ ids' = ids /\ ids # Users
      /\ strict' = strict /\ current' = current /\ sock' = sock /\ shown' = shown
      /\ queue' = queue /\ due' = due /\ up' = up /\ down' = down /\ games' = games
  BY DEF ClearProfile, network
<1>2. PageTypes'
  BY <1>1 DEF PageInv, PageTypes
<1>3. SocketsOK' /\ ConnOK'
  BY <1>1 DEF PageInv, SocketsOK, ConnOK, Conn
<1> QED BY <1>2, <1>3 DEF PageInv

\* What loading a page does: its own socket connects, and under StrictMode
\* the one before it closes.
LEMMA LoadSays ==
  ASSUME PageInv, Load
  PROVE  /\ current = 0 /\ current' \in Sockets /\ sock' \in [Sockets -> SockState]
         /\ sock'[current'] = "connecting"
         /\ \A s \in Sockets : s # current' =>
              sock'[s] \in {"unused", "closed"} \/ (strict /\ sock'[s] = "closing")
         /\ \E p \in Profile :
              /\ GetOrCreateProfile(p) /\ shown' \in Page /\ shown'.user = p
              /\ shown'.conn = FALSE
         /\ strict' = strict /\ queue' = <<>> /\ due' = FALSE
         /\ up' = up /\ down' = down /\ games' = games
<1> DEFINE used == Cardinality({s \in Sockets : sock[s] # "unused"})
           last == IF strict THEN used + 2 ELSE used + 1
<1>1. used \in Nat
  <2>1. IsFiniteSet(Sockets)
    BY FS_Interval, SessionAssumption DEF Sockets, SessionAssumption
  <2>2. IsFiniteSet({s \in Sockets : sock[s] # "unused"})
    BY <2>1, FS_Subset
  <2> QED BY <2>2, FS_CardinalityType
<1>2. /\ current = 0 /\ last \in Sockets /\ current' = last
      /\ sock' = [s \in Sockets |-> IF s = last THEN "connecting"
                                    ELSE IF s \in used + 1..last THEN "closing" ELSE sock[s]]
      /\ \E p \in Profile :
           /\ GetOrCreateProfile(p)
           /\ shown' = [conn |-> FALSE, healthy |-> FALSE, view |-> "landing", user |-> p]
      /\ strict' = strict /\ queue' = queue /\ due' = due
      /\ up' = up /\ down' = down /\ games' = games
  BY DEF Load, network
<1>3. ~strict => \A s : s \in used + 1..last => s = last
  BY <1>1
<1> HIDE DEF used, last
<1>4. /\ sock \in [Sockets -> SockState] /\ queue = <<>> /\ ~due /\ due \in BOOLEAN
      /\ \A s \in Sockets : sock[s] \in {"unused", "closed"}
  <2>1. \A s \in Sockets : s # 0
    BY DEF Sockets
  <2> QED BY <1>2, <2>1 DEF PageInv, PageTypes, SocketsOK
<1>5. /\ sock' \in [Sockets -> SockState] /\ sock'[last] = "connecting"
      /\ \A s \in Sockets : s # last =>
           sock'[s] \in {"unused", "closed"} \/ (strict /\ sock'[s] = "closing")
  BY <1>2, <1>3, <1>4 DEF SockState
<1>6. ASSUME NEW p \in Profile,
             shown' = [conn |-> FALSE, healthy |-> FALSE, view |-> "landing", user |-> p]
      PROVE  shown' \in Page /\ shown'.user = p /\ shown'.conn = FALSE
  BY <1>6 DEF Page
<1> QED BY <1>2, <1>4, <1>5, <1>6

\* A new page has no connection yet, and knows it.
LEMMA LoadPage == ASSUME PageInv, Load PROVE PageInv'
<1>1. /\ current' \in Sockets /\ sock' \in [Sockets -> SockState]
      /\ sock'[current'] = "connecting" /\ strict' = strict
      /\ \A s \in Sockets : s # current' =>
           sock'[s] \in {"unused", "closed"} \/ (strict /\ sock'[s] = "closing")
      /\ shown' \in Page /\ shown'.conn = FALSE /\ queue' = <<>> /\ due' = FALSE
      /\ up' = up /\ down' = down /\ games' = games
  BY LoadSays
<1>2. storage' \in Profile \union {NoProfile} /\ ids' \subseteq Users /\ storage' # NoProfile
  BY LoadSays, ProfileKept DEF PageInv
<1>3. current' # 0
  BY <1>1 DEF Sockets
<1>4. PageTypes'
  <2>1. queue' \in Seq(Setting)
    BY <1>1, EmptySeq
  <2> QED BY <1>1, <1>2, <1>3, <2>1 DEF PageInv, PageTypes
<1>5. SocketsOK'
  BY <1>1, <1>3 DEF SocketsOK
<1>6. Conn(queue)' = FALSE
  <2>1. Conn(queue)' = Rendering!Fold(shown', <<>>).conn
    BY <1>1 DEF Conn
  <2> QED BY <1>1, <2>1, Rendering!FoldEmpty
<1>7. ConnOK'
  BY <1>1, <1>6 DEF ConnOK
<1> QED BY <1>4, <1>5, <1>7 DEF PageInv

\* Without a page no socket is left alive.
LEMMA UnloadPage == ASSUME PageInv, Unload PROVE PageInv'
<1>1. /\ current' = 0 /\ sock' = [s \in Sockets |-> IF sock[s] = "unused" THEN "unused" ELSE "closed"]
      /\ shown' = NoPage /\ queue' = <<>> /\ due' = FALSE /\ strict' = strict
      /\ storage' = storage /\ ids' = ids /\ up' = up /\ down' = down /\ games' = games
  BY DEF Unload, profile, network
<1>2. PageTypes'
  <2>1. queue' \in Seq(Setting) /\ sock' \in [Sockets -> SockState]
    BY <1>1, EmptySeq DEF SockState
  <2> QED BY <1>1, <2>1 DEF PageInv, PageTypes
<1>3. SocketsOK' /\ ConnOK'
  BY <1>1 DEF SocketsOK, ConnOK
<1> QED BY <1>2, <1>3 DEF PageInv

\* A callback queues one update.
LEMMA SetStateSays ==
  ASSUME PageInv, NEW f \in {"conn", "healthy"}, NEW b \in BOOLEAN, SetState(f, b),
         shown' = shown, current # 0
  PROVE  /\ queue' \in Seq(Setting)
         /\ Conn(queue)' = IF f = "conn" THEN b ELSE Conn(queue)
<1> DEFINE u == [set |-> f, to |-> b]
<1>1. u \in Setting /\ u \in Update /\ queue \in Seq(Setting) /\ queue \in Seq(Update)
  BY UpdateKinds DEF PageInv, PageTypes
<1>2. u.set = f /\ u.to = b
  OBVIOUS
<1>3. queue' = Append(queue, u)
  BY DEF SetState
<1> HIDE DEF u
<1>4. queue' \in Seq(Setting)
  BY <1>1, <1>3, AppendProperties
<1>5. Conn(queue)' = Conn(Append(queue, u))
  BY <1>3, ConnAfter
<1>6. shown \in Page
  BY DEF PageInv, PageTypes
<1>7. Conn(Append(queue, u)) = IF u.set = "conn" THEN u.to ELSE Conn(queue)
  BY <1>1, <1>6, RenderedLaws
<1> QED BY <1>2, <1>4, <1>5, <1>7

\* The socket that opens is the page's.
LEMMA OpenPage == ASSUME PageInv, NEW s \in Sockets, SocketOpen(s) PROVE PageInv'
<1>1. /\ sock[s] = "connecting" /\ sock' = [sock EXCEPT ![s] = "open"] /\ SetState("conn", TRUE)
      /\ storage' = storage /\ ids' = ids /\ strict' = strict /\ current' = current
      /\ shown' = shown /\ due' = due /\ up' = up /\ down' = down /\ games' = games
  BY DEF SocketOpen, profile, network
<1>2. s = current /\ current # 0
  <2>1. s # 0
    BY DEF Sockets
  <2> QED BY <1>1, <2>1 DEF PageInv, SocketsOK
<1>3. sock \in [Sockets -> SockState]
  BY DEF PageInv, PageTypes
<1>4. sock' \in [Sockets -> SockState] /\ sock'[s] = "open" /\ \A t \in Sockets : t # s => sock'[t] = sock[t]
  BY <1>1, <1>3 DEF SockState
<1>5. queue' \in Seq(Setting) /\ Conn(queue)' = TRUE
  BY <1>1, <1>2, SetStateSays
<1>6. PageTypes'
  BY <1>1, <1>2, <1>4, <1>5 DEF PageInv, PageTypes
<1>7. SocketsOK'
  BY <1>1, <1>2, <1>4 DEF PageInv, SocketsOK
<1>8. ConnOK'
  BY <1>1, <1>2, <1>4, <1>5 DEF ConnOK
<1> QED BY <1>6, <1>7, <1>8 DEF PageInv

\* A socket that closes, the page's or an older one, leaves no connection, or
\* is the old one that StrictMode closes.
LEMMA ClosePage == ASSUME PageInv, NEW s \in Sockets, SocketClose(s) PROVE PageInv'
<1>1. /\ Closes(s) /\ sock' = [sock EXCEPT ![s] = "closed"] /\ SetState("conn", FALSE)
      /\ storage' = storage /\ ids' = ids /\ strict' = strict /\ current' = current
      /\ shown' = shown /\ due' = due /\ up' = up /\ down' = down /\ games' = games
  BY DEF SocketClose, profile, network
<1>2. current # 0 /\ (s = current \/ strict)
  <2>1. s # 0 /\ sock[s] \in {"connecting", "closing", "open"}
    BY <1>1 DEF Sockets, Closes
  <2> QED BY <2>1 DEF PageInv, SocketsOK
<1>3. sock \in [Sockets -> SockState] /\ current \in Sockets
  BY <1>2 DEF PageInv, PageTypes
<1>4. sock' \in [Sockets -> SockState] /\ sock'[s] = "closed" /\ \A t \in Sockets : t # s => sock'[t] = sock[t]
  BY <1>1, <1>3 DEF SockState
<1>5. queue' \in Seq(Setting) /\ Conn(queue)' = FALSE
  BY <1>1, <1>2, SetStateSays
<1>6. PageTypes'
  BY <1>1, <1>2, <1>4, <1>5 DEF PageInv, PageTypes
<1>7. SocketsOK'
  BY <1>1, <1>2, <1>4 DEF PageInv, SocketsOK
<1>8. ConnOK'
  BY <1>1, <1>2, <1>3, <1>4, <1>5 DEF PageInv, ConnOK
<1> QED BY <1>6, <1>7, <1>8 DEF PageInv

\* The answer about the server's health says nothing about the connection.
LEMMA HealthPage == ASSUME PageInv, HealthAnswered PROVE PageInv'
<1>1. /\ current # 0 /\ SetState("healthy", TRUE) /\ sock' = sock
      /\ storage' = storage /\ ids' = ids /\ strict' = strict /\ current' = current
      /\ shown' = shown /\ due' = due /\ up' = up /\ down' = down /\ games' = games
  BY DEF HealthAnswered, profile, network
<1>2. queue' \in Seq(Setting) /\ Conn(queue)' = Conn(queue)
  BY <1>1, SetStateSays
<1>3. PageTypes'
  BY <1>1, <1>2 DEF PageInv, PageTypes
<1>4. SocketsOK' /\ ConnOK'
  BY <1>1, <1>2 DEF PageInv, SocketsOK, ConnOK
<1> QED BY <1>3, <1>4 DEF PageInv

\* A render shows the connection that the queue has come to.
LEMMA RenderAllPage ==
  ASSUME PageInv, current # 0, NEW q \in Seq(Update), Conn(q) = Conn(queue), RenderAll(q)
  PROVE  PageInv'
<1>1. /\ queue' = <<>> /\ due' = JoinDeps(shown') /\ sock' = sock
      /\ strict' = strict /\ current' = current /\ up' = up /\ down' = down /\ games' = games
  BY DEF RenderAll, network
<1>2. PICK p \in Profile : GetOrCreateProfile(p) /\ shown' \in Page /\ shown'.conn = Conn(q)
  BY RenderFields DEF PageInv
<1>3. storage' \in Profile \union {NoProfile} /\ ids' \subseteq Users /\ storage' # NoProfile
  BY <1>2, ProfileKept DEF PageInv
<1>4. PageTypes'
  <2>1. queue' \in Seq(Setting) /\ due' \in BOOLEAN
    BY <1>1, EmptySeq DEF JoinDeps
  <2> QED BY <1>1, <1>2, <1>3, <2>1 DEF PageInv, PageTypes
<1>5. Conn(queue)' = Conn(queue)
  <2>1. Conn(queue)' = Rendering!Fold(shown', <<>>).conn
    BY <1>1 DEF Conn
  <2> QED BY <1>2, <2>1, Rendering!FoldEmpty
<1>6. SocketsOK' /\ ConnOK'
  BY <1>1, <1>2, <1>5 DEF PageInv, SocketsOK, ConnOK
<1> QED BY <1>4, <1>6 DEF PageInv

\* A render of what is queued, and one after a click, are such renders.
LEMMA RenderPage ==
  ASSUME PageInv, Render \/ \E v \in View : SetView(v)
  PROVE  /\ current # 0
         /\ \E q \in Seq(Update) : Conn(q) = Conn(queue) /\ RenderAll(q)
<1>1. queue \in Seq(Update)
  BY UpdateKinds DEF PageInv, PageTypes
<1>2. CASE Render
  BY <1>1, <1>2 DEF Render
<1>3. ASSUME NEW v \in View, SetView(v)
      PROVE  current # 0 /\ \E q \in Seq(Update) : Conn(q) = Conn(queue) /\ RenderAll(q)
  <2> DEFINE u == [set |-> "view", to |-> v]
  <2>1. u \in Update /\ u.set # "conn"
    BY UpdateKinds
  <2>2. current # 0 /\ RenderAll(Append(queue, u))
    BY <1>3 DEF SetView
  <2>3. shown \in Page
    BY <2>2 DEF PageInv, PageTypes
  <2> HIDE DEF u
  <2>4. Conn(Append(queue, u)) = Conn(queue) /\ Append(queue, u) \in Seq(Update)
    BY <1>1, <2>1, <2>3, RenderedLaws, AppendProperties
  <2> QED BY <2>2, <2>4
<1> QED BY <1>2, <1>3

\* What sendMessage does to the messages on the way.
LEMMA SendSays ==
  ASSUME PageTypes, current # 0, NEW m \in Wire, SendMessage(m)
  PROVE  /\ up' \in [Sockets -> Seq(Wire)]
         /\ \/ sock[current] = "open" /\ current \notin down
               /\ up' = [up EXCEPT ![current] = Append(@, m)]
            \/ ~(sock[current] = "open" /\ current \notin down) /\ up' = up
<1>1. current \in Sockets /\ up \in [Sockets -> Seq(Wire)] /\ up[current] \in Seq(Wire)
  BY DEF PageTypes
<1>2. Append(up[current], m) \in Seq(Wire)
  BY <1>1, AppendProperties
<1> QED BY <1>1, <1>2 DEF SendMessage

\* The join message and the result of a game are messages.
LEMMA WireKinds ==
  ASSUME shown \in Page
  PROVE  /\ JoinLobby \in Wire
         /\ games \in Seq(Game) /\ Len(games) < MaxGames => \A o \in BOOLEAN : GameEnd(o) \in Wire
<1>1. shown.user.id \in Users /\ shown.user.username \in Names
  BY DEF Page, Profile
<1>2. JoinLobby \in Wire
  BY <1>1 DEF JoinLobby, Wire
<1>3. ASSUME games \in Seq(Game), Len(games) < MaxGames, NEW o \in BOOLEAN
      PROVE  GameEnd(o) \in Wire
  <2>1. Len(games) \in Nat /\ MaxGames \in Nat
    BY <1>3, LenProperties, SessionAssumption DEF SessionAssumption
  <2>2. Len(games) + 1 \in 1..MaxGames
    BY <1>3, <2>1
  <2> QED BY <1>1, <1>3, <2>2 DEF GameEnd, Wire
<1> QED BY <1>2, <1>3

\* The join effect sends, and changes nothing on the page.
LEMMA JoinPage == ASSUME PageInv, JoinEffect PROVE PageInv'
<1>1. /\ due /\ due' = FALSE
      /\ (IF shown.conn THEN SendMessage(JoinLobby) ELSE UNCHANGED up)
      /\ storage' = storage /\ ids' = ids /\ strict' = strict /\ current' = current /\ sock' = sock
      /\ shown' = shown /\ queue' = queue /\ down' = down /\ games' = games
  BY DEF JoinEffect, profile
<1>2. current # 0 /\ shown \in Page
  BY <1>1 DEF PageInv, PageTypes
<1>3. up' \in [Sockets -> Seq(Wire)]
  BY <1>1, <1>2, SendSays, WireKinds DEF PageInv, PageTypes
<1>4. PageTypes'
  BY <1>1, <1>2, <1>3 DEF PageInv, PageTypes
<1>5. SocketsOK' /\ ConnOK'
  BY <1>1 DEF PageInv, SocketsOK, ConnOK, Conn
<1> QED BY <1>4, <1>5 DEF PageInv

\* What the end of a game does.
LEMMA GameSays ==
  ASSUME PageInv, NEW o \in BOOLEAN, HandleGameComplete(o)
  PROVE  /\ current # 0 /\ shown \in Page /\ GameEnd(o) \in Wire /\ SendMessage(GameEnd(o))
         /\ up' \in [Sockets -> Seq(Wire)]
         /\ games' = Append(games, [user |-> shown.user, page |-> current, joined |-> Joined])
         /\ games' \in Seq(Game) /\ Len(games') <= MaxGames
         /\ Len(games) \in Nat /\ Len(games') = Len(games) + 1
         /\ games'[Len(games) + 1] = [user |-> shown.user, page |-> current, joined |-> Joined]
         /\ \A i \in 1..Len(games) : games'[i] = games[i]
         /\ storage' = storage /\ ids' = ids /\ strict' = strict /\ current' = current
         /\ sock' = sock /\ shown' = shown /\ queue' = queue /\ due' = due /\ down' = down
<1> DEFINE g == [user |-> shown.user, page |-> current, joined |-> Joined]
<1>1. /\ current # 0 /\ Len(games) < MaxGames /\ SendMessage(GameEnd(o))
      /\ games' = Append(games, g)
      /\ storage' = storage /\ ids' = ids /\ strict' = strict /\ current' = current
      /\ sock' = sock /\ shown' = shown /\ queue' = queue /\ due' = due /\ down' = down
  BY DEF HandleGameComplete, profile
<1>2. shown \in Page /\ games \in Seq(Game) /\ current \in Sockets
  BY <1>1 DEF PageInv, PageTypes
<1>3. Joined \in BOOLEAN
  BY DEF Joined
<1>4. g \in Game
  BY <1>2, <1>3 DEF Game, Page
<1>5. GameEnd(o) \in Wire
  BY <1>1, <1>2, WireKinds
<1>6. up' \in [Sockets -> Seq(Wire)]
  BY <1>1, <1>5, SendSays DEF PageInv
<1> HIDE DEF g
<1>7. /\ games' \in Seq(Game) /\ Len(games) \in Nat /\ Len(games') = Len(games) + 1
      /\ games'[Len(games) + 1] = g /\ \A i \in 1..Len(games) : games'[i] = games[i]
  BY <1>1, <1>2, <1>4, AppendProperties, LenProperties
<1>8. Len(games') <= MaxGames
  BY <1>1, <1>7, SessionAssumption DEF SessionAssumption
<1> QED BY <1>1, <1>2, <1>5, <1>6, <1>7, <1>8 DEF g

\* It changes the page as little as the join effect does.
LEMMA GamePage == ASSUME PageInv, NEW o \in BOOLEAN, HandleGameComplete(o) PROVE PageInv'
<1>1. /\ up' \in [Sockets -> Seq(Wire)] /\ games' \in Seq(Game) /\ Len(games') <= MaxGames
      /\ storage' = storage /\ ids' = ids /\ strict' = strict /\ current' = current
      /\ sock' = sock /\ shown' = shown /\ queue' = queue /\ due' = due /\ down' = down
  BY GameSays
<1>2. PageTypes'
  BY <1>1 DEF PageInv, PageTypes
<1>3. SocketsOK' /\ ConnOK'
  BY <1>1 DEF PageInv, SocketsOK, ConnOK, Conn
<1> QED BY <1>2, <1>3 DEF PageInv

-----------------------------------------------------------------------------
(* The connection that the page shows.                                     *)

\* The first message of a connection, and those behind it.
LEMMA HeadAndTail ==
  ASSUME NEW q \in Seq(Wire), q # <<>>
  PROVE  /\ Len(q) \in Nat /\ Len(q) >= 1 /\ DOMAIN q = 1..Len(q)
         /\ Head(q) = q[1] /\ Head(q) \in Wire
         /\ Tail(q) \in Seq(Wire) /\ Len(Tail(q)) = Len(q) - 1 /\ DOMAIN Tail(q) = 1..(Len(q) - 1)
         /\ \A i \in 1..(Len(q) - 1) : Tail(q)[i] = q[i + 1]
<1>1. /\ Len(q) \in Nat /\ DOMAIN q = 1..Len(q) /\ Head(q) \in Wire /\ Tail(q) \in Seq(Wire)
      /\ Len(Tail(q)) = Len(q) - 1
  BY LenProperties, HeadTailProperties
<1>2. DOMAIN Tail(q) = 1..(Len(q) - 1)
  BY <1>1, LenProperties
<1>3. Len(q) >= 1
  BY <1>1, EmptySeq
<1>4. Head(q) = q[1] /\ \A i \in 1..(Len(q) - 1) : Tail(q)[i] = q[i + 1]
  BY <1>1
<1> QED BY <1>1, <1>2, <1>3, <1>4

\* A lost connection takes its messages with it.
LEMMA LostTravels == ASSUME PageInv, NEW s \in Sockets, Lost(s) PROVE Travels
<1>1. up' \in [Sockets -> Seq(Wire)]
  BY EmptySeq DEF Lost, PageInv, PageTypes
<1> QED BY <1>1 DEF Lost, Travels, PageInv, PageTypes

\* The server reads the first message, or closes the connection over it.
LEMMA ReadTravels == ASSUME PageInv, NEW s \in Sockets, ReadMessage(s) PROVE Travels
<1>1. up[s] # <<>> /\ up' = [up EXCEPT ![s] = Tail(@)] /\ up[s] \in Seq(Wire)
  BY DEF ReadMessage, PageInv, PageTypes
<1>2. Tail(up[s]) \in Seq(Wire)
  BY <1>1, HeadAndTail
<1>3. up' \in [Sockets -> Seq(Wire)]
  BY <1>1, <1>2 DEF PageInv, PageTypes
<1> QED BY <1>3 DEF ReadMessage, Travels, PageInv, PageTypes

\* Every connection is lost when the process exits.
LEMMA RestartTravels == ASSUME PageInv, Restart PROVE Travels
<1>1. /\ down' = down \union {s \in Sockets : pc[s] # "closed"}
      /\ up' = [s \in Sockets |-> IF s \in {t \in Sockets : pc[t] # "closed"} THEN <<>> ELSE up[s]]
  BY DEF Restart
<1>2. up' \in [Sockets -> Seq(Wire)] /\ down' \subseteq Sockets
  BY <1>1, EmptySeq DEF PageInv, PageTypes
<1> QED BY <1>1, <1>2 DEF Restart, Travels

\* What the server does by itself leaves the page alone.
LEMMA IdleTravels == ASSUME PageInv, UNCHANGED pageVars PROVE Travels
BY DEF Travels, pageVars, network, PageInv, PageTypes

\* The steps of the page, one by one.
LEMMA PageSteps ==
  ASSUME PageInv, PageStep
  PROVE  \/ ClearProfile \/ Load \/ Unload
         \/ \E s \in Sockets : SocketClose(s)
         \/ HealthAnswered
         \/ current # 0 /\ \E q \in Seq(Update) : Conn(q) = Conn(queue) /\ RenderAll(q)
         \/ JoinEffect
         \/ \E o \in BOOLEAN : HandleGameComplete(o)
<1>1. CASE (\E v \in {"landing", "profile"} : Nav(v)) \/ OnStart \/ OnBack
  <2>1. \E v \in View : SetView(v)
    BY <1>1 DEF Nav, OnStart, OnBack, View
  <2> QED BY <2>1, RenderPage
<1>2. CASE Render
  BY <1>2, RenderPage
<1> QED BY <1>1, <1>2 DEF PageStep

\* Before the first page there is nothing.
LEMMA PageInitial == Init => PageInv
<1> SUFFICES ASSUME Init PROVE PageInv
  OBVIOUS
<1>1. PageInit
  BY DEF Init
<1>2. up \in [Sockets -> Seq(Wire)] /\ queue \in Seq(Setting) /\ games \in Seq(Game)
      /\ Len(games) = 0
  BY <1>1, EmptySeq DEF PageInit
<1>3. MaxGames \in Nat
  BY SessionAssumption DEF SessionAssumption
<1>4. PageTypes
  <2>1. storage \in Profile \union {NoProfile} /\ ids \subseteq Users /\ (ids # Users \/ Users = {})
    BY <1>1 DEF PageInit
  <2>2. /\ strict \in BOOLEAN /\ current = 0 /\ sock \in [Sockets -> SockState]
        /\ shown = NoPage /\ queue = <<>> /\ due = FALSE /\ down = {} /\ Len(games) <= MaxGames
    BY <1>1, <1>2, <1>3 DEF PageInit, SockState
  <2> QED BY <1>2, <2>1, <2>2 DEF PageTypes
<1> QED BY <1>1, <1>4 DEF PageInit, PageInv, SocketsOK, ConnOK

\* The steps that are not the page's own: the socket opens, or the page is
\* not concerned.
LEMMA Elsewhere ==
  ASSUME PageInv, [Next]_vars
  PROVE  \/ PageStep /\ UNCHANGED <<serverVars, dropped>>
         \/ \E s \in Sockets : Establish(s)
         \/ Travels
<1>1. ASSUME NEW s \in Sockets, Break(s) \/ ReadOversize(s) PROVE Travels
  BY <1>1, LostTravels DEF Break, ReadOversize
<1>2. ASSUME NEW s \in Sockets, ReadError(s) \/ Handler(s) \/ HandlerFails(s) PROVE Travels
  BY <1>2, IdleTravels DEF ReadError, Handler, HandlerFails
<1>3. CASE UNCHANGED vars
  BY <1>3, IdleTravels DEF vars
<1> QED BY <1>1, <1>2, <1>3, ReadTravels, RestartTravels DEF Next

\* The page's invariant is inductive.
LEMMA PageNext == PageInv /\ [Next]_vars => PageInv'
<1> SUFFICES ASSUME PageInv, [Next]_vars PROVE PageInv'
  OBVIOUS
<1>1. CASE PageStep
  BY <1>1, PageSteps, ClearPage, LoadPage, UnloadPage, ClosePage, HealthPage, RenderAllPage,
     JoinPage, GamePage
<1>2. ASSUME NEW s \in Sockets, Establish(s) PROVE PageInv'
  BY <1>2, OpenPage DEF Establish
<1> QED BY <1>1, <1>2, Elsewhere, TravelsPage

\* The page that has rendered what it knows shows a connection exactly while
\* its own socket is open; under StrictMode the close of the first socket can
\* hide one, but none is shown that is not there (useWebSocket.ts:15-50).
THEOREM ShowsItsConnection == Spec => []ConnectedIsOpen
<1>1. PageInv => ConnectedIsOpen
  <2> SUFFICES ASSUME PageInv, current # 0, queue = <<>>
               PROVE  /\ shown.conn => sock[current] = "open"
                      /\ sock[current] = "open" => shown.conn \/ strict
    BY DEF ConnectedIsOpen
  <2>1. Conn(queue) = shown.conn
    BY RenderedLaws DEF PageInv, PageTypes
  <2> QED BY <2>1 DEF PageInv, ConnOK
<1> QED BY <1>1, PageInitial, PageNext, PTL DEF Spec

-----------------------------------------------------------------------------
(* The server.                                                             *)

Playing == {"saving", "looking", "ranking"}
Handling == Playing \union {"inserting", "announcing"}
Row == [from : Nat, by : Sockets, user : Users, wpm : 1..MaxGames]
Reason == {"numbers", "no row", "no join", "failed"}

StoreTypes ==
  /\ DOMAIN users \subseteq Users /\ \A u \in DOMAIN users : users[u] \in Names
  /\ matches \in Seq(Row)
  /\ DOMAIN board \subseteq Names \X Users /\ \A m \in DOMAIN board : board[m] \in 1..MaxGames

HandlerTypes ==
  /\ pc \in [Sockets -> Server!PC]
  /\ job \in [Sockets -> Server!Message \union {Server!Idle}]
  /\ found \in [Sockets -> Names \union {Server!NoName}]

CountTypes ==
  /\ received \in 0..MaxMessages /\ faults \in 0..MaxFaults
  /\ joins \subseteq Users /\ torn \subseteq Users /\ announced \subseteq 1..MaxMessages

\* A handler works on the message that its place is for: a join of a named
\* user, or the end of a game that was played, by the user who played it.
JobOK(s) ==
  /\ pc[s] \in Handling => job[s].n \in 1..received
  /\ pc[s] = "inserting" =>
       job[s].kind = "join" /\ job[s].user \in Users /\ job[s].name \in Names
  /\ pc[s] \in Playing =>
       /\ job[s].kind = "game_end" /\ job[s].by = s /\ job[s].user \in Users
       /\ job[s].wpm \in 1..Len(games) /\ job[s].user = games[job[s].wpm].user.id
  /\ pc[s] = "ranking" => found[s] \in Names

ServerInv ==
  /\ StoreTypes /\ HandlerTypes /\ CountTypes
  /\ \A s \in Sockets : JobOK(s)
  /\ dropped \subseteq [game : 1..Len(games), why : Reason]

\* The same of the messages on the way.
Sent ==
  \A s \in Sockets : \A i \in DOMAIN up[s] :
    up[s][i].kind = "game_end" =>
      up[s][i].wpm \in 1..Len(games) /\ up[s][i].user = games[up[s][i].wpm].user.id

\* The server is an instance of Records: its assumption holds.
LEMMA ServerIsRecords ==
  /\ [s \in Sockets |-> CHOOSE u \in Users : TRUE] \in [Sockets -> Users]
  /\ [u \in Users |-> CHOOSE name \in Names : TRUE] \in [Users -> Names]
  /\ MaxMessages \in Nat /\ MaxFaults \in Nat
<1>1. (CHOOSE u \in Users : TRUE) \in Users
  BY PlayAssumption DEF PlayAssumption
<1>2. (CHOOSE name \in Names : TRUE) \in Names
  BY PlayAssumption DEF PlayAssumption
<1> QED BY <1>1, <1>2, PlayAssumption DEF PlayAssumption

\* The bounds of messages and faults.
LEMMA Limits ==
  /\ MaxMessages \in Nat /\ MaxFaults \in Nat /\ MaxGames \in Nat /\ MaxSockets \in Nat
  /\ Server!NoName \notin Names
BY PlayAssumption, SessionAssumption DEF PlayAssumption, SessionAssumption, Server!NoName

\* The games played stay, and only the page adds one.
LEMMA GamesGrow ==
  ASSUME PageInv, [Next]_vars
  PROVE  /\ Len(games) \in Nat /\ Len(games') \in Nat /\ Len(games) <= Len(games')
         /\ \A i \in 1..Len(games) : games'[i] = games[i]
         /\ games' # games => PageStep /\ UNCHANGED <<serverVars, dropped>>
<1>1. Len(games) \in Nat /\ (games' = games => \A i \in 1..Len(games) : games'[i] = games[i])
  BY LenProperties DEF PageInv, PageTypes
<1>2. ASSUME NEW o \in BOOLEAN, HandleGameComplete(o)
      PROVE  /\ Len(games') = Len(games) + 1 /\ \A i \in 1..Len(games) : games'[i] = games[i]
  BY <1>2, GameSays
<1>3. ASSUME PageStep, games' # games
      PROVE  /\ Len(games') = Len(games) + 1 /\ \A i \in 1..Len(games) : games'[i] = games[i]
  <2>1. \E o \in BOOLEAN : HandleGameComplete(o)
    BY <1>3, PageSteps DEF ClearProfile, Load, Unload, SocketClose, HealthAnswered, RenderAll,
       JoinEffect
  <2> QED BY <1>2, <2>1
<1>4. ASSUME NEW s \in Sockets, Establish(s) PROVE games' = games
  BY <1>4 DEF Establish, SocketOpen
<1>5. Travels => games' = games
  BY DEF Travels
<1> QED BY <1>1, <1>3, <1>4, <1>5, Elsewhere

\* Saving adds the match of a played game.
LEMMA RowSaved ==
  ASSUME PageInv, ServerInv, NEW s \in Sockets, pc[s] \in Playing
  PROVE  /\ Server!MatchOf(job[s]) \in Row /\ job[s].wpm \in 1..MaxGames
         /\ job[s].user \in Users
<1>1. /\ job[s].n \in 1..received /\ job[s].by = s /\ job[s].user \in Users
      /\ job[s].wpm \in 1..Len(games)
  BY DEF ServerInv, JobOK, Handling
<1>2. job[s].n \in Nat
  BY <1>1 DEF ServerInv, CountTypes
<1>3. job[s].wpm \in 1..MaxGames
  <2>1. Len(games) \in Nat /\ Len(games) <= MaxGames /\ MaxGames \in Nat
    BY Limits, LenProperties DEF PageInv, PageTypes
  <2> QED BY <1>1, <2>1
<1> QED BY <1>1, <1>2, <1>3 DEF Server!MatchOf, Row

\* What a step may do to the stores.
Inserts(s) ==
  /\ pc[s] = "inserting"
  /\ \E u \in Users, name \in Names :
       /\ u \notin DOMAIN users
       /\ users' = Server!Put(users, u, name)
  /\ UNCHANGED <<matches, board>>

Saves(s) ==
  /\ pc[s] = "saving" /\ pc'[s] # "saving"
  /\ matches' = Append(matches, Server!MatchOf(job[s]))
  /\ UNCHANGED <<users, board>>

Ranks(s) ==
  /\ pc[s] = "ranking"
  /\ board' = Server!Put(board, Server!Member(found[s], job[s].user), job[s].wpm)
  /\ UNCHANGED <<users, matches>>

Effect ==
  UNCHANGED <<users, matches, board>> \/ \E s \in Sockets : Inserts(s) \/ Saves(s) \/ Ranks(s)

\* A guest is inserted under the name of its join.
LEMMA InsertSays ==
  ASSUME ServerInv, NEW s \in Sockets, pc[s] = "inserting",
         Server!InsertUser(job[s].user, Server!GuestNameOf(job[s])),
         UNCHANGED <<matches, board>>
  PROVE  /\ Effect
         /\ \/ users' = users
               /\ \/ job[s].user \in DOMAIN users
                  \/ \E v \in DOMAIN users : users[v] = job[s].name
            \/ job[s].user \notin DOMAIN users
               /\ users' = Server!Put(users, job[s].user, job[s].name)
<1>1. /\ job[s].user \in Users /\ job[s].name \in Names
      /\ Server!GuestNameOf(job[s]) = job[s].name
  BY Limits DEF ServerInv, JobOK, Server!GuestNameOf
<1>2. \/ users' = users
         /\ \/ job[s].user \in DOMAIN users
            \/ \E v \in DOMAIN users : users[v] = job[s].name
      \/ job[s].user \notin DOMAIN users
         /\ users' = Server!Put(users, job[s].user, job[s].name)
  BY <1>1 DEF Server!InsertUser, Server!Range
<1> QED BY <1>1, <1>2 DEF Inserts, Effect

\* The statement of a failed call has its effect or none.
LEMMA FailEffect ==
  ASSUME ServerInv, NEW s \in Sockets, Server!MayTakeEffect(s), pc'[s] = "announcing"
  PROVE  Effect
<1>1. CASE UNCHANGED <<users, matches, board>>
  BY <1>1 DEF Effect
<1>2. CASE pc[s] = "inserting" /\ Server!InsertUser(job[s].user, Server!GuestNameOf(job[s]))
             /\ UNCHANGED <<matches, board>>
  BY <1>2, InsertSays
<1>3. CASE pc[s] = "saving" /\ Server!SaveMatch(job[s]) /\ UNCHANGED <<users, board>>
  BY <1>3 DEF Server!SaveMatch, Saves, Effect
<1>4. CASE pc[s] = "ranking" /\ Server!Rank(s) /\ UNCHANGED <<users, matches>>
  BY <1>4 DEF Server!Rank, Ranks, Effect
<1> QED BY <1>1, <1>2, <1>3, <1>4 DEF Server!MayTakeEffect, Server!stores

\* What the handlers do to the stores.
LEMMA HandlerEffect ==
  ASSUME ServerInv, NEW s \in Sockets, Handler(s) \/ HandlerFails(s)
  PROVE  Effect
<1>1. CASE Server!CreateGuest(s)
  BY <1>1, InsertSays DEF Server!CreateGuest
<1>2. CASE Server!CreateMatch(s)
  BY <1>2 DEF Server!CreateMatch, Server!Goto, Server!SaveMatch, Saves, Effect, ServerInv, HandlerTypes
<1>3. CASE Server!GetUser(s) \/ Server!Announce(s)
  BY <1>3 DEF Server!GetUser, Server!Announce, Server!stores, Effect
<1>4. CASE Server!UpdateLeaderboard(s)
  BY <1>4 DEF Server!UpdateLeaderboard, Server!Rank, Ranks, Effect
<1>5. CASE Server!CallFails(s)
  BY <1>5, FailEffect DEF Server!CallFails, Server!Goto, ServerInv, HandlerTypes
<1>6. CASE Server!RankRetried(s)
  BY <1>6 DEF Server!RankRetried, Server!Rank, Ranks, Effect
<1> QED BY <1>1, <1>2, <1>3, <1>4, <1>5, <1>6 DEF Handler, HandlerFails

\* Nobody else has an effect on them.
LEMMA Effects ==
  ASSUME ServerInv, [Next]_vars
  PROVE  Effect
<1>1. CASE PageStep /\ UNCHANGED <<serverVars, dropped>>
  BY <1>1 DEF serverVars, Effect
<1>2. ASSUME NEW s \in Sockets, Establish(s) \/ Break(s) \/ ReadMessage(s) \/ ReadOversize(s) \/ ReadError(s)
      PROVE  UNCHANGED <<users, matches, board>>
  BY <1>2 DEF Establish, Break, ReadMessage, ReadOversize, ReadError, Server!Connect,
     Server!Receive, Server!Disconnect, Server!stores
<1>3. CASE Restart \/ UNCHANGED vars
  BY <1>3 DEF Restart, Server!Restart, Server!stores, vars, serverVars, Effect
<1>4. ASSUME NEW s \in Sockets, Establish(s) \/ Break(s) \/ ReadMessage(s) \/ ReadOversize(s) \/ ReadError(s)
      PROVE  Effect
  BY <1>2, <1>4 DEF Effect
<1> QED BY <1>1, <1>3, <1>4, HandlerEffect DEF Next

\* An entry of a partial function is added or replaced.
LEMMA PutTypes ==
  ASSUME NEW f, NEW D, NEW R, NEW x \in D, NEW y \in R,
         DOMAIN f \subseteq D, \A z \in DOMAIN f : f[z] \in R
  PROVE  /\ DOMAIN Server!Put(f, x, y) = DOMAIN f \union {x}
         /\ DOMAIN Server!Put(f, x, y) \subseteq D
         /\ \A z \in DOMAIN Server!Put(f, x, y) : Server!Put(f, x, y)[z] \in R
         /\ Server!Put(f, x, y)[x] = y
         /\ \A z \in DOMAIN f : z # x => Server!Put(f, x, y)[z] = f[z]
BY DEF Server!Put

\* No statement breaks the types of the stores.
LEMMA StoreStep == ASSUME PageInv, ServerInv, [Next]_vars PROVE StoreTypes'
<1> USE DEF StoreTypes
<1>0. StoreTypes
  BY DEF ServerInv
<1>1. CASE UNCHANGED <<users, matches, board>>
  BY <1>0, <1>1
<1>2. ASSUME NEW s \in Sockets, Inserts(s) PROVE StoreTypes'
  <2>1. PICK u \in Users, name \in Names : users' = Server!Put(users, u, name)
    BY <1>2 DEF Inserts
  <2>2. DOMAIN users' \subseteq Users /\ \A v \in DOMAIN users' : users'[v] \in Names
    BY <1>0, <2>1, PutTypes
  <2> QED BY <1>0, <1>2, <2>2 DEF Inserts
<1>3. ASSUME NEW s \in Sockets, Saves(s) PROVE StoreTypes'
  <2>1. Server!MatchOf(job[s]) \in Row
    BY <1>3, RowSaved DEF Saves, Playing
  <2>2. matches' \in Seq(Row)
    BY <1>0, <1>3, <2>1, AppendProperties DEF Saves
  <2> QED BY <1>0, <1>3, <2>2 DEF Saves
<1>4. ASSUME NEW s \in Sockets, Ranks(s) PROVE StoreTypes'
  <2>1. job[s].user \in Users /\ job[s].wpm \in 1..MaxGames /\ found[s] \in Names
    BY <1>4, RowSaved DEF Ranks, Playing, ServerInv, JobOK
  <2> DEFINE m == Server!Member(found[s], job[s].user)
             k == job[s].wpm
             D == Names \X Users
             R == 1..MaxGames
  <2>2. m \in D /\ k \in R
    BY <2>1 DEF Server!Member
  <2>3. board' = Server!Put(board, m, k)
    BY <1>4 DEF Ranks
  <2>4. DOMAIN board \subseteq D /\ \A z \in DOMAIN board : board[z] \in R
    BY <1>0
  <2> HIDE DEF m, k, D, R
  <2>5. DOMAIN board' \subseteq D /\ \A z \in DOMAIN board' : board'[z] \in R
    BY <2>2, <2>3, <2>4, PutTypes
  <2> QED BY <1>0, <1>4, <2>5 DEF Ranks, D, R
<1> QED BY <1>1, <1>2, <1>3, <1>4, Effects DEF Effect

\* The moves of the server, and the others, which it does not notice but for
\* the count of faults.
LEMMA ServerMoves ==
  ASSUME [Next]_vars
  PROVE  \/ /\ UNCHANGED <<pc, job, found, received, announced, joins, torn, dropped>>
            /\ faults' = faults \/ (faults < MaxFaults /\ faults' = faults + 1)
         \/ \E s \in Sockets : Server!Connect(s) /\ dropped' = dropped
         \/ \E s \in Sockets : ReadMessage(s)
         \/ \E s \in Sockets : Server!Disconnect(s) /\ dropped' = dropped
         \/ \E s \in Sockets : Handler(s) \/ HandlerFails(s)
         \/ Restart
<1>1. CASE UNCHANGED <<serverVars, dropped>>
  BY <1>1 DEF serverVars
<1>2. ASSUME NEW s \in Sockets, Establish(s) PROVE Server!Connect(s) /\ dropped' = dropped
  BY <1>2 DEF Establish
<1>3. ASSUME NEW s \in Sockets, Break(s)
      PROVE  /\ UNCHANGED <<pc, job, found, received, announced, joins, torn, dropped>>
             /\ faults < MaxFaults /\ faults' = faults + 1
  BY <1>3 DEF Break
<1>4. ASSUME NEW s \in Sockets, ReadOversize(s) \/ ReadError(s)
      PROVE  Server!Disconnect(s) /\ dropped' = dropped
  BY <1>4 DEF ReadOversize, ReadError
<1> QED BY <1>1, <1>2, <1>3, <1>4 DEF Next, vars

\* What the server takes over is a message, of a profile or of a played game.
LEMMA ReadSays ==
  ASSUME PageInv, ServerInv, Sent, NEW s \in Sockets, ReadMessage(s)
  PROVE  /\ up[s] \in Seq(Wire) /\ up[s] # <<>> /\ pc[s] = "reading"
         /\ received < MaxMessages /\ received' = received + 1
         /\ up' = [up EXCEPT ![s] = Tail(@)]
         /\ \E m \in Server!Message :
              /\ job' = [job EXCEPT ![s] = m] /\ m.n = received + 1 /\ m.by = s
              /\ \/ /\ m.kind = "join" /\ Head(up[s]).kind = "join"
                    /\ m.user = Head(up[s]).user /\ m.name = Head(up[s]).name
                    /\ m.user \in Users /\ m.name \in Names
                    /\ pc' = [pc EXCEPT ![s] = "inserting"]
                 \/ /\ m.kind = "game_end" /\ Head(up[s]).kind = "game_end"
                    /\ m.user = Head(up[s]).user /\ m.wpm = Head(up[s]).wpm
                    /\ m.user \in Users /\ m.wpm \in 1..Len(games)
                    /\ m.user = games[m.wpm].user.id
                    /\ pc' = [pc EXCEPT ![s] = "saving"]
         /\ UNCHANGED <<users, matches, board, found, faults, announced, joins, torn, dropped, games>>
         /\ UNCHANGED <<storage, ids, strict, current, sock, shown, queue, due, down>>
<1> DEFINE h == Head(up[s])
           next == received + 1
           j == [n |-> next, by |-> s, kind |-> "join", user |-> h.user, name |-> h.name]
           g == [n |-> next, by |-> s, kind |-> "game_end", user |-> h.user, wpm |-> h.wpm]
<1>1. /\ up[s] # <<>> /\ up' = [up EXCEPT ![s] = Tail(@)] /\ dropped' = dropped /\ games' = games
      /\ \/ h.kind = "join" /\ Server!Receive(s, j)
         \/ h.kind = "game_end" /\ Server!Receive(s, g)
      /\ UNCHANGED <<storage, ids, strict, current, sock, shown, queue, due, down>>
  BY DEF ReadMessage, profile
<1>2. up[s] \in Seq(Wire)
  BY DEF PageInv, PageTypes
<1>3. h \in Wire /\ 1 \in DOMAIN up[s] /\ h = up[s][1]
  BY <1>1, <1>2, HeadAndTail
<1>4. received \in Nat /\ next \in Nat
  BY Limits DEF ServerInv, CountTypes
<1>5. h.kind = "join" => h.user \in Users /\ h.name \in Names
  BY <1>3 DEF Wire
<1>6. h.kind = "game_end" =>
        h.user \in Users /\ h.wpm \in 1..Len(games) /\ h.user = games[h.wpm].user.id
  <2>1. h.kind = "game_end" => h.user \in Users
    BY <1>3 DEF Wire
  <2> QED BY <1>3, <2>1 DEF Sent
<1>7. ASSUME NEW m, Server!Receive(s, m)
      PROVE  /\ pc[s] = "reading" /\ received < MaxMessages /\ received' = received + 1
             /\ job' = [job EXCEPT ![s] = m]
             /\ m.kind = "join" => pc' = [pc EXCEPT ![s] = "inserting"]
             /\ m.kind = "game_end" => pc' = [pc EXCEPT ![s] = "saving"]
             /\ UNCHANGED <<users, matches, board, found, faults, announced, joins, torn>>
  BY <1>7 DEF Server!Receive, Server!Goto, Server!stores, Server!history
<1>8. CASE h.kind = "join" /\ Server!Receive(s, j)
  <2>1. j \in Server!Message
    BY <1>4, <1>5, <1>8 DEF Server!Message
  <2>2. /\ j.n = next /\ j.by = s /\ j.kind = "join" /\ j.user = h.user /\ j.name = h.name
    OBVIOUS
  <2> HIDE DEF j
  <2> QED BY <1>1, <1>2, <1>5, <1>7, <1>8, <2>1, <2>2
<1>9. CASE h.kind = "game_end" /\ Server!Receive(s, g)
  <2>1. h.wpm \in 1..MaxGames
    <3>1. Len(games) \in Nat /\ Len(games) <= MaxGames /\ MaxGames \in Nat
      BY Limits, LenProperties DEF PageInv, PageTypes
    <3> QED BY <1>6, <1>9, <3>1
  <2>2. g \in Server!Message
    BY <1>4, <1>6, <1>9, <2>1 DEF Server!Message
  <2>3. /\ g.n = next /\ g.by = s /\ g.kind = "game_end" /\ g.user = h.user /\ g.wpm = h.wpm
    OBVIOUS
  <2> HIDE DEF g
  <2> QED BY <1>1, <1>2, <1>6, <1>7, <1>9, <2>2, <2>3
<1> QED BY <1>1, <1>8, <1>9

\* No step breaks the types of the handlers.
LEMMA HandlerStep == ASSUME PageInv, ServerInv, Sent, [Next]_vars PROVE HandlerTypes'
<1> USE DEF HandlerTypes
<1>0. HandlerTypes
  BY DEF ServerInv
<1>1. CASE UNCHANGED <<pc, job, found>>
  BY <1>0, <1>1
<1>2. ASSUME NEW s \in Sockets, Server!Connect(s) \/ Server!Disconnect(s) PROVE HandlerTypes'
  BY <1>0, <1>2 DEF Server!Connect, Server!Disconnect, Server!Goto, Server!PC
<1>3. ASSUME NEW s \in Sockets, ReadMessage(s) PROVE HandlerTypes'
  BY <1>0, <1>3, ReadSays DEF Server!PC
<1>4. ASSUME NEW s \in Sockets, Server!CreateGuest(s) \/ Server!CreateMatch(s) PROVE HandlerTypes'
  BY <1>0, <1>4 DEF Server!CreateGuest, Server!CreateMatch, Server!Goto, Server!PC
<1>5. ASSUME NEW s \in Sockets, Server!GetUser(s) PROVE HandlerTypes'
  BY <1>0, <1>5 DEF Server!GetUser, Server!Goto, Server!PC, ServerInv, StoreTypes
<1>6. ASSUME NEW s \in Sockets, Server!UpdateLeaderboard(s) \/ Server!Announce(s) PROVE HandlerTypes'
  BY <1>0, <1>6 DEF Server!UpdateLeaderboard, Server!Announce, Server!Goto, Server!PC
<1>7. ASSUME NEW s \in Sockets, Server!CallFails(s) PROVE HandlerTypes'
  BY <1>0, <1>7 DEF Server!CallFails, Server!Goto, Server!PC
<1>8. ASSUME NEW s \in Sockets, Server!RankRetried(s) PROVE HandlerTypes'
  BY <1>0, <1>8 DEF Server!RankRetried, Server!session
<1>9. CASE Restart
  BY <1>9 DEF Restart, Server!Restart, Server!PC
<1> QED BY <1>1, <1>2, <1>3, <1>4, <1>5, <1>6, <1>7, <1>8, <1>9, ServerMoves DEF Handler, HandlerFails

\* A handler keeps working on the message its place is for.
LEMMA JobStep ==
  ASSUME PageInv, ServerInv, Sent, [Next]_vars, NEW t \in Sockets
  PROVE  JobOK(t)'
<1> USE DEF JobOK, Handling, Playing
<1>0. HandlerTypes /\ JobOK(t) /\ received \in Nat
  BY DEF ServerInv, CountTypes
<1>g. /\ Len(games) \in Nat /\ Len(games') \in Nat /\ Len(games) <= Len(games')
      /\ \A i \in 1..Len(games) : games'[i] = games[i]
  BY GamesGrow
<1>1. CASE UNCHANGED <<pc, job, found, received>>
  BY <1>0, <1>g, <1>1
<1>2. ASSUME NEW s \in Sockets, Server!Connect(s) \/ Server!Disconnect(s) PROVE JobOK(t)'
  BY <1>0, <1>g, <1>2 DEF Server!Connect, Server!Disconnect, Server!Goto, HandlerTypes
<1>3. ASSUME NEW s \in Sockets, ReadMessage(s) PROVE JobOK(t)'
  <2>1. /\ pc[s] = "reading" /\ received' = received + 1 /\ games' = games /\ found' = found
        /\ \E m \in Server!Message :
              /\ job' = [job EXCEPT ![s] = m] /\ m.n = received + 1 /\ m.by = s
              /\ \/ /\ m.kind = "join" /\ m.user \in Users /\ m.name \in Names
                    /\ pc' = [pc EXCEPT ![s] = "inserting"]
                 \/ /\ m.kind = "game_end" /\ m.user \in Users /\ m.wpm \in 1..Len(games)
                    /\ m.user = games[m.wpm].user.id
                    /\ pc' = [pc EXCEPT ![s] = "saving"]
    BY <1>3, ReadSays
  <2> QED BY <1>0, <2>1 DEF HandlerTypes
<1>4. ASSUME NEW s \in Sockets, Server!CreateGuest(s) \/ Server!CreateMatch(s) PROVE JobOK(t)'
  BY <1>0, <1>g, <1>4 DEF Server!CreateGuest, Server!CreateMatch, Server!Goto, HandlerTypes
<1>5. ASSUME NEW s \in Sockets, Server!GetUser(s) PROVE JobOK(t)'
  BY <1>0, <1>g, <1>5 DEF Server!GetUser, Server!Goto, HandlerTypes, ServerInv, StoreTypes
<1>6. ASSUME NEW s \in Sockets, Server!UpdateLeaderboard(s) \/ Server!Announce(s) PROVE JobOK(t)'
  BY <1>0, <1>g, <1>6 DEF Server!UpdateLeaderboard, Server!Announce, Server!Goto, HandlerTypes
<1>7. ASSUME NEW s \in Sockets, Server!CallFails(s) PROVE JobOK(t)'
  BY <1>0, <1>g, <1>7 DEF Server!CallFails, Server!Calling, Server!Goto, HandlerTypes
<1>8. ASSUME NEW s \in Sockets, Server!RankRetried(s) PROVE JobOK(t)'
  BY <1>0, <1>g, <1>8 DEF Server!RankRetried, Server!session
<1>9. CASE Restart
  BY <1>9 DEF Restart, Server!Restart
<1> QED BY <1>1, <1>2, <1>3, <1>4, <1>5, <1>6, <1>7, <1>8, <1>9, ServerMoves DEF Handler, HandlerFails

\* The games cut short are those of users.
LEMMA CutShortUsers ==
  ASSUME ServerInv, NEW S, S \subseteq Server!Calling, Server!CutShort(S)
  PROVE  torn' \subseteq Users
<1>1. \A t \in S : job[t].user \in Users
  BY DEF Server!Calling, ServerInv, JobOK, Handling, Playing, Server!GuestNameOf
<1>2. \A t \in S : t \in Sockets
  BY DEF Server!Calling
<1> QED BY <1>1, <1>2 DEF Server!CutShort, ServerInv, CountTypes

\* A game is dropped where its handler would have saved it.
LEMMA DropSays ==
  ASSUME PageInv, ServerInv, Sent, [Next]_vars
  PROVE  \/ dropped' = dropped
         \/ \E s \in Sockets, why \in Reason :
              /\ pc[s] = "saving" /\ job[s].wpm \in 1..Len(games)
              /\ job[s].user = games[job[s].wpm].user.id
              /\ dropped' = dropped \union {[game |-> job[s].wpm, why |-> why]}
              /\ why # "failed" => why = WhyRefused(s) /\ faults' = faults
<1>1. ASSUME NEW s \in Sockets, Handler(s), Refuses(s)
      PROVE  /\ pc[s] = "saving"
             /\ dropped' = dropped \union {[game |-> job[s].wpm, why |-> WhyRefused(s)]}
             /\ WhyRefused(s) \in Reason /\ faults' = faults
  <2>1. faults' = faults
    BY <1>1 DEF Handler, Server!CreateGuest, Server!CreateMatch, Server!GetUser,
       Server!UpdateLeaderboard, Server!Announce
  <2> QED BY <1>1, <2>1 DEF Handler, Refuses, Drop, WhyRefused, Reason
<1>2. ASSUME NEW s \in Sockets, Handler(s), ~Refuses(s) PROVE dropped' = dropped
  BY <1>2 DEF Handler
<1>3. ASSUME NEW s \in Sockets, HandlerFails(s), pc[s] = "saving"
      PROVE  dropped' = dropped \union {[game |-> job[s].wpm, why |-> "failed"]} /\ "failed" \in Reason
  BY <1>3 DEF HandlerFails, Drop, Reason
<1>4. ASSUME NEW s \in Sockets, HandlerFails(s), pc[s] # "saving" PROVE dropped' = dropped
  BY <1>4 DEF HandlerFails
<1>5. \A s \in Sockets : pc[s] = "saving" =>
        job[s].wpm \in 1..Len(games) /\ job[s].user = games[job[s].wpm].user.id
  BY DEF ServerInv, JobOK, Playing
<1>6. Restart \/ (\E s \in Sockets : ReadMessage(s)) => dropped' = dropped
  BY DEF Restart, ReadMessage
<1> QED BY <1>1, <1>2, <1>3, <1>4, <1>5, <1>6, ServerMoves

\* Counters keep their bounds and the history its types.
LEMMA CountStep == ASSUME PageInv, ServerInv, Sent, [Next]_vars PROVE CountTypes'
<1> USE DEF CountTypes
<1>0. CountTypes /\ MaxMessages \in Nat /\ MaxFaults \in Nat
  BY Limits DEF ServerInv
<1>1. CASE /\ UNCHANGED <<pc, job, found, received, announced, joins, torn, dropped>>
           /\ faults' = faults \/ (faults < MaxFaults /\ faults' = faults + 1)
  BY <1>0, <1>1
<1>2. ASSUME NEW s \in Sockets, Server!Connect(s) \/ Server!Disconnect(s) PROVE CountTypes'
  BY <1>0, <1>2 DEF Server!Connect, Server!Disconnect, Server!history
<1>3. ASSUME NEW s \in Sockets, ReadMessage(s) PROVE CountTypes'
  <2>1. /\ received < MaxMessages /\ received' = received + 1
        /\ UNCHANGED <<faults, announced, joins, torn>>
    BY <1>3, ReadSays
  <2> QED BY <1>0, <2>1
<1>4. ASSUME NEW s \in Sockets, Server!CreateGuest(s) PROVE CountTypes'
  BY <1>0, <1>4 DEF Server!CreateGuest, ServerInv, JobOK
<1>5. ASSUME NEW s \in Sockets, Server!CreateMatch(s) \/ Server!GetUser(s) PROVE CountTypes'
  BY <1>0, <1>5 DEF Server!CreateMatch, Server!GetUser, Server!history
<1>6. ASSUME NEW s \in Sockets, Server!UpdateLeaderboard(s) PROVE CountTypes'
  BY <1>0, <1>6 DEF Server!UpdateLeaderboard
<1>7. ASSUME NEW s \in Sockets, Server!Announce(s) PROVE CountTypes'
  <2>1. job[s].n \in 1..MaxMessages
    BY <1>0, <1>7 DEF Server!Announce, ServerInv, JobOK, Handling
  <2> QED BY <1>0, <1>7, <2>1 DEF Server!Announce
<1>8. ASSUME NEW s \in Sockets, Server!CallFails(s) PROVE CountTypes'
  <2>1. Server!CutShort({s}) /\ {s} \subseteq Server!Calling
    BY <1>8 DEF Server!CallFails
  <2>2. torn' \subseteq Users
    BY <2>1, CutShortUsers
  <2> QED BY <1>0, <1>8, <2>2 DEF Server!CallFails
<1>9. ASSUME NEW s \in Sockets, Server!RankRetried(s) PROVE CountTypes'
  BY <1>0, <1>9 DEF Server!RankRetried, Server!history
<1>10. CASE Restart
  <2>1. torn' \subseteq Users
    BY <1>10, CutShortUsers DEF Restart, Server!Restart
  <2> QED BY <1>0, <1>10, <2>1 DEF Restart, Server!Restart
<1> QED BY <1>1, <1>2, <1>3, <1>4, <1>5, <1>6, <1>7, <1>8, <1>9, <1>10, ServerMoves
        DEF Handler, HandlerFails

\* The server's invariant is kept by every step.
LEMMA ServerNext == ASSUME PageInv, ServerInv, Sent, [Next]_vars PROVE ServerInv'
<1>1. dropped' \subseteq [game : 1..Len(games'), why : Reason]
  <2>1. /\ Len(games) \in Nat /\ Len(games') \in Nat /\ Len(games) <= Len(games')
    BY GamesGrow
  <2>2. 1..Len(games) \subseteq 1..Len(games')
    BY <2>1
  <2>3. dropped \subseteq [game : 1..Len(games'), why : Reason]
    BY <2>2 DEF ServerInv
  <2>4. ASSUME NEW s \in Sockets, NEW why \in Reason, job[s].wpm \in 1..Len(games)
        PROVE  [game |-> job[s].wpm, why |-> why] \in [game : 1..Len(games'), why : Reason]
    BY <2>2, <2>4
  <2> QED BY <2>3, <2>4, DropSays
<1> QED BY <1>1, StoreStep, HandlerStep, CountStep, JobStep DEF ServerInv

-----------------------------------------------------------------------------
(* The messages on the way.                                                *)

\* A step leaves the messages of a connection, takes the first one, or loses
\* all of them with the connection.
Sheds ==
  \A s \in Sockets :
    \/ up'[s] = up[s]
    \/ up'[s] = <<>> /\ s \in down'
    \/ up[s] # <<>> /\ up'[s] = Tail(up[s]) /\ ReadMessage(s)

\* Only the page puts a message on the way.
LEMMA Shedding ==
  ASSUME PageInv, [Next]_vars
  PROVE  \/ PageStep /\ UNCHANGED <<serverVars, dropped>>
         \/ up' = up
         \/ Sheds
<1>0. up \in [Sockets -> Seq(Wire)]
  BY DEF PageInv, PageTypes
<1>1. ASSUME NEW s \in Sockets, Lost(s) PROVE Sheds
  BY <1>0, <1>1 DEF Lost, Sheds
<1>2. ASSUME NEW s \in Sockets, ReadMessage(s) PROVE Sheds
  BY <1>0, <1>2 DEF ReadMessage, Sheds
<1>3. CASE Restart
  BY <1>0, <1>3 DEF Restart, Sheds
<1>4. ASSUME NEW s \in Sockets, Establish(s) PROVE up' = up
  BY <1>4 DEF Establish, SocketOpen, network
<1>5. ASSUME NEW s \in Sockets, ReadError(s) \/ Handler(s) \/ HandlerFails(s) PROVE up' = up
  BY <1>5 DEF ReadError, Handler, HandlerFails, pageVars, network
<1>6. CASE UNCHANGED vars
  BY <1>6 DEF vars, pageVars, network
<1>7. ASSUME NEW s \in Sockets, Break(s) \/ ReadOversize(s) PROVE Sheds
  BY <1>1, <1>7 DEF Break, ReadOversize
<1> QED BY <1>2, <1>3, <1>4, <1>5, <1>6, <1>7 DEF Next

\* A message is appended by the join effect or by the end of a game.
LEMMA Sending ==
  ASSUME PageInv, PageStep
  PROVE  \/ up' = up
         \/ /\ JoinEffect /\ shown.conn /\ current # 0 /\ shown \in Page
            /\ sock[current] = "open" /\ current \notin down
            /\ up' = [up EXCEPT ![current] = Append(@, JoinLobby)]
         \/ \E o \in BOOLEAN :
              /\ HandleGameComplete(o) /\ current # 0 /\ shown \in Page
              /\ sock[current] = "open" /\ current \notin down
              /\ up' = [up EXCEPT ![current] = Append(@, GameEnd(o))]
<1>1. CASE JoinEffect
  <2>1. current # 0 /\ shown \in Page /\ (IF shown.conn THEN SendMessage(JoinLobby) ELSE UNCHANGED up)
    BY <1>1 DEF JoinEffect, PageInv, PageTypes
  <2> QED BY <1>1, <2>1, WireKinds, SendSays DEF PageInv
<1>2. ASSUME NEW o \in BOOLEAN, HandleGameComplete(o)
      PROVE  \/ up' = up
             \/ /\ current # 0 /\ shown \in Page
                /\ sock[current] = "open" /\ current \notin down
                /\ up' = [up EXCEPT ![current] = Append(@, GameEnd(o))]
  BY <1>2, GameSays, SendSays DEF PageInv
<1> QED BY <1>1, <1>2, PageSteps DEF ClearProfile, Load, Unload, SocketClose, HealthAnswered,
           RenderAll, network

\* Where a message is appended the others stay where they are.
LEMMA Appended ==
  ASSUME PageInv, current # 0, NEW m \in Wire, up' = [up EXCEPT ![current] = Append(@, m)],
         NEW s \in Sockets
  PROVE  /\ Len(up[s]) \in Nat /\ DOMAIN up[s] = 1..Len(up[s]) /\ current \in Sockets
         /\ s # current => up'[s] = up[s]
         /\ s = current =>
              /\ DOMAIN up'[s] = 1..(Len(up[s]) + 1) /\ Len(up'[s]) = Len(up[s]) + 1
              /\ up'[s][Len(up[s]) + 1] = m
              /\ \A i \in 1..Len(up[s]) : up'[s][i] = up[s][i]
<1>1. up \in [Sockets -> Seq(Wire)] /\ up[s] \in Seq(Wire) /\ current \in Sockets
  BY DEF PageInv, PageTypes
<1>2. Len(up[s]) \in Nat /\ DOMAIN up[s] = 1..Len(up[s])
  BY <1>1, LenProperties
<1>3. ASSUME s = current
      PROVE  /\ DOMAIN up'[s] = 1..(Len(up[s]) + 1) /\ Len(up'[s]) = Len(up[s]) + 1
             /\ up'[s][Len(up[s]) + 1] = m
             /\ \A i \in 1..Len(up[s]) : up'[s][i] = up[s][i]
  <2>1. up'[s] = Append(up[s], m)
    BY <1>1, <1>3
  <2>2. /\ Append(up[s], m) \in Seq(Wire) /\ Len(Append(up[s], m)) = Len(up[s]) + 1
        /\ Append(up[s], m)[Len(up[s]) + 1] = m
        /\ \A i \in 1..Len(up[s]) : Append(up[s], m)[i] = up[s][i]
    BY <1>1, AppendProperties
  <2>3. DOMAIN Append(up[s], m) = 1..(Len(up[s]) + 1)
    BY <2>2, LenProperties
  <2> QED BY <2>1, <2>2, <2>3
<1> QED BY <1>1, <1>2, <1>3

\* A message on the way was so before, or is the one that was sent.
LEMMA OnTheWay ==
  ASSUME PageInv, [Next]_vars, NEW s \in Sockets, NEW i \in DOMAIN up'[s]
  PROVE  \/ \E j \in DOMAIN up[s] : up'[s][i] = up[s][j]
         \/ JoinEffect /\ current # 0 /\ shown \in Page /\ up'[s][i] = JoinLobby
         \/ \E o \in BOOLEAN :
              HandleGameComplete(o) /\ current # 0 /\ shown \in Page /\ up'[s][i] = GameEnd(o)
<1>0. up[s] \in Seq(Wire)
  BY DEF PageInv, PageTypes
<1>1. CASE up' = up
  BY <1>1
<1>2. CASE Sheds
  <2>1. CASE up'[s] = <<>>
    BY <2>1
  <2>2. CASE up[s] # <<>> /\ up'[s] = Tail(up[s])
    <3>1. /\ Len(up[s]) \in Nat /\ DOMAIN up[s] = 1..Len(up[s]) /\ i \in 1..(Len(up[s]) - 1)
          /\ up'[s][i] = up[s][i + 1]
      BY <1>0, <2>2, HeadAndTail
    <3>2. i + 1 \in DOMAIN up[s]
      BY <3>1
    <3> QED BY <3>1, <3>2
  <2> QED BY <1>2, <2>1, <2>2 DEF Sheds
<1>3. ASSUME current # 0, NEW m \in Wire, up' = [up EXCEPT ![current] = Append(@, m)]
      PROVE  (\E j \in DOMAIN up[s] : up'[s][i] = up[s][j]) \/ up'[s][i] = m
  <2>1. /\ Len(up[s]) \in Nat /\ DOMAIN up[s] = 1..Len(up[s])
        /\ s # current => up'[s] = up[s]
        /\ s = current =>
             /\ DOMAIN up'[s] = 1..(Len(up[s]) + 1) /\ up'[s][Len(up[s]) + 1] = m
             /\ \A j \in 1..Len(up[s]) : up'[s][j] = up[s][j]
    BY <1>3, Appended
  <2>2. s = current /\ i # Len(up[s]) + 1 => i \in 1..Len(up[s])
    BY <2>1
  <2> QED BY <2>1, <2>2
<1>4. CASE PageStep
  <2>1. CASE JoinEffect /\ current # 0 /\ shown \in Page
               /\ up' = [up EXCEPT ![current] = Append(@, JoinLobby)]
    BY <1>3, <2>1, WireKinds
  <2>2. ASSUME NEW o \in BOOLEAN, HandleGameComplete(o), current # 0, shown \in Page,
               up' = [up EXCEPT ![current] = Append(@, GameEnd(o))]
        PROVE  (\E j \in DOMAIN up[s] : up'[s][i] = up[s][j]) \/ up'[s][i] = GameEnd(o)
    BY <1>3, <2>2, GameSays
  <2> QED BY <1>1, <1>4, <2>1, <2>2, Sending
<1> QED BY <1>1, <1>2, <1>4, Shedding

\* Every result on the way is that of a game played.
LEMMA SentStep == ASSUME PageInv, Sent, [Next]_vars PROVE Sent'
<1>1. /\ Len(games) \in Nat /\ Len(games') \in Nat /\ Len(games) <= Len(games')
      /\ \A i \in 1..Len(games) : games'[i] = games[i]
  BY GamesGrow
<1> SUFFICES ASSUME NEW s \in Sockets, NEW i \in DOMAIN up'[s], up'[s][i].kind = "game_end"
             PROVE  /\ up'[s][i].wpm \in 1..Len(games')
                    /\ up'[s][i].user = games'[up'[s][i].wpm].user.id
  BY DEF Sent
<1>2. ASSUME NEW j \in DOMAIN up[s], up'[s][i] = up[s][j]
      PROVE  /\ up'[s][i].wpm \in 1..Len(games')
             /\ up'[s][i].user = games'[up'[s][i].wpm].user.id
  <2>1. up[s][j].wpm \in 1..Len(games) /\ up[s][j].user = games[up[s][j].wpm].user.id
    BY <1>2 DEF Sent
  <2> QED BY <1>1, <1>2, <2>1
<1>3. up'[s][i] # JoinLobby
  BY DEF JoinLobby
<1>4. ASSUME NEW o \in BOOLEAN, HandleGameComplete(o), up'[s][i] = GameEnd(o)
      PROVE  /\ up'[s][i].wpm \in 1..Len(games')
             /\ up'[s][i].user = games'[up'[s][i].wpm].user.id
  <2>1. /\ Len(games') = Len(games) + 1
        /\ games'[Len(games) + 1] = [user |-> shown.user, page |-> current, joined |-> Joined]
    BY <1>4, GameSays
  <2>2. GameEnd(o).wpm = Len(games) + 1 /\ GameEnd(o).user = shown.user.id
    BY <1>4 DEF GameEnd
  <2> QED BY <1>1, <1>4, <2>1, <2>2
<1> QED BY <1>2, <1>3, <1>4, OnTheWay

\* Nothing is on the way and nothing is stored at first.
LEMMA ServerInitial == Init => ServerInv /\ Sent
<1> SUFFICES ASSUME Init PROVE ServerInv /\ Sent
  OBVIOUS
<1>1. PageInit /\ Server!Init /\ dropped = {}
  BY DEF Init
<1>2. StoreTypes
  <2>1. DOMAIN <<>> = {}
    OBVIOUS
  <2> QED BY <1>1, <2>1, EmptySeq DEF Server!Init, StoreTypes
<1>3. HandlerTypes
  BY <1>1 DEF Server!Init, HandlerTypes, Server!PC
<1>4. CountTypes
  BY <1>1, Limits DEF Server!Init, CountTypes
<1>5. \A s \in Sockets : JobOK(s)
  BY <1>1 DEF Server!Init, JobOK, Handling, Playing
<1>6. Sent
  BY <1>1 DEF PageInit, Sent
<1> QED BY <1>1, <1>2, <1>3, <1>4, <1>5, <1>6 DEF ServerInv

\* The three invariants hold in every behaviour.
LEMMA PlayInvariant == Spec => [](PageInv /\ ServerInv /\ Sent)
<1>1. PageInv /\ ServerInv /\ Sent /\ [Next]_vars => (PageInv /\ ServerInv /\ Sent)'
  BY PageNext, ServerNext, SentStep
<1> QED BY <1>1, PageInitial, ServerInitial, PTL DEF Spec

\* TypeOK: page, network and server are well typed, and what a handler gave
\* up is a game that was played.
THEOREM PlayTypes == Spec => []TypeOK
<1>1. PageInv /\ ServerInv => TypeOK
  <2> SUFFICES ASSUME PageInv, ServerInv PROVE TypeOK
    OBVIOUS
  <2>1. Server!TypeOK
    BY DEF ServerInv, StoreTypes, HandlerTypes, CountTypes, Server!TypeOK, Row
  <2> QED BY <2>1 DEF TypeOK, PageInv, PageTypes, SockState, ServerInv, Reason
<1> QED BY <1>1, PlayInvariant, PTL

-----------------------------------------------------------------------------
(* One name for each profile.                                              *)

\* A name for every id, which those that are still to be drawn may lack.
Namings == [Users -> Names \union {Server!NoName}]

IsNamed(f, id, name) == id \in ids /\ name = f[id]

NamedPage(f) ==
  /\ storage # NoProfile => IsNamed(f, storage.id, storage.username)
  /\ current # 0 => IsNamed(f, shown.user.id, shown.user.username)

NamedGames(f) == \A i \in DOMAIN games : IsNamed(f, games[i].user.id, games[i].user.username)

NamedWire(f) ==
  \A s \in Sockets : \A i \in DOMAIN up[s] :
    up[s][i].kind = "join" => IsNamed(f, up[s][i].user, up[s][i].name)

NamedJob(f, s) == pc[s] = "inserting" => IsNamed(f, job[s].user, job[s].name)

\* Whoever has joined has a row, or another has one under the same name.
NamedJoins(f) ==
  \A u \in joins : u \in ids /\ (u \in DOMAIN users \/ \E v \in DOMAIN users : users[v] = f[u])

Named(f) ==
  /\ NamedPage(f) /\ NamedGames(f) /\ NamedWire(f)
  /\ \A s \in Sockets : NamedJob(f, s)
  /\ NamedJoins(f)

Naming == \E f \in Namings : Named(f)

\* The names g know those of f, whose ids were drawn before.
Knows(g, f) == \A u \in ids : u \in ids' /\ g[u] = f[u]

\* A profile from the storage has its name, and a new one gets it.
LEMMA DrawnNamed ==
  ASSUME PageInv, NEW f \in Namings, NamedPage(f),
         NEW p \in Profile, GetOrCreateProfile(p)
  PROVE  \E g \in Namings :
           /\ Knows(g, f) /\ storage' = p /\ p.id \in ids' /\ p.username = g[p.id]
<1>1. /\ storage' = p /\ ids \subseteq ids' /\ ids \subseteq Users
      /\ \/ storage = p /\ ids' = ids
         \/ storage = NoProfile /\ p.id \notin ids /\ p.id \in ids'
  BY ProfileDrawn DEF PageInv, PageTypes
<1>2. p.id \in Users /\ p.username \in Names
  BY DEF Profile
<1>3. CASE storage = p
  <2>1. p.id \in ids /\ p.username = f[p.id]
    BY <1>3, Marks DEF NamedPage, IsNamed
  <2> QED BY <1>1, <2>1 DEF Knows
<1>4. CASE storage = NoProfile /\ p.id \notin ids /\ p.id \in ids'
  <2> DEFINE g == [f EXCEPT ![p.id] = p.username]
  <2>1. g \in Namings /\ g[p.id] = p.username /\ \A u \in ids : g[u] = f[u]
    BY <1>1, <1>2, <1>4 DEF Namings
  <2> HIDE DEF g
  <2> QED BY <1>1, <1>4, <2>1 DEF Knows
<1> QED BY <1>1, <1>3, <1>4

\* After every step there are names for the page that know the ones before.
LEMMA PageNamed ==
  ASSUME PageInv, NEW f \in Namings, NamedPage(f), [Next]_vars
  PROVE  \E g \in Namings : Knows(g, f) /\ NamedPage(g)'
<1>1. CASE /\ ids' = ids /\ current' = current /\ shown' = shown
           /\ storage' = storage \/ storage' = NoProfile
  BY <1>1 DEF Knows, NamedPage, IsNamed
<1>2. ASSUME NEW p \in Profile, GetOrCreateProfile(p), shown'.user = p
      PROVE  \E g \in Namings : Knows(g, f) /\ NamedPage(g)'
  <2>1. PICK g \in Namings :
           Knows(g, f) /\ storage' = p /\ p.id \in ids' /\ p.username = g[p.id]
    BY <1>2, DrawnNamed
  <2> QED BY <1>2, <2>1 DEF NamedPage, IsNamed
<1>3. CASE Load
  BY <1>2, <1>3, LoadSays
<1>4. CASE Unload
  BY <1>4 DEF Unload, profile, Knows, NamedPage, IsNamed
<1>5. ASSUME current # 0, NEW q \in Seq(Update), RenderAll(q)
      PROVE  \E g \in Namings : Knows(g, f) /\ NamedPage(g)'
  BY <1>2, <1>5, RenderFields DEF PageInv
<1>6. ASSUME NEW o \in BOOLEAN, HandleGameComplete(o)
      PROVE  ids' = ids /\ current' = current /\ shown' = shown /\ storage' = storage
  BY <1>6, GameSays
<1>7. ASSUME NEW s \in Sockets, Establish(s)
      PROVE  ids' = ids /\ current' = current /\ shown' = shown /\ storage' = storage
  BY <1>7 DEF Establish, SocketOpen, profile
<1>8. CASE ClearProfile \/ (\E s \in Sockets : SocketClose(s)) \/ HealthAnswered \/ JoinEffect
  BY <1>1, <1>8 DEF ClearProfile, SocketClose, HealthAnswered, JoinEffect, profile
<1>9. CASE Travels
  BY <1>1, <1>9 DEF Travels, profile
<1>10. CASE PageStep
  BY <1>1, <1>3, <1>4, <1>5, <1>6, <1>8, <1>10, PageSteps
<1> QED BY <1>1, <1>7, <1>9, <1>10, Elsewhere

\* The rows of users stay.
LEMMA UsersGrow ==
  ASSUME ServerInv, [Next]_vars
  PROVE  \A u \in DOMAIN users : u \in DOMAIN users' /\ users'[u] = users[u]
<1>1. ASSUME NEW s \in Sockets, Inserts(s)
      PROVE  \A u \in DOMAIN users : u \in DOMAIN users' /\ users'[u] = users[u]
  <2>1. PICK v \in Users, name \in Names :
          v \notin DOMAIN users /\ users' = Server!Put(users, v, name)
    BY <1>1 DEF Inserts
  <2> QED BY <2>1 DEF Server!Put
<1>2. ASSUME NEW s \in Sockets, Saves(s) \/ Ranks(s) PROVE users' = users
  BY <1>2 DEF Saves, Ranks
<1>3. CASE UNCHANGED <<users, matches, board>>
  BY <1>3
<1> QED BY <1>1, <1>2, <1>3, Effects DEF Effect

\* A finished game bears the name that its page shows.
LEMMA GamesNamed ==
  ASSUME PageInv, [Next]_vars, NEW f, NEW g, NamedPage(f), NamedGames(f), Knows(g, f)
  PROVE  NamedGames(g)'
<1>1. \A i \in DOMAIN games : games[i].user.id \in ids' /\ games[i].user.username = g[games[i].user.id]
  BY DEF NamedGames, IsNamed, Knows
<1>2. CASE games' = games
  BY <1>1, <1>2 DEF NamedGames, IsNamed
<1>3. ASSUME NEW o \in BOOLEAN, HandleGameComplete(o) PROVE NamedGames(g)'
  <2>1. /\ current # 0 /\ Len(games) \in Nat /\ Len(games') = Len(games) + 1 /\ games' \in Seq(Game)
        /\ games'[Len(games) + 1] = [user |-> shown.user, page |-> current, joined |-> Joined]
        /\ \A i \in 1..Len(games) : games'[i] = games[i]
    BY <1>3, GameSays
  <2>2. games'[Len(games) + 1].user = shown.user
    BY <2>1
  <2>3. shown.user.id \in ids' /\ shown.user.username = g[shown.user.id]
    BY <2>1 DEF NamedPage, IsNamed, Knows
  <2>4. DOMAIN games' = 1..(Len(games) + 1) /\ DOMAIN games = 1..Len(games)
    BY <2>1, LenProperties DEF PageInv, PageTypes
  <2>5. \A i \in DOMAIN games' : i = Len(games) + 1 \/ (i \in DOMAIN games /\ games'[i] = games[i])
    BY <2>1, <2>4
  <2> QED BY <1>1, <2>2, <2>3, <2>5 DEF NamedGames, IsNamed
<1>4. games' # games => PageStep
  BY GamesGrow
<1>5. CASE PageStep
  BY <1>2, <1>3, <1>5, PageSteps DEF ClearProfile, Load, Unload, SocketClose, HealthAnswered,
     RenderAll, JoinEffect
<1> QED BY <1>2, <1>4, <1>5

\* A join on the way bears the name of the page that sent it.
LEMMA WireNamed ==
  ASSUME PageInv, [Next]_vars, NEW f, NEW g, NamedPage(f), NamedWire(f), Knows(g, f)
  PROVE  NamedWire(g)'
<1> SUFFICES ASSUME NEW s \in Sockets, NEW i \in DOMAIN up'[s], up'[s][i].kind = "join"
             PROVE  up'[s][i].user \in ids' /\ up'[s][i].name = g[up'[s][i].user]
  BY DEF NamedWire, IsNamed
<1>1. ASSUME NEW j \in DOMAIN up[s], up'[s][i] = up[s][j]
      PROVE  up'[s][i].user \in ids' /\ up'[s][i].name = g[up'[s][i].user]
  BY <1>1 DEF NamedWire, IsNamed, Knows
<1>2. ASSUME current # 0, up'[s][i] = JoinLobby
      PROVE  up'[s][i].user \in ids' /\ up'[s][i].name = g[up'[s][i].user]
  <2>1. shown.user.id \in ids' /\ shown.user.username = g[shown.user.id]
    BY <1>2 DEF NamedPage, IsNamed, Knows
  <2> QED BY <1>2, <2>1 DEF JoinLobby
<1>3. \A o \in BOOLEAN : up'[s][i] # GameEnd(o)
  BY DEF GameEnd
<1> QED BY <1>1, <1>2, <1>3, OnTheWay

\* A handler starts with the message just read, and stays on it.
LEMMA AtWork ==
  ASSUME ServerInv, [Next]_vars, NEW s \in Sockets, pc'[s] \in {"inserting", "saving"}
  PROVE  (pc'[s] = pc[s] /\ job'[s] = job[s]) \/ ReadMessage(s)
<1>0. HandlerTypes
  BY DEF ServerInv
<1>1. CASE UNCHANGED <<pc, job, found, received>>
  BY <1>1
<1>2. ASSUME NEW t \in Sockets, Server!Connect(t) \/ Server!Disconnect(t)
      PROVE  pc'[s] = pc[s] /\ job'[s] = job[s]
  BY <1>0, <1>2 DEF Server!Connect, Server!Disconnect, Server!Goto, HandlerTypes
<1>3. ASSUME NEW t \in Sockets, ReadMessage(t), t # s
      PROVE  pc'[s] = pc[s] /\ job'[s] = job[s]
  <2>1. \E m : \/ Server!Receive(t, m) /\ m.kind = "join"
               \/ Server!Receive(t, m) /\ m.kind = "game_end"
    BY <1>3 DEF ReadMessage
  <2> QED BY <1>0, <1>3, <2>1 DEF Server!Receive, Server!Goto, HandlerTypes
<1>4. ASSUME NEW t \in Sockets, Server!CreateGuest(t) \/ Server!CreateMatch(t) \/ Server!GetUser(t)
      PROVE  pc'[s] = pc[s] /\ job'[s] = job[s]
  BY <1>0, <1>4 DEF Server!CreateGuest, Server!CreateMatch, Server!GetUser, Server!Goto, HandlerTypes
<1>5. ASSUME NEW t \in Sockets, Server!UpdateLeaderboard(t) \/ Server!Announce(t)
      PROVE  pc'[s] = pc[s] /\ job'[s] = job[s]
  BY <1>0, <1>5 DEF Server!UpdateLeaderboard, Server!Announce, Server!Goto, HandlerTypes
<1>6. ASSUME NEW t \in Sockets, Server!CallFails(t) \/ Server!RankRetried(t)
      PROVE  pc'[s] = pc[s] /\ job'[s] = job[s]
  BY <1>0, <1>6 DEF Server!CallFails, Server!RankRetried, Server!session, Server!Goto, HandlerTypes
<1>7. ~Restart
  BY DEF Restart, Server!Restart
<1> QED BY <1>1, <1>2, <1>3, <1>4, <1>5, <1>6, <1>7, ServerMoves DEF Handler, HandlerFails

\* A guest is inserted under the name of the profile that joined.
LEMMA JobNamed ==
  ASSUME PageInv, ServerInv, Sent, [Next]_vars, NEW f, NEW g,
         NamedWire(f), NEW s \in Sockets, NamedJob(f, s), Knows(g, f)
  PROVE  NamedJob(g, s)'
<1> SUFFICES ASSUME pc'[s] = "inserting"
             PROVE  job'[s].user \in ids' /\ job'[s].name = g[job'[s].user]
  BY DEF NamedJob, IsNamed
<1>1. CASE pc'[s] = pc[s] /\ job'[s] = job[s]
  BY <1>1 DEF NamedJob, IsNamed, Knows
<1>2. CASE ReadMessage(s)
  <2>1. /\ up[s] \in Seq(Wire) /\ up[s] # <<>> /\ pc[s] = "reading"
        /\ \E m \in Server!Message :
             /\ job' = [job EXCEPT ![s] = m]
             /\ \/ /\ Head(up[s]).kind = "join"
                   /\ m.user = Head(up[s]).user /\ m.name = Head(up[s]).name
                \/ pc' = [pc EXCEPT ![s] = "saving"]
    BY <1>2, ReadSays
  <2>2. 1 \in DOMAIN up[s] /\ Head(up[s]) = up[s][1]
    BY <2>1, HeadAndTail
  <2>3. Head(up[s]).kind = "join" =>
          Head(up[s]).user \in ids' /\ Head(up[s]).name = g[Head(up[s]).user]
    BY <2>2 DEF NamedWire, IsNamed, Knows
  <2>4. pc \in [Sockets -> Server!PC] /\ job \in [Sockets -> Server!Message \union {Server!Idle}]
    BY DEF ServerInv, HandlerTypes
  <2> QED BY <2>1, <2>3, <2>4
<1> QED BY <1>1, <1>2, AtWork

\* Only a guest's insertion counts as a join.
LEMMA JoinsGrow ==
  ASSUME [Next]_vars
  PROVE  joins' = joins
         \/ \E s \in Sockets : Server!CreateGuest(s) /\ joins' = joins \union {job[s].user}
<1>1. ASSUME NEW s \in Sockets, Handler(s), ~Server!CreateGuest(s) PROVE joins' = joins
  BY <1>1 DEF Handler, Server!CreateMatch, Server!GetUser, Server!UpdateLeaderboard, Server!Announce,
     Server!history
<1>2. ASSUME NEW s \in Sockets, HandlerFails(s) PROVE joins' = joins
  BY <1>2 DEF HandlerFails, Server!CallFails, Server!RankRetried, Server!history
<1>3. ASSUME NEW s \in Sockets, Server!CreateGuest(s) PROVE joins' = joins \union {job[s].user}
  BY <1>3 DEF Server!CreateGuest
<1>4. ASSUME NEW s \in Sockets, Server!Connect(s) \/ Server!Disconnect(s) \/ ReadMessage(s)
      PROVE  joins' = joins
  BY <1>4 DEF Server!Connect, Server!Disconnect, ReadMessage, Server!Receive, Server!history
<1>5. Restart => joins' = joins
  BY DEF Restart, Server!Restart
<1> QED BY <1>1, <1>2, <1>3, <1>4, <1>5, ServerMoves

\* Whoever joins has a row then, or finds the name taken.
LEMMA JoinsNamed ==
  ASSUME PageInv, ServerInv, [Next]_vars, NEW f, NEW g, \A s \in Sockets : NamedJob(f, s),
         NamedJoins(f), Knows(g, f)
  PROVE  NamedJoins(g)'
<1>0. \A u \in DOMAIN users : u \in DOMAIN users' /\ users'[u] = users[u]
  BY UsersGrow
<1>1. \A u \in joins :
        u \in ids' /\ (u \in DOMAIN users' \/ \E v \in DOMAIN users' : users'[v] = g[u])
  BY <1>0 DEF NamedJoins, Knows
<1>2. ASSUME NEW s \in Sockets, Server!CreateGuest(s)
      PROVE  /\ job[s].user \in ids'
             /\ \/ job[s].user \in DOMAIN users'
                \/ \E v \in DOMAIN users' : users'[v] = g[job[s].user]
  <2>1. /\ pc[s] = "inserting" /\ UNCHANGED <<matches, board>>
        /\ Server!InsertUser(job[s].user, Server!GuestNameOf(job[s]))
    BY <1>2 DEF Server!CreateGuest
  <2>2. job[s].user \in ids' /\ job[s].name = g[job[s].user]
    BY <2>1 DEF NamedJob, IsNamed, Knows
  <2>3. \/ users' = users
           /\ \/ job[s].user \in DOMAIN users
              \/ \E v \in DOMAIN users : users[v] = job[s].name
        \/ users' = Server!Put(users, job[s].user, job[s].name)
    BY <2>1, InsertSays
  <2>4. job[s].user \in DOMAIN Server!Put(users, job[s].user, job[s].name)
    BY DEF Server!Put
  <2> QED BY <2>2, <2>3, <2>4
<1> QED BY <1>1, <1>2, JoinsGrow DEF NamedJoins

\* Naming is inductive: the names of the next state know those of this one.
LEMMA NamingStep == ASSUME PageInv, ServerInv, Sent, Naming, [Next]_vars PROVE Naming'
<1>1. PICK f \in Namings : Named(f)
  BY DEF Naming
<1>2. PICK g \in Namings : Knows(g, f) /\ NamedPage(g)'
  BY <1>1, PageNamed DEF Named
<1>3. NamedGames(g)' /\ NamedWire(g)'
  BY <1>1, <1>2, GamesNamed, WireNamed DEF Named
<1>4. \A s \in Sockets : NamedJob(g, s)'
  BY <1>1, <1>2, JobNamed DEF Named
<1>5. NamedJoins(g)'
  BY <1>1, <1>2, JoinsNamed DEF Named
<1>6. Named(g)'
  BY <1>2, <1>3, <1>4, <1>5 DEF Named
<1> QED BY <1>6 DEF Naming

-----------------------------------------------------------------------------
(* Joins come before results.                                              *)

\* User u has joined, is joining, or the join is among the first n messages
\* of connection s.
AtServer(s, u) == u \in joins \/ (pc[s] = "inserting" /\ job[s].user = u)
Ahead(s, u, n) ==
  AtServer(s, u) \/ \E j \in 1..n : up[s][j].kind = "join" /\ up[s][j].user = u

\* A page that has run the join effect, on a connection that still delivers.
Settled == current # 0 /\ Joined /\ current \notin down

JoinsFirst ==
  /\ Settled => Ahead(current, shown.user.id, Len(up[current]))
  /\ \A s \in Sockets : \A i \in DOMAIN up[s] :
       up[s][i].kind = "game_end" /\ games[up[s][i].wpm].joined => Ahead(s, up[s][i].user, i - 1)
  /\ \A s \in Sockets :
       pc[s] = "saving" /\ games[job[s].wpm].joined => job[s].user \in joins

Joining == faults = 0 => JoinsFirst

\* Faults are only added.
LEMMA FaultsGrow ==
  ASSUME ServerInv, [Next]_vars
  PROVE  faults \in Nat /\ faults' \in Nat /\ faults <= faults'
<1>1. faults \in Nat
  BY Limits DEF ServerInv, CountTypes
<1>2. ASSUME NEW s \in Sockets, Handler(s) PROVE faults' = faults
  BY <1>2 DEF Handler, Server!CreateGuest, Server!CreateMatch, Server!GetUser,
     Server!UpdateLeaderboard, Server!Announce
<1>3. ASSUME NEW s \in Sockets, HandlerFails(s) PROVE faults' = faults + 1
  BY <1>3 DEF HandlerFails, Server!CallFails, Server!RankRetried
<1>4. ASSUME NEW s \in Sockets, Server!Connect(s) \/ Server!Disconnect(s) \/ ReadMessage(s)
      PROVE  faults' = faults
  BY <1>4 DEF Server!Connect, Server!Disconnect, ReadMessage, Server!Receive
<1>5. Restart => faults' = faults + 1
  BY DEF Restart, Server!Restart
<1> QED BY <1>1, <1>2, <1>3, <1>4, <1>5, ServerMoves

\* Without a fault a handler that inserts a guest goes on to count the join.
LEMMA AtServerStays ==
  ASSUME ServerInv, [Next]_vars, faults' = 0, NEW s \in Sockets, NEW u, AtServer(s, u)
  PROVE  AtServer(s, u)'
<1>0. HandlerTypes /\ faults \in Nat
  BY FaultsGrow DEF ServerInv
<1>1. u \in joins => u \in joins'
  BY JoinsGrow
<1> SUFFICES ASSUME pc[s] = "inserting", job[s].user = u
             PROVE  u \in joins' \/ (pc'[s] = "inserting" /\ job'[s] = job[s])
  BY <1>1 DEF AtServer
<1>2. ASSUME NEW t \in Sockets, Server!Connect(t) \/ Server!Disconnect(t)
      PROVE  pc'[s] = pc[s] /\ job'[s] = job[s]
  BY <1>0, <1>2 DEF Server!Connect, Server!Disconnect, Server!Goto, HandlerTypes
<1>3. ASSUME NEW t \in Sockets, ReadMessage(t)
      PROVE  pc'[s] = pc[s] /\ job'[s] = job[s]
  <2>1. \E m : \/ Server!Receive(t, m) /\ m.kind = "join"
               \/ Server!Receive(t, m) /\ m.kind = "game_end"
    BY <1>3 DEF ReadMessage
  <2> QED BY <1>0, <2>1 DEF Server!Receive, Server!Goto, HandlerTypes
<1>4. ASSUME NEW t \in Sockets, Server!CreateGuest(t)
      PROVE  u \in joins' \/ (pc'[s] = "inserting" /\ job'[s] = job[s])
  BY <1>0, <1>4 DEF Server!CreateGuest, Server!Goto, HandlerTypes
<1>5. ASSUME NEW t \in Sockets, \/ Server!CreateMatch(t) \/ Server!GetUser(t)
                                \/ Server!UpdateLeaderboard(t) \/ Server!Announce(t)
      PROVE  pc'[s] = pc[s] /\ job'[s] = job[s]
  BY <1>0, <1>5 DEF Server!CreateMatch, Server!GetUser, Server!UpdateLeaderboard, Server!Announce,
     Server!Goto, HandlerTypes
<1>6. ASSUME NEW t \in Sockets, HandlerFails(t) PROVE faults' = faults + 1
  BY <1>6 DEF HandlerFails, Server!CallFails, Server!RankRetried
<1>7. Restart => faults' = faults + 1
  BY DEF Restart, Server!Restart
<1>8. faults + 1 # 0
  BY <1>0
<1> QED BY <1>2, <1>3, <1>4, <1>5, <1>6, <1>7, <1>8, ServerMoves DEF Handler

\* What is ahead stays ahead of a place that the step leaves alone,
LEMMA AheadStays ==
  ASSUME ServerInv, [Next]_vars, faults' = 0, NEW s \in Sockets, NEW u, NEW n \in Nat, NEW k \in Nat,
         n <= k, \A j \in 1..n : up'[s][j] = up[s][j], Ahead(s, u, n)
  PROVE  Ahead(s, u, k)'
<1>1. AtServer(s, u) => AtServer(s, u)'
  BY AtServerStays
<1>2. 1..n \subseteq 1..k
  OBVIOUS
<1> QED BY <1>1, <1>2 DEF Ahead

\* and of one that moves up as the first message is read.
LEMMA AheadRead ==
  ASSUME PageInv, ServerInv, Sent, [Next]_vars, faults' = 0, NEW s \in Sockets, NEW u,
         NEW n \in Nat, n < Len(up[s]), Ahead(s, u, n + 1), ReadMessage(s)
  PROVE  Ahead(s, u, n)'
<1>1. AtServer(s, u) => AtServer(s, u)'
  BY AtServerStays
<1>2. /\ up[s] \in Seq(Wire) /\ up[s] # <<>> /\ up' = [up EXCEPT ![s] = Tail(@)]
      /\ \E m \in Server!Message :
           /\ job' = [job EXCEPT ![s] = m]
           /\ Head(up[s]).kind = "join" =>
                m.user = Head(up[s]).user /\ pc' = [pc EXCEPT ![s] = "inserting"]
  BY ReadSays
<1>3. /\ Head(up[s]) = up[s][1] /\ Len(up[s]) \in Nat
      /\ \A i \in 1..(Len(up[s]) - 1) : Tail(up[s])[i] = up[s][i + 1]
  BY <1>2, HeadAndTail
<1>4. up'[s] = Tail(up[s])
  BY <1>2 DEF PageInv, PageTypes
<1>5. pc \in [Sockets -> Server!PC] /\ job \in [Sockets -> Server!Message \union {Server!Idle}]
  BY DEF ServerInv, HandlerTypes
<1>6. up[s][1].kind = "join" /\ up[s][1].user = u => AtServer(s, u)'
  BY <1>2, <1>3, <1>5 DEF AtServer
<1>7. ASSUME NEW j \in 1..(n + 1), j # 1
      PROVE  j - 1 \in 1..n /\ up'[s][j - 1] = up[s][j]
  <2>1. j - 1 \in 1..n /\ j - 1 \in 1..(Len(up[s]) - 1) /\ (j - 1) + 1 = j
    BY <1>3, <1>7
  <2> QED BY <1>3, <1>4, <2>1
<1> QED BY <1>1, <1>6, <1>7 DEF Ahead

\* A settled page has just run its join effect, or was settled before, with
\* the same connection and the same user.
LEMMA SettledBefore ==
  ASSUME PageInv, [Next]_vars, Settled'
  PROVE  \/ /\ JoinEffect /\ current' = current /\ shown' = shown /\ current # 0 /\ shown \in Page
            /\ up' = [up EXCEPT ![current] = Append(@, JoinLobby)]
         \/ Settled /\ current' = current /\ shown'.user = shown.user /\ ~JoinEffect
<1> USE DEF Settled, Joined
<1>0. sock \in [Sockets -> SockState] /\ current \in {0} \union Sockets
  BY DEF PageInv, PageTypes
<1>1. CASE JoinEffect
  <2>1. /\ current' = current /\ shown' = shown /\ sock' = sock /\ down' = down
        /\ (IF shown.conn THEN SendMessage(JoinLobby) ELSE UNCHANGED up)
    BY <1>1 DEF JoinEffect
  <2>2. current # 0 /\ shown \in Page /\ shown.conn /\ sock[current] = "open" /\ current \notin down
    BY <2>1 DEF PageInv, PageTypes
  <2> QED BY <1>1, <2>1, <2>2 DEF SendMessage
<1>2. ~Load
  <2>1. Load => shown'.conn = FALSE
    BY LoadSays
  <2> QED BY <2>1
<1>3. ~Unload
  BY DEF Unload
<1>4. ASSUME ClearProfile \/ HealthAnswered
      PROVE  Settled /\ current' = current /\ shown'.user = shown.user
  <2>1. current' = current /\ shown' = shown /\ sock' = sock /\ due' = due /\ down' = down
    BY <1>4 DEF ClearProfile, HealthAnswered, network
  <2> QED BY <2>1
<1>5. ASSUME NEW s \in Sockets, SocketClose(s)
      PROVE  Settled /\ current' = current /\ shown'.user = shown.user /\ ~JoinEffect
  BY <1>0, <1>5 DEF SocketClose, network, JoinEffect
<1>6. ASSUME current # 0, NEW q \in Seq(Update), RenderAll(q)
      PROVE  Settled /\ current' = current /\ shown'.user = shown.user /\ ~JoinEffect
  <2>1. /\ ~due /\ due' = JoinDeps(shown') /\ current' = current /\ sock' = sock /\ down' = down
    BY <1>6 DEF RenderAll, network
  <2>2. shown'.conn = shown.conn /\ shown'.user = shown.user
    BY <2>1 DEF JoinDeps
  <2> QED BY <1>6, <2>1, <2>2 DEF JoinEffect
<1>7. ASSUME NEW o \in BOOLEAN, HandleGameComplete(o), ~JoinEffect
      PROVE  Settled /\ current' = current /\ shown'.user = shown.user
  BY <1>7, GameSays
<1>8. CASE PageStep
  BY <1>1, <1>2, <1>3, <1>4, <1>5, <1>6, <1>7, <1>8, PageSteps
<1>9. ASSUME NEW s \in Sockets, Establish(s) PROVE FALSE
  <2>1. SocketOpen(s) /\ sock[s] = "connecting" /\ current' = current /\ shown' = shown
    BY <1>9 DEF Establish, SocketOpen
  <2>2. s # 0 /\ s = current
    BY <2>1 DEF PageInv, SocketsOK, Sockets
  <2> QED BY <2>1, <2>2 DEF PageInv, ConnOK
<1>10. CASE Travels
  <2>1. current' = current /\ shown' = shown /\ sock' = sock /\ due' = due /\ down \subseteq down'
    BY <1>10 DEF Travels
  <2> QED BY <1>1, <2>1
<1> QED BY <1>8, <1>9, <1>10, Elsewhere

\* A place among the messages, which may be the one after the last.
LEMMA AheadMoves ==
  ASSUME PageInv, ServerInv, Sent, [Next]_vars, faults' = 0, NEW s \in Sockets, NEW u,
         NEW n \in Nat, NEW m \in Nat,
         \/ m <= n /\ \A j \in 1..m : up'[s][j] = up[s][j]
         \/ m = n + 1 /\ m <= Len(up[s]) /\ ReadMessage(s),
         Ahead(s, u, m)
  PROVE  Ahead(s, u, n)'
<1>0. Len(up[s]) \in Nat
  BY LenProperties DEF PageInv, PageTypes
<1>1. CASE m <= n /\ \A j \in 1..m : up'[s][j] = up[s][j]
  BY <1>1, AheadStays
<1>2. CASE m = n + 1 /\ m <= Len(up[s]) /\ ReadMessage(s)
  <2>1. n < Len(up[s])
    BY <1>0, <1>2
  <2> QED BY <1>2, <2>1, AheadRead
<1> QED BY <1>1, <1>2

\* A message keeps its place, moves up by one, or has just been sent.
LEMMA Places ==
  ASSUME PageInv, [Next]_vars, NEW s \in Sockets, NEW i \in DOMAIN up'[s]
  PROVE  /\ i \in Nat /\ i - 1 \in Nat
         /\ \/ /\ i \in DOMAIN up[s] /\ up'[s][i] = up[s][i]
               /\ \A j \in 1..(i - 1) : up'[s][j] = up[s][j]
            \/ i + 1 \in DOMAIN up[s] /\ i + 1 <= Len(up[s]) /\ up'[s][i] = up[s][i + 1] /\ ReadMessage(s)
            \/ JoinEffect /\ up'[s][i] = JoinLobby
            \/ \E o \in BOOLEAN :
                 /\ HandleGameComplete(o) /\ up'[s][i] = GameEnd(o) /\ s = current
                 /\ sock[current] = "open" /\ current \notin down
                 /\ i = Len(up[s]) + 1
                 /\ \A j \in 1..Len(up[s]) : up'[s][j] = up[s][j]
<1>0. up[s] \in Seq(Wire) /\ Len(up[s]) \in Nat /\ DOMAIN up[s] = 1..Len(up[s])
  BY LenProperties DEF PageInv, PageTypes
<1>1. CASE up'[s] = up[s]
  BY <1>0, <1>1
<1>2. CASE Sheds
  <2>1. up'[s] # <<>>
    OBVIOUS
  <2>2. CASE up[s] # <<>> /\ up'[s] = Tail(up[s]) /\ ReadMessage(s)
    <3>1. i \in 1..(Len(up[s]) - 1) /\ up'[s][i] = up[s][i + 1]
      BY <1>0, <2>2, HeadAndTail
    <3> QED BY <1>0, <2>2, <3>1
  <2> QED BY <1>1, <1>2, <2>1, <2>2 DEF Sheds
<1>3. ASSUME current # 0, NEW m \in Wire, up' = [up EXCEPT ![current] = Append(@, m)]
      PROVE  /\ i \in Nat /\ i - 1 \in Nat
             /\ \/ /\ i \in DOMAIN up[s] /\ up'[s][i] = up[s][i]
                   /\ \A j \in 1..(i - 1) : up'[s][j] = up[s][j]
                \/ /\ s = current /\ up'[s][i] = m /\ i = Len(up[s]) + 1
                   /\ \A j \in 1..Len(up[s]) : up'[s][j] = up[s][j]
  <2>1. /\ s # current => up'[s] = up[s]
        /\ s = current =>
             /\ DOMAIN up'[s] = 1..(Len(up[s]) + 1) /\ up'[s][Len(up[s]) + 1] = m
             /\ \A j \in 1..Len(up[s]) : up'[s][j] = up[s][j]
    BY <1>3, Appended
  <2>2. CASE s = current /\ i # Len(up[s]) + 1
    <3>1. i \in 1..Len(up[s]) /\ 1..(i - 1) \subseteq 1..Len(up[s])
      BY <1>0, <2>1, <2>2
    <3> QED BY <1>0, <2>1, <2>2, <3>1
  <2>3. CASE s = current /\ i = Len(up[s]) + 1
    BY <1>0, <2>1, <2>3
  <2> QED BY <1>0, <1>1, <2>1, <2>2, <2>3
<1>4. CASE PageStep
  <2>1. CASE JoinEffect /\ current # 0 /\ shown \in Page
               /\ up' = [up EXCEPT ![current] = Append(@, JoinLobby)]
    <3>1. JoinLobby \in Wire
      BY <2>1, WireKinds
    <3> QED BY <1>3, <2>1, <3>1
  <2>2. ASSUME NEW o \in BOOLEAN, HandleGameComplete(o), current # 0,
               sock[current] = "open", current \notin down,
               up' = [up EXCEPT ![current] = Append(@, GameEnd(o))]
        PROVE  /\ i \in Nat /\ i - 1 \in Nat
               /\ \/ /\ i \in DOMAIN up[s] /\ up'[s][i] = up[s][i]
                     /\ \A j \in 1..(i - 1) : up'[s][j] = up[s][j]
                  \/ /\ s = current /\ up'[s][i] = GameEnd(o) /\ i = Len(up[s]) + 1
                     /\ \A j \in 1..Len(up[s]) : up'[s][j] = up[s][j]
    <3>1. GameEnd(o) \in Wire
      BY <2>2, GameSays
    <3> QED BY <1>3, <2>2, <3>1
  <2>3. up' = up => up'[s] = up[s]
    OBVIOUS
  <2> QED BY <1>1, <1>4, <2>1, <2>2, <2>3, Sending
<1>5. up' = up => up'[s] = up[s]
  OBVIOUS
<1> QED BY <1>1, <1>2, <1>4, <1>5, Shedding

\* The place after the last message moves with the messages, too.
LEMMA LastPlace ==
  ASSUME PageInv, [Next]_vars, NEW s \in Sockets, s \notin down'
  PROVE  /\ Len(up[s]) \in Nat /\ Len(up'[s]) \in Nat
         /\ \/ Len(up[s]) <= Len(up'[s]) /\ \A j \in 1..Len(up[s]) : up'[s][j] = up[s][j]
            \/ Len(up[s]) = Len(up'[s]) + 1 /\ ReadMessage(s)
<1>0. up[s] \in Seq(Wire) /\ Len(up[s]) \in Nat
  BY LenProperties DEF PageInv, PageTypes
<1>1. CASE up'[s] = up[s]
  BY <1>0, <1>1
<1>2. CASE Sheds
  <2>1. CASE up[s] # <<>> /\ up'[s] = Tail(up[s]) /\ ReadMessage(s)
    <3>1. Len(Tail(up[s])) = Len(up[s]) - 1 /\ Len(up[s]) >= 1
      BY <1>0, <2>1, HeadAndTail
    <3> QED BY <1>0, <2>1, <3>1
  <2> QED BY <1>1, <1>2, <2>1 DEF Sheds
<1>3. ASSUME current # 0, NEW m \in Wire, up' = [up EXCEPT ![current] = Append(@, m)]
      PROVE  /\ Len(up'[s]) \in Nat /\ Len(up[s]) <= Len(up'[s])
             /\ \A j \in 1..Len(up[s]) : up'[s][j] = up[s][j]
  <2>1. /\ s # current => up'[s] = up[s]
        /\ s = current =>
             Len(up'[s]) = Len(up[s]) + 1 /\ \A j \in 1..Len(up[s]) : up'[s][j] = up[s][j]
    BY <1>3, Appended
  <2> QED BY <1>0, <2>1
<1>4. CASE PageStep
  <2>1. CASE JoinEffect /\ current # 0 /\ shown \in Page
               /\ up' = [up EXCEPT ![current] = Append(@, JoinLobby)]
    <3>1. JoinLobby \in Wire
      BY <2>1, WireKinds
    <3> QED BY <1>0, <1>3, <2>1, <3>1
  <2>2. ASSUME NEW o \in BOOLEAN, HandleGameComplete(o), current # 0,
               up' = [up EXCEPT ![current] = Append(@, GameEnd(o))]
        PROVE  /\ Len(up'[s]) \in Nat /\ Len(up[s]) <= Len(up'[s])
               /\ \A j \in 1..Len(up[s]) : up'[s][j] = up[s][j]
    BY <1>3, <2>2, GameSays
  <2>3. up' = up => up'[s] = up[s]
    OBVIOUS
  <2> QED BY <1>0, <1>1, <1>4, <2>1, <2>2, <2>3, Sending
<1>5. up' = up => up'[s] = up[s]
  OBVIOUS
<1> QED BY <1>1, <1>2, <1>4, <1>5, Shedding

\* A settled page has its join ahead of what it will send.
LEMMA SettledStep ==
  ASSUME PageInv, ServerInv, Sent, [Next]_vars, JoinsFirst, faults' = 0, Settled'
  PROVE  Ahead(current, shown.user.id, Len(up[current]))'
<1>1. CASE /\ JoinEffect /\ current' = current /\ shown' = shown /\ current # 0 /\ shown \in Page
           /\ up' = [up EXCEPT ![current] = Append(@, JoinLobby)]
  <2>1. JoinLobby \in Wire /\ current \in Sockets
    BY <1>1, WireKinds DEF PageInv, PageTypes
  <2>2. /\ Len(up[current]) \in Nat /\ Len(up'[current]) = Len(up[current]) + 1
        /\ up'[current][Len(up[current]) + 1] = JoinLobby
    BY <1>1, <2>1, Appended
  <2>3. JoinLobby.kind = "join" /\ JoinLobby.user = shown.user.id
    BY DEF JoinLobby
  <2>4. Len(up[current]) + 1 \in 1..Len(up'[current])
    BY <2>2
  <2> QED BY <1>1, <2>2, <2>3, <2>4 DEF Ahead
<1>2. CASE Settled /\ current' = current /\ shown'.user = shown.user
  <2>1. current \in Sockets /\ current \notin down'
    BY <1>2 DEF Settled, PageInv, PageTypes
  <2>2. Ahead(current, shown.user.id, Len(up[current]))
    BY <1>2 DEF JoinsFirst
  <2>3. /\ Len(up[current]) \in Nat /\ Len(up'[current]) \in Nat
        /\ \/ /\ Len(up[current]) <= Len(up'[current])
              /\ \A j \in 1..Len(up[current]) : up'[current][j] = up[current][j]
           \/ Len(up[current]) = Len(up'[current]) + 1 /\ ReadMessage(current)
    BY <2>1, LastPlace
  <2>4. ASSUME NEW s, s = current', NEW u, u = shown'.user.id, NEW n, n = Len(up'[current'])
        PROVE  Ahead(s, u, n)'
    <3> DEFINE m == Len(up[current])
    <3>1. /\ s \in Sockets /\ n \in Nat /\ m \in Nat /\ Ahead(s, u, m)
          /\ \/ m <= n /\ \A j \in 1..m : up'[s][j] = up[s][j]
             \/ m = n + 1 /\ m <= Len(up[s]) /\ ReadMessage(s)
      BY <1>2, <2>1, <2>2, <2>3, <2>4
    <3> HIDE DEF m
    <3> QED BY <3>1, AheadMoves
  <2>5. PICK s : s = current'
    OBVIOUS
  <2>6. PICK u : u = shown'.user.id
    OBVIOUS
  <2>7. PICK n : n = Len(up'[current'])
    OBVIOUS
  <2>8. Ahead(s, u, n)'
    BY <2>4, <2>5, <2>6, <2>7
  <2> QED BY <2>5, <2>6, <2>7, <2>8 DEF Ahead, AtServer
<1> QED BY <1>1, <1>2, SettledBefore

\* A result of a settled page is behind its join.
LEMMA WireStep ==
  ASSUME PageInv, ServerInv, Sent, [Next]_vars, JoinsFirst, faults' = 0,
         NEW s \in Sockets, NEW i \in DOMAIN up'[s], up'[s][i].kind = "game_end",
         games'[up'[s][i].wpm].joined,
         NEW u, u = up'[s][i].user, NEW n, n = i - 1
  PROVE  Ahead(s, u, n)'
<1>0. /\ Len(games) \in Nat /\ \A k \in 1..Len(games) : games'[k] = games[k]
  BY GamesGrow
<1>1. n \in Nat /\ i \in Nat /\ Len(up[s]) \in Nat
  BY Places, LenProperties DEF PageInv, PageTypes
<1>2. ASSUME NEW k \in DOMAIN up[s], up'[s][i] = up[s][k]
      PROVE  Ahead(s, u, k - 1)
  <2>1. up[s][k].wpm \in 1..Len(games)
    BY <1>2 DEF Sent
  <2> QED BY <1>0, <1>2, <2>1 DEF JoinsFirst
<1>3. CASE /\ i \in DOMAIN up[s] /\ up'[s][i] = up[s][i]
           /\ \A j \in 1..(i - 1) : up'[s][j] = up[s][j]
  <2>1. Ahead(s, u, n)
    BY <1>2, <1>3
  <2> QED BY <1>1, <1>3, <2>1, AheadMoves
<1>4. CASE i + 1 \in DOMAIN up[s] /\ i + 1 <= Len(up[s]) /\ up'[s][i] = up[s][i + 1] /\ ReadMessage(s)
  <2>1. Ahead(s, u, (i + 1) - 1)
    BY <1>2, <1>4
  <2>2. (i + 1) - 1 = i /\ i = n + 1 /\ i <= Len(up[s])
    BY <1>1, <1>4
  <2>3. Ahead(s, u, i)
    BY <2>1, <2>2
  <2> QED BY <1>1, <1>4, <2>2, <2>3, AheadMoves
<1>5. up'[s][i] # JoinLobby
  BY DEF JoinLobby
<1>6. ASSUME NEW o \in BOOLEAN, HandleGameComplete(o), up'[s][i] = GameEnd(o), s = current,
             sock[current] = "open", current \notin down, i = Len(up[s]) + 1,
             \A j \in 1..Len(up[s]) : up'[s][j] = up[s][j]
      PROVE  Ahead(s, u, n)'
  <2>1. /\ current # 0
        /\ games'[Len(games) + 1] = [user |-> shown.user, page |-> current, joined |-> Joined]
    BY <1>6, GameSays
  <2>2. up'[s][i].wpm = Len(games) + 1 /\ u = shown.user.id
    BY <1>6 DEF GameEnd
  <2>3. Joined
    BY <2>1, <2>2
  <2>4. Ahead(s, u, Len(up[s])) /\ n = Len(up[s])
    <3>1. Ahead(current, shown.user.id, Len(up[current]))
      BY <1>6, <2>1, <2>3 DEF JoinsFirst, Settled
    <3> QED BY <1>1, <1>6, <2>2, <3>1
  <2>5. Ahead(s, u, n) /\ \A j \in 1..n : up'[s][j] = up[s][j]
    BY <1>6, <2>4
  <2> QED BY <1>1, <2>5, AheadMoves
<1> QED BY <1>3, <1>4, <1>5, <1>6, Places

\* The first message of a connection has nothing ahead of it but what the
\* server has seen.
LEMMA SavingStep ==
  ASSUME PageInv, ServerInv, Sent, [Next]_vars, JoinsFirst, NEW s \in Sockets,
         pc'[s] = "saving", games'[job'[s].wpm].joined
  PROVE  job'[s].user \in joins'
<1>0. \A u \in joins : u \in joins'
  BY JoinsGrow
<1>1. CASE pc'[s] = pc[s] /\ job'[s] = job[s]
  <2>1. job[s].wpm \in 1..Len(games) /\ games'[job[s].wpm] = games[job[s].wpm]
    <3>1. job[s].wpm \in 1..Len(games)
      BY <1>1 DEF ServerInv, JobOK, Playing
    <3> QED BY <3>1, GamesGrow
  <2> QED BY <1>0, <1>1, <2>1 DEF JoinsFirst
<1>2. CASE ReadMessage(s)
  <2>1. /\ up[s] \in Seq(Wire) /\ up[s] # <<>> /\ pc[s] = "reading" /\ games' = games
        /\ \E m \in Server!Message :
             /\ job' = [job EXCEPT ![s] = m]
             /\ \/ pc' = [pc EXCEPT ![s] = "inserting"]
                \/ /\ Head(up[s]).kind = "game_end"
                   /\ m.user = Head(up[s]).user /\ m.wpm = Head(up[s]).wpm
    BY <1>2, ReadSays
  <2>2. pc \in [Sockets -> Server!PC] /\ job \in [Sockets -> Server!Message \union {Server!Idle}]
    BY DEF ServerInv, HandlerTypes
  <2>3. /\ Head(up[s]).kind = "game_end"
        /\ job'[s].user = Head(up[s]).user /\ job'[s].wpm = Head(up[s]).wpm
    BY <2>1, <2>2
  <2>4. 1 \in DOMAIN up[s] /\ Head(up[s]) = up[s][1]
    BY <2>1, HeadAndTail
  <2>5. Ahead(s, job'[s].user, 1 - 1)
    BY <2>1, <2>3, <2>4 DEF JoinsFirst
  <2>6. job'[s].user \in joins
    BY <2>1, <2>5 DEF Ahead, AtServer
  <2> QED BY <1>0, <2>6
<1> QED BY <1>1, <1>2, AtWork

\* Joining is inductive.
LEMMA JoiningStep == ASSUME PageInv, ServerInv, Sent, Joining, [Next]_vars PROVE Joining'
<1> SUFFICES ASSUME faults' = 0 PROVE JoinsFirst'
  BY DEF Joining
<1>1. JoinsFirst
  BY FaultsGrow DEF Joining
<1>2. ASSUME NEW s \in Sockets, NEW i \in DOMAIN up'[s], up'[s][i].kind = "game_end",
             games'[up'[s][i].wpm].joined
      PROVE  Ahead(s, up[s][i].user, i - 1)'
  <2>1. ASSUME NEW u, u = up'[s][i].user, NEW n, n = i - 1 PROVE Ahead(s, u, n)'
    BY <1>1, <1>2, <2>1, WireStep
  <2> QED BY <2>1 DEF Ahead, AtServer
<1>3. Settled' => Ahead(current, shown.user.id, Len(up[current]))'
  BY <1>1, SettledStep
<1>4. \A s \in Sockets : pc'[s] = "saving" /\ games'[job'[s].wpm].joined => job'[s].user \in joins'
  BY <1>1, SavingStep
<1> QED BY <1>2, <1>3, <1>4 DEF JoinsFirst

-----------------------------------------------------------------------------
(* Why a match is refused.                                                 *)

\* What is known of a game that was given up stays true.
LEMMA ReasonStays ==
  ASSUME PageInv, ServerInv, RefusalsExplained, [Next]_vars, NEW d \in dropped
  PROVE  /\ d.why = "no join" /\ games'[d.game].joined => faults' > 0
         /\ d.why = "no row" =>
              \E u \in DOMAIN users' :
                u # games'[d.game].user.id /\ users'[u] = games'[d.game].user.username
<1>1. games'[d.game] = games[d.game]
  <2>1. d.game \in 1..Len(games)
    BY DEF ServerInv
  <2> QED BY <2>1, GamesGrow
<1>2. /\ d.why = "no join" /\ games[d.game].joined => faults > 0
      /\ d.why = "no row" =>
           \E u \in DOMAIN users : u # games[d.game].user.id /\ users[u] = games[d.game].user.username
  BY DEF RefusalsExplained
<1>3. faults > 0 => faults' > 0
  BY FaultsGrow
<1> QED BY <1>1, <1>2, <1>3, UsersGrow

\* A match refused now has the reason that is noted: its join is still to
\* come, which takes a fault or an early end, or found the name taken; or its
\* player is registered, and the numbers are at fault.
LEMMA ReasonGiven ==
  ASSUME PageInv, ServerInv, Naming, Joining, [Next]_vars, NEW s \in Sockets, pc[s] = "saving",
         faults' = faults, NEW g, g = games'[job[s].wpm]
  PROVE  /\ WhyRefused(s) = "no join" /\ g.joined => faults' > 0
         /\ WhyRefused(s) = "no row" =>
              \E u \in DOMAIN users' : u # g.user.id /\ users'[u] = g.user.username
<1>1. job[s].wpm \in 1..Len(games) /\ job[s].user = games[job[s].wpm].user.id
  BY DEF ServerInv, JobOK, Playing
<1>2. g = games[job[s].wpm] /\ job[s].wpm \in DOMAIN games
  <2>1. DOMAIN games = 1..Len(games)
    BY LenProperties DEF PageInv, PageTypes
  <2> QED BY <1>1, <2>1, GamesGrow
<1>3. ASSUME job[s].user \notin joins, g.joined PROVE faults' > 0
  <2>1. faults # 0
    BY <1>2, <1>3 DEF Joining, JoinsFirst
  <2> QED BY <2>1, FaultsGrow
<1>4. ASSUME job[s].user \in joins, job[s].user \notin DOMAIN users
      PROVE  \E u \in DOMAIN users' : u # g.user.id /\ users'[u] = g.user.username
  <2>1. PICK f \in Namings : Named(f)
    BY DEF Naming
  <2>2. g.user.username = f[g.user.id]
    BY <1>2, <2>1 DEF Named, NamedGames, IsNamed
  <2>3. PICK v \in DOMAIN users : users[v] = f[job[s].user]
    BY <1>4, <2>1 DEF Named, NamedJoins
  <2>4. v # job[s].user
    BY <1>4
  <2> QED BY <1>1, <1>2, <2>2, <2>3, <2>4, UsersGrow
<1> QED BY <1>3, <1>4 DEF WhyRefused

\* RefusalsExplained is kept.
LEMMA RefusalsStep ==
  ASSUME PageInv, ServerInv, Sent, Naming, Joining, RefusalsExplained, [Next]_vars
  PROVE  RefusalsExplained'
<1> SUFFICES ASSUME NEW d \in dropped'
             PROVE  /\ d.why = "no join" /\ games'[d.game].joined => faults' > 0
                    /\ d.why = "no row" =>
                         \E u \in DOMAIN users' :
                           u # games'[d.game].user.id /\ users'[u] = games'[d.game].user.username
  BY DEF RefusalsExplained
<1>1. ASSUME NEW s \in Sockets, NEW why \in Reason, pc[s] = "saving",
             d = [game |-> job[s].wpm, why |-> why],
             why # "failed" => why = WhyRefused(s) /\ faults' = faults
      PROVE  /\ d.why = "no join" /\ games'[d.game].joined => faults' > 0
             /\ d.why = "no row" =>
                  \E u \in DOMAIN users' :
                    u # games'[d.game].user.id /\ users'[u] = games'[d.game].user.username
  <2>1. d.why = why /\ d.game = job[s].wpm
    BY <1>1
  <2>2. CASE why # "failed"
    <3>1. PICK g : g = games'[job[s].wpm]
      OBVIOUS
    <3> QED BY <1>1, <2>1, <2>2, <3>1, ReasonGiven
  <2>3. CASE why = "failed"
    BY <2>1, <2>3
  <2> QED BY <2>2, <2>3
<1> QED BY <1>1, ReasonStays, DropSays

\* At first nobody has a name, has joined or was refused.
LEMMA ReasonsInitial == Init => Naming /\ Joining /\ RefusalsExplained
<1> SUFFICES ASSUME Init PROVE Naming /\ Joining /\ RefusalsExplained
  OBVIOUS
<1>1. PageInit /\ Server!Init /\ dropped = {}
  BY DEF Init
<1>2. /\ storage = NoProfile /\ current = 0 /\ games = <<>> /\ joins = {}
      /\ \A s \in Sockets : up[s] = <<>> /\ pc[s] = "closed"
  BY <1>1 DEF PageInit, Server!Init
<1>3. DOMAIN <<>> = {}
  OBVIOUS
<1>4. \A f : Named(f)
  BY <1>2, <1>3 DEF Named, NamedPage, NamedGames, NamedWire, NamedJob, NamedJoins
<1>5. [u \in Users |-> Server!NoName] \in Namings
  BY DEF Namings
<1>6. JoinsFirst
  BY <1>2, <1>3 DEF JoinsFirst, Settled
<1>7. RefusalsExplained
  BY <1>1 DEF RefusalsExplained
<1> QED BY <1>4, <1>5, <1>6, <1>7 DEF Naming, Joining

\* A match is refused only because its player's join was in vain, the name
\* being taken (user_repo.go:22-31), or because a fault or a game that was
\* over before the join effect ran kept the join back (App.tsx:15-29).
THEOREM RefusalsHaveReasons == Spec => []RefusalsExplained
<1> DEFINE Inv == PageInv /\ ServerInv /\ Sent
           Why == Naming /\ Joining /\ RefusalsExplained
<1>1. Init => Why
  BY ReasonsInitial
<1>2. Inv /\ Why /\ [Next]_vars => Why'
  BY NamingStep, JoiningStep, RefusalsStep
<1>3. Why => RefusalsExplained
  OBVIOUS
<1> HIDE DEF Inv, Why
<1>4. Spec => []Inv
  BY PlayInvariant DEF Inv
<1> QED BY <1>1, <1>2, <1>3, <1>4, PTL DEF Spec

-----------------------------------------------------------------------------
(* What is stored was played, once.                                        *)

Unsaved(w) == \A i \in DOMAIN matches : matches[i].wpm # w

\* A game whose match is to be saved is in one handler's hands, or in one place
\* on the way, and not saved yet.
Once ==
  /\ SavedWasPlayed
  /\ \A s \in Sockets : pc[s] = "saving" =>
       /\ Unsaved(job[s].wpm)
       /\ \A t \in Sockets : t # s /\ pc[t] = "saving" => job[t].wpm # job[s].wpm
  /\ \A s \in Sockets : \A i \in DOMAIN up[s] : up[s][i].kind = "game_end" =>
       /\ Unsaved(up[s][i].wpm)
       /\ \A t \in Sockets : pc[t] = "saving" => job[t].wpm # up[s][i].wpm
       /\ \A t \in Sockets : \A j \in DOMAIN up[t] :
            up[t][j].kind = "game_end" /\ up[t][j].wpm = up[s][i].wpm => t = s /\ j = i

\* A result on the way was there, at its place or the next one, or is that of
\* the game that has just ended.
LEMMA Origin ==
  ASSUME PageInv, ServerInv, Sent, [Next]_vars,
         NEW s \in Sockets, NEW i \in DOMAIN up'[s], up'[s][i].kind = "game_end"
  PROVE  /\ i \in Nat
         /\ \/ ~ReadMessage(s) /\ i \in DOMAIN up[s] /\ up'[s][i] = up[s][i]
            \/ /\ ReadMessage(s) /\ i + 1 \in DOMAIN up[s] /\ up'[s][i] = up[s][i + 1]
               /\ i + 1 # 1
            \/ /\ up'[s][i].wpm = Len(games) + 1 /\ s = current /\ i = Len(up[s]) + 1
               /\ \E o \in BOOLEAN : HandleGameComplete(o)
<1>1. CASE ReadMessage(s)
  <2>1. up[s] \in Seq(Wire) /\ up[s] # <<>> /\ up' = [up EXCEPT ![s] = Tail(@)]
    BY <1>1, ReadSays
  <2>2. up'[s] = Tail(up[s])
    BY <2>1 DEF PageInv, PageTypes
  <2>3. /\ Len(up[s]) \in Nat /\ DOMAIN up[s] = 1..Len(up[s]) /\ i \in 1..(Len(up[s]) - 1)
        /\ up'[s][i] = up[s][i + 1]
    BY <2>1, <2>2, HeadAndTail
  <2>4. i \in Nat /\ i + 1 \in DOMAIN up[s] /\ i + 1 # 1
    BY <2>3
  <2> QED BY <1>1, <2>3, <2>4
<1>2. up'[s][i] # JoinLobby
  BY DEF JoinLobby
<1>3. \A o \in BOOLEAN : up'[s][i] = GameEnd(o) => up'[s][i].wpm = Len(games) + 1
  BY DEF GameEnd
<1> QED BY <1>1, <1>2, <1>3, Places

\* A handler that saves has just read its result, or was about to save it.
LEMMA InHand ==
  ASSUME PageInv, ServerInv, Sent, [Next]_vars, NEW s \in Sockets, pc'[s] = "saving"
  PROVE  /\ job'[s].wpm \in 1..Len(games)
         /\ \/ ~ReadMessage(s) /\ pc[s] = "saving" /\ job'[s] = job[s]
            \/ /\ ReadMessage(s) /\ 1 \in DOMAIN up[s]
               /\ up[s][1].kind = "game_end" /\ job'[s].wpm = up[s][1].wpm
               /\ \A t \in Sockets : t # s => pc'[t] = pc[t] /\ job'[t] = job[t]
               /\ matches' = matches
<1>1. pc \in [Sockets -> Server!PC] /\ job \in [Sockets -> Server!Message \union {Server!Idle}]
  BY DEF ServerInv, HandlerTypes
<1>2. CASE ReadMessage(s)
  <2>1. /\ up[s] \in Seq(Wire) /\ up[s] # <<>> /\ matches' = matches
        /\ \E m \in Server!Message :
             /\ job' = [job EXCEPT ![s] = m]
             /\ \/ pc' = [pc EXCEPT ![s] = "inserting"]
                \/ /\ Head(up[s]).kind = "game_end" /\ m.wpm = Head(up[s]).wpm
                   /\ m.wpm \in 1..Len(games)
                   /\ pc' = [pc EXCEPT ![s] = "saving"]
    BY <1>2, ReadSays
  <2>2. /\ Head(up[s]).kind = "game_end" /\ job'[s].wpm = Head(up[s]).wpm
        /\ job'[s].wpm \in 1..Len(games)
        /\ \A t \in Sockets : t # s => pc'[t] = pc[t] /\ job'[t] = job[t]
    BY <1>1, <2>1
  <2>3. 1 \in DOMAIN up[s] /\ Head(up[s]) = up[s][1]
    BY <2>1, HeadAndTail
  <2> QED BY <1>2, <2>1, <2>2, <2>3
<1>3. CASE ~ReadMessage(s)
  <2>1. pc[s] = "saving" /\ job'[s] = job[s]
    BY <1>3, AtWork
  <2>2. job[s].wpm \in 1..Len(games)
    BY <2>1 DEF ServerInv, JobOK, Playing
  <2> QED BY <1>3, <2>1, <2>2
<1> QED BY <1>2, <1>3

\* What a step adds to the matches is in the hands of a handler that lets it go.
LEMMA Stored ==
  ASSUME PageInv, ServerInv, [Next]_vars
  PROVE  \/ matches' = matches
         \/ \E s \in Sockets :
              /\ pc[s] = "saving" /\ pc'[s] # "saving"
              /\ Len(matches) \in Nat /\ DOMAIN matches = 1..Len(matches)
              /\ DOMAIN matches' = 1..(Len(matches) + 1)
              /\ matches'[Len(matches) + 1].wpm = job[s].wpm
              /\ matches'[Len(matches) + 1].user = job[s].user
              /\ \A i \in 1..Len(matches) : matches'[i] = matches[i]
<1>1. ASSUME NEW s \in Sockets, Saves(s)
      PROVE  /\ Len(matches) \in Nat /\ DOMAIN matches = 1..Len(matches)
             /\ DOMAIN matches' = 1..(Len(matches) + 1)
             /\ matches'[Len(matches) + 1].wpm = job[s].wpm
             /\ matches'[Len(matches) + 1].user = job[s].user
             /\ \A i \in 1..Len(matches) : matches'[i] = matches[i]
  <2> DEFINE m == Server!MatchOf(job[s])
  <2>1. matches \in Seq(Row) /\ m \in Row /\ matches' = Append(matches, m)
    BY <1>1, RowSaved DEF Saves, Playing, ServerInv, StoreTypes
  <2>2. m.wpm = job[s].wpm /\ m.user = job[s].user
    BY DEF Server!MatchOf
  <2> HIDE DEF m
  <2>3. /\ Len(matches) \in Nat /\ DOMAIN matches = 1..Len(matches)
        /\ matches' \in Seq(Row) /\ Len(matches') = Len(matches) + 1
        /\ matches'[Len(matches) + 1] = m
        /\ \A i \in 1..Len(matches) : matches'[i] = matches[i]
    BY <2>1, AppendProperties, LenProperties
  <2> QED BY <2>2, <2>3, LenProperties
<1>2. ASSUME NEW s \in Sockets, Inserts(s) \/ Ranks(s) PROVE matches' = matches
  BY <1>2 DEF Inserts, Ranks
<1> QED BY <1>1, <1>2, Effects DEF Effect, Saves

\* A game that no handler lets go of now is as unsaved as it was.
LEMMA StaysUnsaved ==
  ASSUME PageInv, ServerInv, [Next]_vars, NEW w, Unsaved(w),
         \A s \in Sockets : pc[s] = "saving" /\ pc'[s] # "saving" => job[s].wpm # w
  PROVE  Unsaved(w)'
<1>1. ASSUME NEW s \in Sockets, pc[s] = "saving", pc'[s] # "saving",
             Len(matches) \in Nat, DOMAIN matches = 1..Len(matches),
             DOMAIN matches' = 1..(Len(matches) + 1),
             matches'[Len(matches) + 1].wpm = job[s].wpm,
             \A i \in 1..Len(matches) : matches'[i] = matches[i]
      PROVE  Unsaved(w)'
  <2>1. \A i \in 1..(Len(matches) + 1) : i \in 1..Len(matches) \/ i = Len(matches) + 1
    BY <1>1
  <2> QED BY <1>1, <2>1 DEF Unsaved
<1>2. matches' = matches => Unsaved(w)'
  BY DEF Unsaved
<1> QED BY <1>1, <1>2, Stored

\* A match that is stored now is that of a game no row has yet.
LEMMA StoredStep == ASSUME PageInv, ServerInv, Once, [Next]_vars PROVE SavedWasPlayed'
<1>1. \A w \in DOMAIN games : w \in DOMAIN games' /\ games'[w] = games[w]
  <2>1. games \in Seq(Game) /\ games' \in Seq(Game)
    BY PageNext DEF PageInv, PageTypes
  <2>2. DOMAIN games = 1..Len(games) /\ DOMAIN games' = 1..Len(games')
    BY <2>1, LenProperties
  <2> QED BY <2>2, GamesGrow
<1>2. CASE matches' = matches
  BY <1>1, <1>2 DEF Once, SavedWasPlayed
<1>3. ASSUME NEW s \in Sockets, pc[s] = "saving",
             Len(matches) \in Nat, DOMAIN matches = 1..Len(matches),
             DOMAIN matches' = 1..(Len(matches) + 1),
             matches'[Len(matches) + 1].wpm = job[s].wpm,
             matches'[Len(matches) + 1].user = job[s].user,
             \A i \in 1..Len(matches) : matches'[i] = matches[i]
      PROVE  SavedWasPlayed'
  <2>1. job[s].wpm \in DOMAIN games /\ job[s].user = games[job[s].wpm].user.id
    <3>1. job[s].wpm \in 1..Len(games) /\ job[s].user = games[job[s].wpm].user.id
      BY <1>3 DEF ServerInv, JobOK, Playing
    <3> QED BY <3>1, LenProperties DEF PageInv, PageTypes
  <2>2. \A i \in 1..Len(matches) : matches[i].wpm # job[s].wpm
    BY <1>3 DEF Once, Unsaved
  <2>3. \A i \in 1..Len(matches) :
          /\ matches[i].wpm \in DOMAIN games
          /\ matches[i].user = games[matches[i].wpm].user.id
          /\ \A j \in 1..Len(matches) : matches[j].wpm = matches[i].wpm => j = i
    BY <1>3 DEF Once, SavedWasPlayed
  <2>4. \A i \in DOMAIN matches' : i \in 1..Len(matches) \/ i = Len(matches) + 1
    BY <1>3
  <2>5. ASSUME NEW i \in DOMAIN matches'
        PROVE  /\ matches'[i].wpm \in DOMAIN games
               /\ matches'[i].user = games[matches'[i].wpm].user.id
               /\ \A j \in DOMAIN matches' : matches'[j].wpm = matches'[i].wpm => j = i
    <3>1. CASE i \in 1..Len(matches)
      BY <1>3, <2>2, <2>3, <2>4, <3>1
    <3>2. CASE i = Len(matches) + 1
      BY <1>3, <2>1, <2>2, <2>4, <3>2
    <3> QED BY <2>4, <3>1, <3>2
  <2> QED BY <1>1, <2>5 DEF SavedWasPlayed
<1> QED BY <1>2, <1>3, Stored

\* A game in a handler's hands is in no other's, and not saved.
LEMMA HandsStep ==
  ASSUME PageInv, ServerInv, Sent, Once, [Next]_vars, NEW s \in Sockets, pc'[s] = "saving"
  PROVE  /\ Unsaved(job[s].wpm)'
         /\ \A t \in Sockets : t # s /\ pc'[t] = "saving" => job'[t].wpm # job'[s].wpm
<1> SUFFICES ASSUME NEW w, w = job'[s].wpm
             PROVE  /\ Unsaved(w)'
                    /\ \A t \in Sockets : t # s /\ pc'[t] = "saving" => job'[t].wpm # w
  BY DEF Unsaved
<1>1. CASE pc[s] = "saving" /\ job'[s] = job[s]
  <2>1. Unsaved(w) /\ \A t \in Sockets : t # s /\ pc[t] = "saving" => job[t].wpm # w
    BY <1>1 DEF Once
  <2>2. \A t \in Sockets : pc[t] = "saving" /\ pc'[t] # "saving" => job[t].wpm # w
    BY <2>1
  <2>3. Unsaved(w)'
    BY <2>1, <2>2, StaysUnsaved
  <2>4. ASSUME NEW t \in Sockets, t # s, pc'[t] = "saving" PROVE job'[t].wpm # w
    <3>1. CASE pc[t] = "saving" /\ job'[t] = job[t]
      BY <2>1, <2>4, <3>1
    <3>2. CASE 1 \in DOMAIN up[t] /\ up[t][1].kind = "game_end" /\ job'[t].wpm = up[t][1].wpm
      BY <1>1, <3>2 DEF Once
    <3> QED BY <2>4, <3>1, <3>2, InHand
  <2> QED BY <2>3, <2>4
<1>2. CASE /\ 1 \in DOMAIN up[s] /\ up[s][1].kind = "game_end" /\ job'[s].wpm = up[s][1].wpm
           /\ \A t \in Sockets : t # s => pc'[t] = pc[t] /\ job'[t] = job[t]
           /\ matches' = matches
  <2>1. Unsaved(w) /\ \A t \in Sockets : pc[t] = "saving" => job[t].wpm # w
    BY <1>2 DEF Once
  <2> QED BY <1>2, <2>1 DEF Unsaved
<1> QED BY <1>1, <1>2, InHand

\* A result on the way is in no handler's hands and nowhere else on the way.
LEMMA OnTheWayOnce ==
  ASSUME PageInv, ServerInv, Sent, Once, [Next]_vars,
         NEW s \in Sockets, NEW i \in DOMAIN up'[s], up'[s][i].kind = "game_end",
         NEW w, w = up'[s][i].wpm
  PROVE  /\ Unsaved(w)'
         /\ \A t \in Sockets : pc'[t] = "saving" => job'[t].wpm # w
         /\ \A t \in Sockets : \A j \in DOMAIN up'[t] :
              up'[t][j].kind = "game_end" /\ up'[t][j].wpm = w => t = s /\ j = i
<1>1. Len(games) \in Nat /\ DOMAIN games = 1..Len(games)
  BY LenProperties DEF PageInv, PageTypes
<1>2. ASSUME NEW k \in DOMAIN up[s], up'[s][i] = up[s][k], i \in Nat,
             ReadMessage(s) => k = i + 1 /\ k # 1, ~ReadMessage(s) => k = i
      PROVE  /\ Unsaved(w)'
             /\ \A t \in Sockets : pc'[t] = "saving" => job'[t].wpm # w
             /\ \A t \in Sockets : \A j \in DOMAIN up'[t] :
                  up'[t][j].kind = "game_end" /\ up'[t][j].wpm = w => t = s /\ j = i
  <2>1. up[s][k].kind = "game_end" /\ up[s][k].wpm = w /\ w \in 1..Len(games)
    BY <1>2 DEF Sent
  <2>2. /\ Unsaved(w)
        /\ \A t \in Sockets : pc[t] = "saving" => job[t].wpm # w
        /\ \A t \in Sockets : \A j \in DOMAIN up[t] :
             up[t][j].kind = "game_end" /\ up[t][j].wpm = w => t = s /\ j = k
    BY <2>1 DEF Once
  <2>3. Unsaved(w)'
    BY <2>2, StaysUnsaved
  <2>4. ASSUME NEW t \in Sockets, pc'[t] = "saving" PROVE job'[t].wpm # w
    BY <1>2, <2>2, <2>4, InHand
  <2>5. ASSUME NEW t \in Sockets, NEW j \in DOMAIN up'[t],
               up'[t][j].kind = "game_end", up'[t][j].wpm = w
        PROVE  t = s /\ j = i
    <3>1. w # Len(games) + 1
      BY <1>1, <2>1
    <3>2. CASE ~ReadMessage(t) /\ j \in DOMAIN up[t] /\ up'[t][j] = up[t][j]
      BY <1>2, <2>2, <2>5, <3>2
    <3>3. CASE ReadMessage(t) /\ j + 1 \in DOMAIN up[t] /\ up'[t][j] = up[t][j + 1] /\ j \in Nat
      <4>1. t = s /\ j + 1 = k
        BY <2>2, <2>5, <3>3
      <4> QED BY <1>2, <3>3, <4>1
    <3> QED BY <2>5, <3>1, <3>2, <3>3, Origin
  <2> QED BY <2>3, <2>4, <2>5
<1>3. ASSUME w = Len(games) + 1, s = current, i = Len(up[s]) + 1
      PROVE  /\ Unsaved(w)'
             /\ \A t \in Sockets : pc'[t] = "saving" => job'[t].wpm # w
             /\ \A t \in Sockets : \A j \in DOMAIN up'[t] :
                  up'[t][j].kind = "game_end" /\ up'[t][j].wpm = w => t = s /\ j = i
  <2>1. \A x \in 1..Len(games) : x # w
    BY <1>1, <1>3
  <2>2. Unsaved(w)
    BY <1>1, <2>1 DEF Unsaved, Once, SavedWasPlayed
  <2>3. \A t \in Sockets : pc[t] = "saving" => job[t].wpm # w
    BY <2>1 DEF ServerInv, JobOK, Playing
  <2>4. Unsaved(w)'
    BY <2>2, <2>3, StaysUnsaved
  <2>5. ASSUME NEW t \in Sockets, pc'[t] = "saving" PROVE job'[t].wpm # w
    BY <2>1, <2>5, InHand
  <2>6. ASSUME NEW t \in Sockets, NEW j \in DOMAIN up'[t],
               up'[t][j].kind = "game_end", up'[t][j].wpm = w
        PROVE  t = s /\ j = i
    <3>1. \A k \in DOMAIN up[t] : up[t][k].kind = "game_end" => up[t][k].wpm # w
      BY <2>1 DEF Sent
    <3>2. t = current /\ j = Len(up[t]) + 1
      BY <2>6, <3>1, Origin
    <3> QED BY <1>3, <3>2
  <2> QED BY <2>4, <2>5, <2>6
<1> QED BY <1>2, <1>3, Origin

\* Once is inductive.
LEMMA OnceStep == ASSUME PageInv, ServerInv, Sent, Once, [Next]_vars PROVE Once'
<1>1. SavedWasPlayed'
  BY StoredStep
<1>2. ASSUME NEW s \in Sockets, pc'[s] = "saving"
      PROVE  /\ Unsaved(job[s].wpm)'
             /\ \A t \in Sockets : t # s /\ pc'[t] = "saving" => job'[t].wpm # job'[s].wpm
  BY <1>2, HandsStep
<1>3. ASSUME NEW s \in Sockets, NEW i \in DOMAIN up'[s], up'[s][i].kind = "game_end"
      PROVE  /\ Unsaved(up[s][i].wpm)'
             /\ \A t \in Sockets : pc'[t] = "saving" => job'[t].wpm # up'[s][i].wpm
             /\ \A t \in Sockets : \A j \in DOMAIN up'[t] :
                  up'[t][j].kind = "game_end" /\ up'[t][j].wpm = up'[s][i].wpm => t = s /\ j = i
  <2>1. PICK w : w = up'[s][i].wpm
    OBVIOUS
  <2>2. Unsaved(w)' => Unsaved(up[s][i].wpm)'
    BY <2>1 DEF Unsaved
  <2> QED BY <1>3, <2>1, <2>2, OnTheWayOnce
<1> QED BY <1>1, <1>2, <1>3 DEF Once

\* At first nothing is stored, saved or on the way.
LEMMA OnceInitial == Init => Once
<1> SUFFICES ASSUME Init PROVE Once
  OBVIOUS
<1>1. matches = <<>> /\ \A s \in Sockets : up[s] = <<>> /\ pc[s] = "closed"
  BY DEF Init, PageInit, Server!Init
<1>2. DOMAIN <<>> = {}
  OBVIOUS
<1> QED BY <1>1, <1>2 DEF Once, SavedWasPlayed, Unsaved

\* A stored match is that of a game that was played, under the player who was
\* on screen (App.tsx:36-44), and no game is stored twice: the browser sends a
\* result once, and no handler saves it again after a failed call, a lost
\* connection or a restart (websocket_handlers.go:98-123).
THEOREM StoredOnce == Spec => []SavedWasPlayed
<1> DEFINE Inv == PageInv /\ ServerInv /\ Sent
<1>1. Init => Once
  BY OnceInitial
<1>2. Inv /\ Once /\ [Next]_vars => Once'
  BY OnceStep
<1>3. Once => SavedWasPlayed
  BY DEF Once
<1> HIDE DEF Inv
<1>4. Spec => []Inv
  BY PlayInvariant DEF Inv
<1> QED BY <1>1, <1>2, <1>3, <1>4, PTL DEF Spec

=============================================================================
