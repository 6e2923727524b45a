------------------------------ MODULE Records -------------------------------
(***************************************************************************)
(* What the backend records.  Each readPump (client.go:53-63) hands its    *)
(* messages, one at a time, to HandleEvent (websocket_handlers.go), which  *)
(* calls the repositories (user_repo.go, match_repo.go, redis_cache.go)    *)
(* and then the message goes to the hub.  Several readPumps run at once,   *)
(* over one Postgres database and one Redis, and no transaction spans two  *)
(* calls.  A statement is sent to Postgres once; go-redis, at its defaults *)
(* (database.go:79), sends a command again when the reply is lost.         *)
(*                                                                         *)
(* A call to a store is one step with the outcomes the caller can see:     *)
(* done, refused by a constraint, or failed; a failed statement may or may *)
(* not have taken effect, since the reply can be lost.  The process may    *)
(* exit between any two steps: Shutdown (main.go:35) does not wait for     *)
(* hijacked websocket connections.                                         *)
(***************************************************************************)
EXTENDS Naturals, Sequences, FiniteSets, SequencesExt, Functions

CONSTANTS
  Sessions,     \* websocket connections, one at a time under each name
  Users,        \* profile ids
  Names,        \* usernames
  UserOf,       \* UserOf[s]: the profile of the browser behind session s
  GuestName,    \* GuestName[u]: "Guest_" and the first eight characters of u
  Scores,       \* words per minute
  MaxMessages,  \* bound: messages received in all
  MaxFaults     \* bound: failed calls and process exits in all

NoName == "no name"   \* a join_lobby whose username is missing or empty

ASSUME RecordsAssumption ==
  /\ UserOf \in [Sessions -> Users] /\ GuestName \in [Users -> Names]
  /\ MaxMessages \in Nat /\ MaxFaults \in Nat

VARIABLES
  users,      \* table users: a partial function from ids to usernames
  matches,    \* table matches, in the order of created_at
  board,      \* the sorted set leaderboard:global: partial, member to score
  pc,         \* where session s is in the loop of readPump and in its handler
  job,        \* the message session s is handling
  found,      \* the username handleGameEnd got from GetUser
  received,   \* number of messages received
  faults,     \* number of failed calls and process exits
  announced,  \* history: ranks of the messages handed to the hub
  joins,      \* history: ids whose join_lobby was handled without a failed call
  torn        \* history: users with a match cut short by a failure or an exit

stores == <<users, matches, board>>
session == <<pc, job, found>>
history == <<announced, joins, torn>>
vars == <<stores, session, received, faults, history>>

PC == {"closed", "reading", "inserting", "saving", "looking", "ranking", "announcing"}

\* WSEvent: join_lobby and game_end change the stores; typing_update,
\* chat_message, an unknown type and a message that does not parse do not.
\* A message is identified by n, its rank of arrival.
Message ==
  [n : Nat, by : Sessions, kind : {"join"}, user : Users, name : Names \union {NoName}]
    \union [n : Nat, by : Sessions, kind : {"game_end"}, user : Users, wpm : Scores]
    \union [n : Nat, by : Sessions, kind : {"other"}]

Idle == [kind |-> "none"]

Init ==
  /\ users = <<>> /\ matches = <<>> /\ board = <<>>
  /\ pc = [s \in Sessions |-> "closed"]
  /\ job = [s \in Sessions |-> Idle]
  /\ found = [s \in Sessions |-> NoName]
  /\ received = 0 /\ faults = 0
  /\ announced = {} /\ joins = {} /\ torn = {}

Goto(s, where) == pc' = [pc EXCEPT ![s] = where]

\* A member of the leaderboard: "username:userID".
Member(name, u) == <<name, u>>

\* f with f[x] = y.
Put(f, x, y) == [z \in DOMAIN f \union {x} |-> IF z = x THEN y ELSE f[z]]

-----------------------------------------------------------------------------
(* Connections.                                                            *)

Connect(s) ==
  /\ pc[s] = "closed"
  /\ Goto(s, "reading")
  /\ UNCHANGED <<stores, job, found, received, faults, history>>

Disconnect(s) ==
  /\ pc[s] = "reading"
  /\ Goto(s, "closed")
  /\ UNCHANGED <<stores, job, found, received, faults, history>>

ReceiveBroadcastFirst(s, m) ==
  /\ pc[s] = "reading"
  /\ received < MaxMessages
  /\ received' = received + 1
  /\ job' = [job EXCEPT ![s] = m]
  /\ announced' = announced \union {m.n}
  /\ Goto(s, CASE m.kind = "join" -> "inserting"
               [] m.kind = "game_end" -> "saving"
               [] OTHER -> "announcing")
  /\ UNCHANGED <<stores, found, faults, joins, torn>>

\* HandleEvent dispatches on the type.
Receive(s, m) ==
  /\ pc[s] = "reading"
  /\ received < MaxMessages
  /\ received' = received + 1
  /\ job' = [job EXCEPT ![s] = m]
  /\ Goto(s, CASE m.kind = "join" -> "inserting"
               [] m.kind = "game_end" -> "saving"
               [] OTHER -> "announcing")
  /\ UNCHANGED <<stores, found, faults, history>>

\* A browser sends its own profile; the test client (verify_concurrency) and a
\* profile whose name was lost leave the username out.
ReceiveAny(s) ==
  LET next == received + 1 IN
  \/ \E name \in Names \union {NoName} :
       Receive(s, [n |-> next, by |-> s, kind |-> "join", user |-> UserOf[s], name |-> name])
  \/ \E wpm \in Scores :
       Receive(s, [n |-> next, by |-> s, kind |-> "game_end", user |-> UserOf[s], wpm |-> wpm])
  \/ Receive(s, [n |-> next, by |-> s, kind |-> "other"])

\* readPump hands the message on, whatever came of it.
Announce(s) ==
  /\ pc[s] = "announcing"
  /\ Goto(s, "reading")
  /\ announced' = announced \union {job[s].n}
  /\ job' = [job EXCEPT ![s] = Idle]
  /\ found' = [found EXCEPT ![s] = NoName]
  /\ UNCHANGED <<stores, received, faults, joins, torn>>

-----------------------------------------------------------------------------
(* handleJoinLobby.                                                        *)

GuestNameRaw(m) == m.name

GuestNameOf(m) == IF m.name = NoName THEN GuestName[m.user] ELSE m.name

InsertUserUpsert(u, name) ==
  IF \E v \in DOMAIN users : v # u /\ users[v] = name
  THEN UNCHANGED users
  ELSE users' = Put(users, u, name)

\* INSERT ... ON CONFLICT (id) DO NOTHING; a username that another user has
\* breaks the UNIQUE constraint and the row is refused.
InsertUser(u, name) ==
  IF u \in DOMAIN users \/ name \in Range(users)
  THEN UNCHANGED users
  ELSE users' = Put(users, u, name)

\* The error, if any, is logged: a refused guest is not told.
CreateGuest(s) ==
  /\ pc[s] = "inserting"
  /\ InsertUser(job[s].user, GuestNameOf(job[s]))
  /\ joins' = joins \union {job[s].user}
  /\ Goto(s, "announcing")
  /\ UNCHANGED <<matches, board, job, found, received, faults, announced, torn>>

-----------------------------------------------------------------------------
(* handleGameEnd: save, look the name up, rank; the first error ends it.   *)

MatchOf(m) == [from |-> m.n, by |-> m.by, user |-> m.user, wpm |-> m.wpm]
SaveMatch(m) == matches' = Append(matches, MatchOf(m))

CreateMatchContinues(s) ==
  /\ pc[s] = "saving"
  /\ IF job[s].user \in DOMAIN users THEN SaveMatch(job[s]) ELSE UNCHANGED matches
  /\ Goto(s, "looking")
  /\ UNCHANGED <<users, board, job, found, received, faults, history>>

\* matches.user_id references users(id): an unregistered user's match is refused.
\* So is anybody's if accuracy overflows its DECIMAL(5, 2), or another number
\* its column; the numbers are left out.
CreateMatch(s) ==
  /\ pc[s] = "saving"
  /\ \/ job[s].user \in DOMAIN users /\ SaveMatch(job[s]) /\ Goto(s, "looking")
     \/ UNCHANGED matches /\ Goto(s, "announcing")
  /\ UNCHANGED <<users, board, job, found, received, faults, history>>

GetUser(s) ==
  /\ pc[s] = "looking"
  /\ IF job[s].user \in DOMAIN users
     THEN found' = [found EXCEPT ![s] = users[job[s].user]] /\ Goto(s, "ranking")
     ELSE UNCHANGED found /\ Goto(s, "announcing")
  /\ UNCHANGED <<stores, job, received, faults, history>>

RankBest(s) ==
  LET m == Member(found[s], job[s].user) IN
  IF m \in DOMAIN board /\ board[m] >= job[s].wpm
  THEN UNCHANGED board
  ELSE board' = Put(board, m, job[s].wpm)

\* ZADD: the new score replaces the old one, higher or lower.
Rank(s) == board' = Put(board, Member(found[s], job[s].user), job[s].wpm)

UpdateLeaderboard(s) ==
  /\ pc[s] = "ranking"
  /\ Rank(s)
  /\ torn' = torn \ {job[s].user}
  /\ Goto(s, "announcing")
  /\ UNCHANGED <<users, matches, job, found, received, faults, announced, joins>>

-----------------------------------------------------------------------------
(* Failures.                                                               *)

\* A statement that is on its way takes effect, or does not.
MayTakeEffect(s) ==
  \/ UNCHANGED stores
  \/ pc[s] = "inserting" /\ InsertUser(job[s].user, GuestNameOf(job[s]))
       /\ UNCHANGED <<matches, board>>
  \/ pc[s] = "saving" /\ job[s].user \in DOMAIN users /\ SaveMatch(job[s])
       /\ UNCHANGED <<users, board>>
  \/ pc[s] = "ranking" /\ Rank(s) /\ UNCHANGED <<users, matches>>

Calling == {s \in Sessions : pc[s] \in {"inserting", "saving", "looking", "ranking"}}
CutShort(S) == torn' = torn \union {job[s].user : s \in {t \in S : job[t].kind = "game_end"}}

\* The reply to a ZADD is lost and go-redis sends the ZADD again.
RankRetried(s) ==
  /\ pc[s] = "ranking"
  /\ faults < MaxFaults
  /\ faults' = faults + 1
  /\ Rank(s)
  /\ UNCHANGED <<users, matches, session, received, history>>

CallFailsRetry(s) ==
  /\ s \in Calling
  /\ faults < MaxFaults
  /\ faults' = faults + 1
  /\ MayTakeEffect(s)
  /\ CutShort({s})
  /\ Goto(s, IF pc[s] = "saving" THEN "saving" ELSE "announcing")
  /\ UNCHANGED <<job, found, received, announced, joins>>

\* The call returns an error: every handler gives up, logs it and returns.
CallFails(s) ==
  /\ s \in Calling
  /\ faults < MaxFaults
  /\ faults' = faults + 1
  /\ MayTakeEffect(s)
  /\ CutShort({s})
  /\ Goto(s, "announcing")
  /\ UNCHANGED <<job, found, received, announced, joins>>

\* The process exits (a signal, a panic, a power cut) and is started again:
\* connections and handlers are gone, the stores remain.
Restart ==
  /\ faults < MaxFaults
  /\ faults' = faults + 1
  /\ \E s \in Sessions : pc[s] # "closed"
  /\ pc' = [s \in Sessions |-> "closed"]
  /\ job' = [s \in Sessions |-> Idle]
  /\ found' = [s \in Sessions |-> NoName]
  /\ CutShort(Calling)
  /\ UNCHANGED <<stores, received, announced, joins>>

\* The bound is used up and every connection has ended.
Quiescent ==
  /\ received = MaxMessages
  /\ \A s \in Sessions : pc[s] = "closed"
  /\ UNCHANGED vars

Next ==
  \/ \E s \in Sessions :
       \/ Connect(s) \/ Disconnect(s) \/ ReceiveAny(s)
       \/ CreateGuest(s) \/ CreateMatch(s) \/ GetUser(s) \/ UpdateLeaderboard(s)
       \/ Announce(s) \/ RankRetried(s) \/ CallFails(s)
  \/ Restart
  \/ Quiescent

Spec == Init /\ [][Next]_vars

-----------------------------------------------------------------------------
(* Properties.                                                             *)

\* Types of the stores, the sessions and the history.
TypeOK ==
  /\ DOMAIN users \subseteq Users /\ \A u \in DOMAIN users : users[u] \in Names
  /\ matches \in Seq([from : Nat, by : Sessions, user : Users, wpm : Scores])
  /\ DOMAIN board \subseteq Names \X Users /\ \A m \in DOMAIN board : board[m] \in Scores
  /\ pc \in [Sessions -> PC]
  /\ \A s \in Sessions : job[s] = Idle \/ job[s] \in Message
  /\ found \in [Sessions -> Names \union {NoName}]
  /\ received \in 0..MaxMessages /\ faults \in 0..MaxFaults
  /\ joins \subseteq Users /\ torn \subseteq Users
  /\ announced \subseteq 1..MaxMessages

\* Redis never shows what Postgres does not know: behind every entry of the
\* leaderboard stand a registered user of that name and a saved match with
\* that score, whatever calls failed and wherever the process exited.  So no
\* player is listed twice, although the key of an entry contains the name and
\* the name a browser joins with may change.
LeaderboardBacked ==
  \A m \in DOMAIN board :
    /\ m[2] \in DOMAIN users /\ users[m[2]] = m[1]
    /\ \E i \in DOMAIN matches : matches[i].user = m[2] /\ matches[i].wpm = board[m]

\* A game_end is saved at most once, and the matches of a connection are saved
\* in the order the games ended, also across a failed call or a restart.
SavedOnceInOrder ==
  \A i, j \in DOMAIN matches :
    i < j => /\ matches[i].from # matches[j].from
             /\ matches[i].by = matches[j].by => matches[i].from < matches[j].from

\* The latest saved match of u on connection s; 0 if there is none.
Latest(u, s) == SelectLastInSeq(matches, LAMBDA r : r.user = u /\ r.by = s)
Saved(u) == \E i \in DOMAIN matches : matches[i].user = u

\* Once no handler is between a save and its ZADD, the leaderboard shows the
\* latest match of a player, or with several tabs the latest of one of them:
\* handlers that overlap may rank in another order than they saved, but never
\* leave a score that its own tab has replaced.  A match cut short by a
\* failure is made good by the next.
LeaderboardCurrent ==
  \A u \in Users :
    ( /\ Saved(u) /\ u \notin torn
      /\ \A s \in Sessions : UserOf[s] = u => pc[s] \notin {"looking", "ranking"} )
    => /\ Member(users[u], u) \in DOMAIN board
       /\ \E s \in Sessions :
            /\ Latest(u, s) # 0
            /\ board[Member(users[u], u)] = matches[Latest(u, s)].wpm

\* Seen from outside, the stores are a ledger of games: a match is entered
\* once or given up, scores are entries, and a game is broadcast only when it
\* is decided, whatever calls fail and wherever the process exits.  Each
\* player has one member of the sorted set at most (LeaderboardBacked).
LedgerView == INSTANCE Ledger WITH
  count <- received,
  open <- {MatchOf(job[s]) : s \in {t \in Sessions : pc[t] = "saving"}},
  entries <- matches,
  scores <- [u \in {m[2] : m \in DOMAIN board} |-> board[CHOOSE m \in DOMAIN board : m[2] = u]],
  heard <- announced
ImplementsLedger == LedgerView!Spec

\* A registered user keeps its row and its name, and saved matches stay.
RowsKept ==
  [][/\ \A u \in DOMAIN users : u \in DOMAIN users' /\ users'[u] = users[u]
     /\ IsPrefix(matches, matches')]_vars

\* A join that was handled without a failed call leaves a registered guest
\* ("Create guest if needed", websocket_handlers.go:63).
GuestCreated == joins \subseteq DOMAIN users

=============================================================================
