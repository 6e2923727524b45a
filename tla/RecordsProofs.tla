---------------------------- MODULE RecordsProofs ----------------------------
(***************************************************************************)
(* Theorems about Records, for any players, sessions, names and scores and *)
(* any number of messages and faults.                                      *)
(***************************************************************************)
EXTENDS Records, Induction

Handling == PC \ {"closed", "reading"}
Playing == {"saving", "looking", "ranking"}

Match == [from : Nat, by : Sessions, user : Users, wpm : Scores]

StoreTypes ==
  /\ DOMAIN users \subseteq Users /\ \A u \in DOMAIN users : users[u] \in Names
  /\ matches \in Seq(Match)
  /\ DOMAIN board \subseteq Names \X Users /\ \A m \in DOMAIN board : board[m] \in Scores

SessionTypes ==
  /\ pc \in [Sessions -> PC]
  /\ job \in [Sessions -> Message \union {Idle}]
  /\ found \in [Sessions -> Names \union {NoName}]

HistoryTypes ==
  /\ received \in 0..MaxMessages /\ faults \in 0..MaxFaults
  /\ joins \subseteq Users /\ torn \subseteq Users
  /\ announced \subseteq 1..MaxMessages

\* A handler works on the message that its place is for, and a reader on none.
JobOK(s) ==
  /\ pc[s] \in {"closed", "reading"} => job[s] = Idle
  /\ pc[s] \in Handling => job[s].n \in 1..received
  /\ pc[s] = "inserting" =>
       job[s].kind = "join" /\ job[s].user \in Users /\ GuestNameOf(job[s]) \in Names
  /\ pc[s] \in Playing =>
       /\ job[s].kind = "game_end" /\ job[s].by = s
       /\ job[s].user = UserOf[s] /\ job[s].wpm \in Scores
  /\ pc[s] = "ranking" => found[s] \in Names

TypeInv ==
  /\ StoreTypes /\ SessionTypes /\ HistoryTypes
  /\ \A s \in Sessions : JobOK(s)

-----------------------------------------------------------------------------
(* Partial functions and messages.                                         *)

\* Put overwrites or adds one entry.
LEMMA PutProperties ==
  ASSUME NEW f, NEW x, NEW y
  PROVE  /\ DOMAIN Put(f, x, y) = DOMAIN f \union {x}
         /\ Put(f, x, y)[x] = y
         /\ \A z \in DOMAIN f : z # x => Put(f, x, y)[z] = f[z]
BY DEF Put

\* Put keeps the types of a partial function.
LEMMA PutTypes ==
  ASSUME NEW f, NEW D, NEW R, NEW x \in D, NEW y \in R,
         DOMAIN f \subseteq D, \A z \in DOMAIN f : f[z] \in R
  PROVE  DOMAIN Put(f, x, y) \subseteq D /\ \A z \in DOMAIN Put(f, x, y) : Put(f, x, y)[z] \in R
BY DEF Put

\* What a session receives is a message.
LEMMA Messages ==
  ASSUME NEW n \in Nat, NEW s \in Sessions
  PROVE  /\ \A name \in Names \union {NoName} :
              [n |-> n, by |-> s, kind |-> "join", user |-> UserOf[s], name |-> name] \in Message
         /\ \A wpm \in Scores :
              [n |-> n, by |-> s, kind |-> "game_end", user |-> UserOf[s], wpm |-> wpm] \in Message
         /\ [n |-> n, by |-> s, kind |-> "other"] \in Message
BY RecordsAssumption DEF Message, RecordsAssumption

\* The match of a handled game is a row of the table.
LEMMA MatchIsRow ==
  ASSUME TypeInv, NEW s \in Sessions, pc[s] = "saving"
  PROVE  MatchOf(job[s]) \in Match
<1>1. UserOf[s] \in Users
  BY RecordsAssumption DEF RecordsAssumption
<1>2. job[s].n \in Nat /\ job[s].by = s /\ job[s].user = UserOf[s] /\ job[s].wpm \in Scores
  BY DEF TypeInv, JobOK, Handling, Playing, HistoryTypes, PC
<1> QED BY <1>1, <1>2 DEF MatchOf, Match

-----------------------------------------------------------------------------
(* What a step may do to the stores.                                       *)

Inserts(s) ==
  /\ pc[s] = "inserting"
  /\ \E u \in Users, name \in Names :
       /\ u \notin DOMAIN users
       /\ users' = Put(users, u, name)
  /\ UNCHANGED <<matches, board>>

Saves(s) ==
  /\ pc[s] = "saving" /\ pc'[s] \in {"looking", "announcing"}
  /\ job[s].user \in DOMAIN users
  /\ matches' = Append(matches, MatchOf(job[s]))
  /\ UNCHANGED <<users, board>>

Ranks(s) ==
  /\ pc[s] = "ranking" /\ pc'[s] \in {"ranking", "announcing"}
  /\ board' = Put(board, Member(found[s], job[s].user), job[s].wpm)
  /\ UNCHANGED <<users, matches>>

Effect == UNCHANGED stores \/ \E s \in Sessions : Inserts(s) \/ Saves(s) \/ Ranks(s)

\* The handler's statement, once it is sent, has its effect or none.
LEMMA Effects == TypeInv /\ [Next]_vars => Effect
<1> SUFFICES ASSUME TypeInv, [Next]_vars PROVE Effect
  OBVIOUS
<1> USE DEF stores
<1>1. ASSUME NEW s \in Sessions,
             Connect(s) \/ Disconnect(s) \/ ReceiveAny(s) \/ GetUser(s) \/ Announce(s)
      PROVE  Effect
  BY <1>1 DEF Connect, Disconnect, ReceiveAny, Receive, GetUser, Announce, Effect
<1>2. ASSUME NEW s \in Sessions, pc[s] = "inserting",
             InsertUser(job[s].user, GuestNameOf(job[s])), UNCHANGED <<matches, board>>
      PROVE  Effect
  <2>1. job[s].user \in Users /\ GuestNameOf(job[s]) \in Names
    BY <1>2 DEF TypeInv, JobOK
  <2> QED BY <1>2, <2>1 DEF InsertUser, Inserts, Effect
<1>3. ASSUME NEW s \in Sessions, CreateGuest(s) PROVE Effect
  BY <1>2, <1>3 DEF CreateGuest
<1>4. ASSUME NEW s \in Sessions, CreateMatch(s) PROVE Effect
  <2>1. pc' = [pc EXCEPT ![s] = "looking"] => pc'[s] = "looking"
    BY DEF TypeInv, SessionTypes
  <2> QED BY <1>4, <2>1 DEF CreateMatch, Goto, SaveMatch, Saves, Effect
<1>5. ASSUME NEW s \in Sessions, UpdateLeaderboard(s) PROVE Effect
  <2>1. pc'[s] = "announcing"
    BY <1>5 DEF UpdateLeaderboard, Goto, TypeInv, SessionTypes
  <2> QED BY <1>5, <2>1 DEF UpdateLeaderboard, Rank, Ranks, Effect
<1>6. ASSUME NEW s \in Sessions, CallFails(s) PROVE Effect
  <2>1. pc'[s] = "announcing"
    BY <1>6 DEF CallFails, Goto, TypeInv, SessionTypes
  <2> QED BY <1>2, <1>6, <2>1 DEF CallFails, MayTakeEffect, SaveMatch, Rank, Saves, Ranks, Effect
<1>7. ASSUME NEW s \in Sessions, RankRetried(s) PROVE Effect
  BY <1>7 DEF RankRetried, Rank, Ranks, Effect, session
<1>8. CASE Restart \/ UNCHANGED vars
  BY <1>8 DEF Restart, vars, Effect
<1> QED BY <1>1, <1>3, <1>4, <1>5, <1>6, <1>7, <1>8 DEF Next, Quiescent

-----------------------------------------------------------------------------
(* Types.                                                                  *)

\* The empty stores are well typed.
LEMMA TypeInit == Init => TypeInv
<1> SUFFICES ASSUME Init PROVE TypeInv
  OBVIOUS
<1>1. StoreTypes
  <2>1. DOMAIN <<>> = {}
    OBVIOUS
  <2> QED BY <2>1, EmptySeq DEF Init, StoreTypes
<1>2. SessionTypes
  BY DEF Init, SessionTypes, PC
<1>3. HistoryTypes
  BY RecordsAssumption DEF Init, HistoryTypes, RecordsAssumption
<1>4. \A s \in Sessions : JobOK(s)
  BY DEF Init, JobOK, Handling, Playing
<1> QED BY <1>1, <1>2, <1>3, <1>4 DEF TypeInv

\* No statement breaks the types of the stores.
LEMMA StoreStep == TypeInv /\ [Next]_vars => StoreTypes'
<1> SUFFICES ASSUME TypeInv, [Next]_vars PROVE StoreTypes'
  OBVIOUS
<1> USE DEF TypeInv, StoreTypes
<1>1. CASE UNCHANGED stores
  BY <1>1 DEF stores
<1>2. ASSUME NEW s \in Sessions, Inserts(s) PROVE StoreTypes'
  <2>1. PICK u \in Users, name \in Names : users' = Put(users, u, name)
    BY <1>2 DEF Inserts
  <2>2. DOMAIN users' \subseteq Users /\ \A v \in DOMAIN users' : users'[v] \in Names
    BY <2>1, PutTypes
  <2> QED BY <1>2, <2>2 DEF Inserts
<1>3. ASSUME NEW s \in Sessions, Saves(s) PROVE StoreTypes'
  <2>1. MatchOf(job[s]) \in Match
    BY <1>3, MatchIsRow DEF Saves
  <2>2. matches' \in Seq(Match)
    BY <1>3, <2>1, AppendProperties DEF Saves
  <2> QED BY <1>3, <2>2 DEF Saves
<1>4. ASSUME NEW s \in Sessions, Ranks(s) PROVE StoreTypes'
  <2>1. job[s].user \in Users /\ job[s].wpm \in Scores /\ found[s] \in Names
    <3>1. UserOf[s] \in Users
      BY RecordsAssumption DEF RecordsAssumption
    <3> QED BY <1>4, <3>1 DEF Ranks, JobOK, Playing
  <2> DEFINE m == Member(found[s], job[s].user)
             k == job[s].wpm
  <2>2. m \in Names \X Users /\ k \in Scores
    BY <2>1 DEF Member
  <2>3. board' = Put(board, m, k)
    BY <1>4 DEF Ranks
  <2> HIDE DEF m, k
  <2>4. DOMAIN Put(board, m, k) \subseteq Names \X Users
    BY <2>2 DEF Put
  <2>5. \A z \in DOMAIN Put(board, m, k) : Put(board, m, k)[z] \in Scores
    BY <2>2 DEF Put
  <2> QED BY <1>4, <2>3, <2>4, <2>5 DEF Ranks
<1> QED BY <1>1, <1>2, <1>3, <1>4, Effects DEF Effect

\* No step breaks the types of the sessions.
LEMMA SessionStep == TypeInv /\ [Next]_vars => SessionTypes'
<1> SUFFICES ASSUME TypeInv, [Next]_vars PROVE SessionTypes'
  OBVIOUS
<1> USE DEF TypeInv, SessionTypes
<1>1. ASSUME NEW s \in Sessions, Connect(s) \/ Disconnect(s) PROVE SessionTypes'
  BY <1>1 DEF Connect, Disconnect, Goto, PC
<1>2. ASSUME NEW s \in Sessions, ReceiveAny(s) PROVE SessionTypes'
  <2>1. received + 1 \in Nat
    BY RecordsAssumption DEF RecordsAssumption, HistoryTypes
  <2>2. PICK m \in Message : Receive(s, m)
    BY <1>2, <2>1, Messages DEF ReceiveAny
  <2> QED BY <2>2 DEF Receive, Goto, PC
<1>3. ASSUME NEW s \in Sessions, CreateGuest(s) PROVE SessionTypes'
  BY <1>3 DEF CreateGuest, Goto, PC
<1>4. ASSUME NEW s \in Sessions, CreateMatch(s) PROVE SessionTypes'
  BY <1>4 DEF CreateMatch, Goto, PC
<1>5. ASSUME NEW s \in Sessions, GetUser(s) PROVE SessionTypes'
  BY <1>5 DEF GetUser, Goto, PC, StoreTypes
<1>6. ASSUME NEW s \in Sessions, UpdateLeaderboard(s) PROVE SessionTypes'
  BY <1>6 DEF UpdateLeaderboard, Goto, PC
<1>7. ASSUME NEW s \in Sessions, Announce(s) PROVE SessionTypes'
  BY <1>7 DEF Announce, Goto, PC
<1>8. ASSUME NEW s \in Sessions, CallFails(s) PROVE SessionTypes'
  BY <1>8 DEF CallFails, Goto, PC
<1>9. CASE Restart
  BY <1>9 DEF Restart, PC
<1>10. ASSUME NEW s \in Sessions, RankRetried(s) PROVE SessionTypes'
  BY <1>10 DEF RankRetried, session
<1>11. CASE UNCHANGED vars
  BY <1>11 DEF vars, session
<1> QED BY <1>1, <1>2, <1>3, <1>4, <1>5, <1>6, <1>7, <1>8, <1>9, <1>10, <1>11 DEF Next, Quiescent

\* A handler keeps working on the message its place is for.
LEMMA JobStep == TypeInv /\ [Next]_vars => \A t \in Sessions : JobOK(t)'
<1> SUFFICES ASSUME TypeInv, [Next]_vars, NEW t \in Sessions PROVE JobOK(t)'
  OBVIOUS
<1> USE DEF TypeInv, SessionTypes, JobOK, Handling, Playing, PC
<1>0. received \in Nat
  BY DEF HistoryTypes
<1>1. ASSUME NEW s \in Sessions, Connect(s) \/ Disconnect(s) PROVE JobOK(t)'
  BY <1>1 DEF Connect, Disconnect, Goto
<1>2. ASSUME NEW s \in Sessions, ReceiveAny(s) PROVE JobOK(t)'
  <2> DEFINE next == received + 1
  <2>1. ASSUME NEW m, Receive(s, m)
        PROVE  /\ received' = received + 1
               /\ t # s => pc'[t] = pc[t] /\ job'[t] = job[t] /\ found'[t] = found[t]
               /\ job'[s] = m
               /\ pc'[s] = CASE m.kind = "join" -> "inserting"
                             [] m.kind = "game_end" -> "saving"
                             [] OTHER -> "announcing"
    BY <2>1 DEF Receive, Goto
  <2>2. ASSUME NEW name \in Names \union {NoName},
               Receive(s, [n |-> next, by |-> s, kind |-> "join", user |-> UserOf[s], name |-> name])
        PROVE  JobOK(t)'
    BY <1>0, <2>1, <2>2, RecordsAssumption DEF RecordsAssumption, GuestNameOf
  <2>3. ASSUME NEW wpm \in Scores,
               Receive(s, [n |-> next, by |-> s, kind |-> "game_end", user |-> UserOf[s], wpm |-> wpm])
        PROVE  JobOK(t)'
    BY <1>0, <2>1, <2>3
  <2>4. ASSUME Receive(s, [n |-> next, by |-> s, kind |-> "other"]) PROVE JobOK(t)'
    BY <1>0, <2>1, <2>4
  <2> QED BY <1>2, <2>2, <2>3, <2>4 DEF ReceiveAny
<1>3. ASSUME NEW s \in Sessions, CreateGuest(s) PROVE JobOK(t)'
  BY <1>3 DEF CreateGuest, Goto
<1>4. ASSUME NEW s \in Sessions, CreateMatch(s) PROVE JobOK(t)'
  BY <1>4 DEF CreateMatch, Goto
<1>5. ASSUME NEW s \in Sessions, GetUser(s) PROVE JobOK(t)'
  BY <1>5 DEF GetUser, Goto, StoreTypes
<1>6. ASSUME NEW s \in Sessions, UpdateLeaderboard(s) PROVE JobOK(t)'
  BY <1>6 DEF UpdateLeaderboard, Goto
<1>7. ASSUME NEW s \in Sessions, Announce(s) PROVE JobOK(t)'
  BY <1>7 DEF Announce, Goto
<1>8. ASSUME NEW s \in Sessions, CallFails(s) PROVE JobOK(t)'
  BY <1>8 DEF CallFails, Goto, Calling
<1>9. CASE Restart
  BY <1>9 DEF Restart
<1>10. ASSUME NEW s \in Sessions, RankRetried(s) PROVE JobOK(t)'
  BY <1>10 DEF RankRetried, session
<1>11. CASE UNCHANGED vars
  BY <1>11 DEF vars, session
<1> QED BY <1>1, <1>2, <1>3, <1>4, <1>5, <1>6, <1>7, <1>8, <1>9, <1>10, <1>11 DEF Next, Quiescent

\* What is cut short are the games of the players whose handlers play.
LEMMA CutShortPlays ==
  ASSUME TypeInv, NEW S, S \subseteq Calling, CutShort(S)
  PROVE  torn' = torn \union {UserOf[s] : s \in {t \in S : pc[t] \in Playing}}
<1>1. \A t \in S : t \in Sessions /\ (job[t].kind = "game_end" <=> pc[t] \in Playing)
  BY DEF Calling, TypeInv, JobOK, Playing
<1>2. \A t \in S : pc[t] \in Playing => job[t].user = UserOf[t]
  BY <1>1 DEF TypeInv, JobOK
<1>3. {job[s].user : s \in {t \in S : job[t].kind = "game_end"}}
        = {UserOf[s] : s \in {t \in S : pc[t] \in Playing}}
  BY <1>1, <1>2
<1> QED BY <1>3 DEF CutShort

\* Counters keep their bounds and the history its types.
LEMMA HistoryStep == TypeInv /\ [Next]_vars => HistoryTypes'
<1> SUFFICES ASSUME TypeInv, [Next]_vars PROVE HistoryTypes'
  OBVIOUS
<1> USE RecordsAssumption DEF RecordsAssumption, TypeInv, HistoryTypes
<1>1. ASSUME NEW s \in Sessions,
             Connect(s) \/ Disconnect(s) \/ CreateMatch(s) \/ GetUser(s) PROVE HistoryTypes'
  BY <1>1 DEF Connect, Disconnect, CreateMatch, GetUser, history
<1>2. ASSUME NEW s \in Sessions, ReceiveAny(s) PROVE HistoryTypes'
  BY <1>2 DEF ReceiveAny, Receive, history
<1>3. ASSUME NEW s \in Sessions, CreateGuest(s) PROVE HistoryTypes'
  BY <1>3 DEF CreateGuest, JobOK
<1>4. ASSUME NEW s \in Sessions, UpdateLeaderboard(s) PROVE HistoryTypes'
  BY <1>4 DEF UpdateLeaderboard
<1>5. ASSUME NEW s \in Sessions, Announce(s) PROVE HistoryTypes'
  <2>1. job[s].n \in 1..MaxMessages
    BY <1>5 DEF Announce, JobOK, Handling, PC
  <2> QED BY <1>5, <2>1 DEF Announce
<1>6. ASSUME NEW s \in Sessions, CallFails(s) PROVE HistoryTypes'
  <2>1. torn' \subseteq Users
    BY <1>6, CutShortPlays DEF CallFails
  <2> QED BY <1>6, <2>1 DEF CallFails
<1>7. CASE Restart
  <2>1. torn' \subseteq Users
    <3>1. CutShort(Calling)
      BY <1>7 DEF Restart
    <3>2. Calling \subseteq Sessions
      BY DEF Calling
    <3> QED BY <3>1, <3>2, CutShortPlays
  <2> QED BY <1>7, <2>1 DEF Restart
<1>8. ASSUME NEW s \in Sessions, RankRetried(s) PROVE HistoryTypes'
  BY <1>8 DEF RankRetried, history
<1>9. CASE UNCHANGED vars
  BY <1>9 DEF vars, history
<1> QED BY <1>1, <1>2, <1>3, <1>4, <1>5, <1>6, <1>7, <1>8, <1>9 DEF Next, Quiescent

\* Typing is inductive.
LEMMA TypeStep == TypeInv /\ [Next]_vars => TypeInv'
BY StoreStep, SessionStep, JobStep, HistoryStep DEF TypeInv

\* Every state is well typed.
THEOREM RecordsTypes == Spec => []TypeOK
<1>1. TypeInv => TypeOK
  BY DEF TypeInv, StoreTypes, SessionTypes, HistoryTypes, TypeOK, Match
<1> QED BY <1>1, TypeInit, TypeStep, PTL DEF Spec

-----------------------------------------------------------------------------
(* The tables only grow.                                                   *)

\* Saving a match adds one row and keeps the others.
LEMMA SaveAddsOne ==
  ASSUME TypeInv, NEW s \in Sessions, Saves(s)
  PROVE  /\ Len(matches) \in Nat /\ DOMAIN matches = 1..Len(matches)
         /\ DOMAIN matches' = 1..(Len(matches) + 1)
         /\ \A i \in DOMAIN matches : matches'[i] = matches[i]
         /\ matches'[Len(matches) + 1] = MatchOf(job[s])
         /\ Len(matches') = Len(matches) + 1
<1>1. matches \in Seq(Match) /\ MatchOf(job[s]) \in Match
  BY MatchIsRow DEF Saves, TypeInv, StoreTypes
<1>2. matches' = Append(matches, MatchOf(job[s]))
  BY DEF Saves
<1> QED BY <1>1, <1>2, AppendProperties, LenProperties

\* No row of users and no row of matches changes or goes away.
RowsGrow ==
  /\ \A u \in DOMAIN users : u \in DOMAIN users' /\ users'[u] = users[u]
  /\ Len(matches) \in Nat /\ DOMAIN matches = 1..Len(matches)
  /\ Len(matches') \in Nat /\ DOMAIN matches' = 1..Len(matches')
  /\ Len(matches) <= Len(matches')
  /\ \A i \in DOMAIN matches : i \in DOMAIN matches' /\ matches'[i] = matches[i]

\* Every step keeps the rows of both tables.
LEMMA StepsGrow == TypeInv /\ [Next]_vars => RowsGrow
<1> SUFFICES ASSUME TypeInv, [Next]_vars PROVE RowsGrow
  OBVIOUS
<1> USE DEF RowsGrow
<1>0. Len(matches) \in Nat /\ DOMAIN matches = 1..Len(matches)
  BY LenProperties DEF TypeInv, StoreTypes
<1>1. CASE UNCHANGED stores
  BY <1>0, <1>1 DEF stores
<1>2. ASSUME NEW s \in Sessions, Inserts(s) PROVE RowsGrow
  <2>1. PICK u \in Users, name \in Names : u \notin DOMAIN users /\ users' = Put(users, u, name)
    BY <1>2 DEF Inserts
  <2>2. \A v \in DOMAIN users : v \in DOMAIN users' /\ users'[v] = users[v]
    BY <2>1 DEF Put
  <2> QED BY <1>0, <1>2, <2>2 DEF Inserts
<1>3. ASSUME NEW s \in Sessions, Saves(s) PROVE RowsGrow
  BY <1>3, SaveAddsOne DEF Saves
<1>4. ASSUME NEW s \in Sessions, Ranks(s) PROVE RowsGrow
  BY <1>0, <1>4 DEF Ranks
<1> QED BY <1>1, <1>2, <1>3, <1>4, Effects DEF Effect

\* A registered user keeps its row and its name, and saved matches stay.
THEOREM KeepsRows == Spec => RowsKept
<1>1. ASSUME TypeInv, [Next]_vars
      PROVE  /\ \A u \in DOMAIN users : u \in DOMAIN users' /\ users'[u] = users[u]
             /\ IsPrefix(matches, matches')
  <2>1. RowsGrow
    BY <1>1, StepsGrow
  <2>2. SubSeq(matches, 1, Len(matches)) = SubSeq(matches', 1, Len(matches))
    <3>1. \A i \in 1..Len(matches) : matches[i] = matches'[i]
      BY <2>1 DEF RowsGrow
    <3> QED BY <2>1, <3>1 DEF RowsGrow
  <2> QED BY <2>1, <2>2 DEF RowsGrow, IsPrefix
<1> QED BY <1>1, TypeInit, TypeStep, PTL DEF Spec, RowsKept

-----------------------------------------------------------------------------
(* What a step may do to a handler.                                        *)

Stays(t) == pc'[t] = pc[t] /\ job'[t] = job[t] /\ found'[t] = found[t]

Leaves(t) == pc'[t] \in {"closed", "reading"} /\ job'[t] = Idle

Begins(t) ==
  /\ pc[t] = "reading" /\ pc'[t] \in {"inserting", "saving", "announcing"}
  /\ job'[t].n = received + 1 /\ received' = received + 1
  /\ pc'[t] = "saving" => job'[t].by = t
  /\ UNCHANGED stores

Finishes(t) ==
  /\ pc[t] \in {"inserting", "saving", "looking", "ranking"} /\ pc'[t] = "announcing"
  /\ job'[t] = job[t]

LooksUp(t) == Saves(t) /\ pc'[t] = "looking" /\ job'[t] = job[t]

Finds(t) ==
  /\ pc[t] = "looking" /\ pc'[t] = "ranking"
  /\ job'[t] = job[t]
  /\ job[t].user \in DOMAIN users /\ found'[t] = users[job[t].user]
  /\ UNCHANGED stores

Moves(t) == Stays(t) \/ Leaves(t) \/ Begins(t) \/ Finishes(t) \/ LooksUp(t) \/ Finds(t)

\* At every step a handler stays where it is or takes the next turn of its
\* control flow.
LEMMA Control == TypeInv /\ [Next]_vars => \A t \in Sessions : Moves(t)
<1> SUFFICES ASSUME TypeInv, [Next]_vars, NEW t \in Sessions PROVE Moves(t)
  OBVIOUS
<1> USE DEF TypeInv, SessionTypes, Moves
<1>1. ASSUME NEW s \in Sessions, Connect(s) \/ Disconnect(s) PROVE Moves(t)
  BY <1>1 DEF Connect, Disconnect, Goto, Stays, Leaves, JobOK
<1>2. ASSUME NEW s \in Sessions, ReceiveAny(s) PROVE Moves(t)
  <2>1. ASSUME NEW m, Receive(s, m), m.n = received + 1, m.by = s PROVE Moves(t)
    BY <2>1 DEF Receive, Goto, Stays, Begins
  <2> QED BY <1>2, <2>1 DEF ReceiveAny
<1>3. ASSUME NEW s \in Sessions, CreateGuest(s) PROVE Moves(t)
  BY <1>3 DEF CreateGuest, Goto, Stays, Finishes
<1>4. ASSUME NEW s \in Sessions, CreateMatch(s) PROVE Moves(t)
  BY <1>4 DEF CreateMatch, Goto, SaveMatch, Stays, Finishes, LooksUp, Saves
<1>5. ASSUME NEW s \in Sessions, GetUser(s) PROVE Moves(t)
  BY <1>5 DEF GetUser, Goto, Stays, Finishes, Finds
<1>6. ASSUME NEW s \in Sessions, UpdateLeaderboard(s) PROVE Moves(t)
  BY <1>6 DEF UpdateLeaderboard, Goto, Stays, Finishes
<1>7. ASSUME NEW s \in Sessions, Announce(s) PROVE Moves(t)
  BY <1>7 DEF Announce, Goto, Stays, Leaves
<1>8. ASSUME NEW s \in Sessions, CallFails(s) PROVE Moves(t)
  BY <1>8 DEF CallFails, Calling, Goto, Stays, Finishes
<1>9. CASE Restart
  BY <1>9 DEF Restart, Leaves
<1>10. ASSUME NEW s \in Sessions, RankRetried(s) PROVE Moves(t)
  BY <1>10 DEF RankRetried, session, Stays
<1>11. CASE UNCHANGED vars
  BY <1>11 DEF vars, session, Stays
<1> QED BY <1>1, <1>2, <1>3, <1>4, <1>5, <1>6, <1>7, <1>8, <1>9, <1>10, <1>11 DEF Next, Quiescent

-----------------------------------------------------------------------------
(* What stands behind the leaderboard.                                     *)

\* Matches belong to registered users (the foreign key of the table).
Registered == \A i \in DOMAIN matches : matches[i].user \in DOMAIN users

\* A handler past the save has a saved match and a registered user, and the
\* name it ranks under is the user's.
BackedJob(s) ==
  /\ pc[s] \in {"looking", "ranking"} =>
       /\ job[s].user \in DOMAIN users
       /\ \E i \in DOMAIN matches :
            matches[i].user = job[s].user /\ matches[i].wpm = job[s].wpm
  /\ pc[s] = "ranking" => found[s] = users[job[s].user]

Backing ==
  /\ TypeInv
  /\ Registered
  /\ \A s \in Sessions : BackedJob(s)
  /\ LeaderboardBacked

\* Nothing is to be backed at first.
LEMMA BackingInit == Init => Backing
<1> SUFFICES ASSUME Init PROVE Backing
  OBVIOUS
<1>1. DOMAIN <<>> = {}
  OBVIOUS
<1> QED BY <1>1, TypeInit DEF Init, Backing, Registered, BackedJob, LeaderboardBacked

\* A match is saved for a registered user only, and users stay.
LEMMA RegisteredStep == Backing /\ [Next]_vars => Registered'
<1> SUFFICES ASSUME Backing, [Next]_vars PROVE Registered'
  OBVIOUS
<1>0. RowsGrow
  BY StepsGrow DEF Backing
<1>1. CASE UNCHANGED matches
  BY <1>0, <1>1 DEF Backing, Registered, RowsGrow
<1>2. ASSUME NEW s \in Sessions, Saves(s) PROVE Registered'
  <2>1. matches'[Len(matches) + 1].user \in DOMAIN users'
    BY <1>2, SaveAddsOne DEF Backing, MatchOf, Saves
  <2>2. \A i \in DOMAIN matches' : i \in DOMAIN matches \/ i = Len(matches) + 1
    BY <1>2, SaveAddsOne DEF Backing
  <2> QED BY <1>0, <2>1, <2>2 DEF Backing, Registered, RowsGrow
<1> QED BY <1>1, <1>2, Effects DEF Backing, Effect, Inserts, Ranks, stores

\* What stands behind a handler stays: rows are not removed and names not changed.
LEMMA BackedJobStep == Backing /\ [Next]_vars => \A t \in Sessions : BackedJob(t)'
<1> SUFFICES ASSUME Backing, [Next]_vars, NEW t \in Sessions PROVE BackedJob(t)'
  OBVIOUS
<1>0. RowsGrow /\ Moves(t)
  BY StepsGrow, Control DEF Backing
<1>1. CASE Stays(t)
  BY <1>0, <1>1 DEF Backing, BackedJob, RowsGrow, Stays
<1>2. CASE Leaves(t) \/ Begins(t) \/ Finishes(t)
  BY <1>2 DEF BackedJob, Leaves, Begins, Finishes
<1>3. CASE LooksUp(t)
  <2>1. matches'[Len(matches) + 1] = MatchOf(job[t]) /\ Len(matches) + 1 \in DOMAIN matches'
    BY <1>3, SaveAddsOne DEF LooksUp, Backing
  <2> QED BY <1>0, <1>3, <2>1 DEF LooksUp, Saves, BackedJob, MatchOf, RowsGrow
<1>4. CASE Finds(t)
  BY <1>4 DEF Finds, stores, Backing, BackedJob
<1> QED BY <1>0, <1>1, <1>2, <1>3, <1>4 DEF Moves

\* A handler that ranks puts up an entry that is backed.
LEMMA BackedStep == Backing /\ [Next]_vars => LeaderboardBacked'
<1> SUFFICES ASSUME Backing, [Next]_vars PROVE LeaderboardBacked'
  OBVIOUS
<1>0. RowsGrow
  BY StepsGrow DEF Backing
<1>1. CASE UNCHANGED board
  BY <1>0, <1>1 DEF Backing, LeaderboardBacked, RowsGrow
<1>2. ASSUME NEW s \in Sessions, Ranks(s) PROVE LeaderboardBacked'
  <2> DEFINE e == Member(found[s], job[s].user)
             k == job[s].wpm
  <2>1. /\ e[2] \in DOMAIN users /\ users[e[2]] = e[1]
        /\ \E i \in DOMAIN matches : matches[i].user = e[2] /\ matches[i].wpm = k
    BY <1>2 DEF Ranks, Backing, BackedJob, Member
  <2>2. board' = Put(board, e, k)
    BY <1>2 DEF Ranks
  <2> HIDE DEF e, k
  <2>3. \A m \in DOMAIN board' : IF m = e THEN board'[m] = k
                                 ELSE m \in DOMAIN board /\ board'[m] = board[m]
    BY <2>2 DEF Put
  <2> QED BY <1>2, <2>1, <2>3 DEF Ranks, Backing, LeaderboardBacked
<1> QED BY <1>1, <1>2, Effects DEF Backing, Effect, Inserts, Saves, stores

\* Backing is inductive.
LEMMA BackingStep == Backing /\ [Next]_vars => Backing'
BY TypeStep, RegisteredStep, BackedJobStep, BackedStep DEF Backing

\* Behind every entry of the leaderboard stand a registered user of that name
\* and a saved match with that score, across failures and exits.
THEOREM BoardIsBacked == Spec => []LeaderboardBacked
<1>1. Backing => LeaderboardBacked
  BY DEF Backing
<1> QED BY <1>1, BackingInit, BackingStep, PTL DEF Spec

-----------------------------------------------------------------------------
(* What is saved, and in which order.                                      *)

\* While one handler works on, the others stay where they are.
LEMMA OneTurn ==
  ASSUME TypeInv, [Next]_vars, NEW s \in Sessions, NEW t \in Sessions, s # t,
         pc'[s] \in Handling
  PROVE  Stays(s) \/ Stays(t)
<1> USE DEF TypeInv, SessionTypes, Stays, Goto
<1>1. ASSUME NEW r \in Sessions,
             \/ Connect(r) \/ Disconnect(r) \/ CreateGuest(r) \/ CreateMatch(r)
             \/ GetUser(r) \/ UpdateLeaderboard(r) \/ Announce(r)
             \/ RankRetried(r) \/ CallFails(r)
      PROVE  Stays(s) \/ Stays(t)
  BY <1>1 DEF Connect, Disconnect, CreateGuest, CreateMatch, GetUser, UpdateLeaderboard,
              Announce, RankRetried, CallFails, session
<1>2. ASSUME NEW r \in Sessions, ReceiveAny(r) PROVE Stays(s) \/ Stays(t)
  <2>1. ASSUME NEW m, Receive(r, m) PROVE Stays(s) \/ Stays(t)
    BY <2>1 DEF Receive
  <2> QED BY <1>2, <2>1 DEF ReceiveAny
<1>3. CASE Restart
  BY <1>3 DEF Restart, Handling
<1>4. CASE UNCHANGED vars
  BY <1>4 DEF vars, session
<1> QED BY <1>1, <1>2, <1>3, <1>4 DEF Next, Quiescent

\* Messages are counted up.
LEMMA Counts == TypeInv /\ [Next]_vars => received' \in {received, received + 1}
<1> SUFFICES ASSUME TypeInv, [Next]_vars PROVE received' \in {received, received + 1}
  OBVIOUS
<1>1. ASSUME NEW s \in Sessions,
             \/ Connect(s) \/ Disconnect(s) \/ ReceiveAny(s) \/ CreateGuest(s) \/ CreateMatch(s)
             \/ GetUser(s) \/ UpdateLeaderboard(s) \/ Announce(s) \/ RankRetried(s) \/ CallFails(s)
      PROVE  received' \in {received, received + 1}
  BY <1>1 DEF Connect, Disconnect, ReceiveAny, Receive, CreateGuest, CreateMatch, GetUser,
              UpdateLeaderboard, Announce, RankRetried, CallFails
<1>2. CASE Restart
  BY <1>2 DEF Restart
<1>3. CASE UNCHANGED vars
  BY <1>3 DEF vars
<1> QED BY <1>1, <1>2, <1>3 DEF Next, Quiescent

\* Saved games are messages that arrived, no two handlers have the same
\* message, and a game that is to be saved is none of the saved ones and later
\* than all of its connection.
Arrived == \A i \in DOMAIN matches : matches[i].from \in 1..received

Distinct == \A s, t \in Sessions : s # t /\ pc[s] \in Handling /\ pc[t] \in Handling => job[s].n # job[t].n

Fresh(s) ==
  pc[s] = "saving" =>
    \A i \in DOMAIN matches : /\ matches[i].from # job[s].n
                              /\ matches[i].by = s => matches[i].from < job[s].n

Ordering ==
  /\ TypeInv
  /\ Arrived
  /\ Distinct
  /\ \A s \in Sessions : Fresh(s)
  /\ SavedOnceInOrder

\* No state has a match or a message at first.
LEMMA OrderingInit == Init => Ordering
<1> SUFFICES ASSUME Init PROVE Ordering
  OBVIOUS
<1>1. DOMAIN <<>> = {}
  OBVIOUS
<1> QED BY <1>1, TypeInit DEF Init, Ordering, Arrived, Distinct, Fresh, SavedOnceInOrder, Handling

\* A saved game is one that arrived.
LEMMA ArrivedStep == Ordering /\ [Next]_vars => Arrived'
<1> SUFFICES ASSUME Ordering, [Next]_vars PROVE Arrived'
  OBVIOUS
<1>0. received \in Nat /\ received' \in {received, received + 1} /\ RowsGrow
  BY Counts, StepsGrow DEF Ordering, TypeInv, HistoryTypes
<1>1. CASE UNCHANGED matches
  BY <1>0, <1>1 DEF Ordering, Arrived
<1>2. ASSUME NEW s \in Sessions, Saves(s) PROVE Arrived'
  <2>1. job[s].n \in 1..received /\ matches'[Len(matches) + 1].from = job[s].n
    BY <1>2, SaveAddsOne DEF Ordering, TypeInv, JobOK, Saves, Handling, PC, MatchOf
  <2>2. \A i \in DOMAIN matches' : i \in DOMAIN matches \/ i = Len(matches) + 1
    BY <1>2, SaveAddsOne DEF Ordering
  <2>3. \A i \in DOMAIN matches' : matches'[i].from \in 1..received
    BY <1>0, <2>1, <2>2 DEF Ordering, Arrived, RowsGrow
  <2> QED BY <1>0, <2>3 DEF Arrived
<1> QED BY <1>1, <1>2, Effects DEF Ordering, Effect, Inserts, Ranks, stores

\* A message that arrives has a number of its own.
LEMMA DistinctStep == Ordering /\ [Next]_vars => Distinct'
<1> SUFFICES ASSUME Ordering, [Next]_vars, NEW s \in Sessions, NEW t \in Sessions, s # t,
                    pc'[s] \in Handling, pc'[t] \in Handling
             PROVE  job'[s].n # job'[t].n
  BY DEF Distinct
<1>1. received \in Nat
  BY DEF Ordering, TypeInv, HistoryTypes
<1>2. ASSUME NEW r \in Sessions, pc'[r] \in Handling
      PROVE  \/ pc[r] \in Handling /\ job'[r] = job[r] /\ job[r].n \in 1..received
             \/ Begins(r) /\ ~ Stays(r)
  <2>1. Moves(r)
    BY Control DEF Ordering
  <2>2. pc[r] \in Handling => job[r].n \in 1..received
    BY DEF Ordering, TypeInv, JobOK
  <2> QED BY <1>2, <2>1, <2>2 DEF Moves, Stays, Leaves, Begins, Finishes, LooksUp, Finds, Saves, Handling, PC
<1>3. Stays(s) \/ Stays(t)
  BY OneTurn DEF Ordering
<1> QED BY <1>1, <1>2, <1>3 DEF Begins, Ordering, Distinct

\* A game that waits to be saved stays later than those of its connection.
LEMMA FreshStep == Ordering /\ [Next]_vars => \A t \in Sessions : Fresh(t)'
<1> SUFFICES ASSUME Ordering, [Next]_vars, NEW t \in Sessions, pc'[t] = "saving" PROVE Fresh(t)'
  BY DEF Fresh
<1>0. received \in Nat /\ RowsGrow /\ Moves(t)
  BY StepsGrow, Control DEF Ordering, TypeInv, HistoryTypes
<1>1. CASE Begins(t)
  <2>1. UNCHANGED matches /\ job'[t].n = received + 1
    BY <1>1 DEF Begins, stores
  <2>2. \A i \in DOMAIN matches : matches[i].from \in 1..received
    BY DEF Ordering, Arrived
  <2> QED BY <1>0, <2>1, <2>2 DEF Fresh
<1>2. CASE Stays(t)
  <2>1. CASE UNCHANGED matches
    BY <1>2, <2>1 DEF Ordering, Fresh, Stays
  <2>2. ASSUME NEW s \in Sessions, Saves(s) PROVE Fresh(t)'
    <3>1. s # t /\ pc[s] \in Handling /\ pc[t] \in Handling
      BY <1>2, <2>2 DEF Saves, Stays, Handling, PC
    <3>2. job[s].n # job[t].n /\ job[s].by = s
      BY <2>2, <3>1 DEF Ordering, Distinct, TypeInv, JobOK, Saves, Playing
    <3>3. /\ matches'[Len(matches) + 1].from # job[t].n
          /\ matches'[Len(matches) + 1].by # t
      <4>1. matches'[Len(matches) + 1] = MatchOf(job[s])
        BY <2>2, SaveAddsOne DEF Ordering
      <4> QED BY <3>1, <3>2, <4>1 DEF MatchOf
    <3>4. \A i \in DOMAIN matches' : i \in DOMAIN matches \/ i = Len(matches) + 1
      BY <2>2, SaveAddsOne DEF Ordering
    <3>5. \A i \in DOMAIN matches : /\ matches'[i].from # job[t].n
                                    /\ matches'[i].by = t => matches'[i].from < job[t].n
      BY <1>0, <1>2 DEF Ordering, Fresh, Stays, RowsGrow
    <3> QED BY <1>2, <3>3, <3>4, <3>5 DEF Fresh, Stays
  <2> QED BY <2>1, <2>2, Effects DEF Ordering, Effect, Inserts, Ranks, stores
<1> QED BY <1>0, <1>1, <1>2 DEF Moves, Leaves, Finishes, LooksUp, Finds, Saves

\* A match is saved after those it must follow.
LEMMA OrderStep == Ordering /\ [Next]_vars => SavedOnceInOrder'
<1> SUFFICES ASSUME Ordering, [Next]_vars PROVE SavedOnceInOrder'
  OBVIOUS
<1>1. CASE UNCHANGED matches
  BY <1>1 DEF Ordering, SavedOnceInOrder
<1>2. ASSUME NEW s \in Sessions, Saves(s) PROVE SavedOnceInOrder'
  <2> SUFFICES ASSUME NEW i \in DOMAIN matches', NEW j \in DOMAIN matches', i < j
               PROVE  /\ matches'[i].from # matches'[j].from
                      /\ matches'[i].by = matches'[j].by => matches'[i].from < matches'[j].from
    BY DEF SavedOnceInOrder
  <2>0. RowsGrow
    BY StepsGrow DEF Ordering
  <2>1. i \in DOMAIN matches /\ (j \in DOMAIN matches \/ j = Len(matches) + 1)
    BY <1>2, SaveAddsOne DEF Ordering
  <2>2. matches'[i] = matches[i]
    BY <2>0, <2>1 DEF RowsGrow
  <2>3. CASE j \in DOMAIN matches
    BY <2>0, <2>1, <2>2, <2>3 DEF RowsGrow, Ordering, SavedOnceInOrder
  <2>4. CASE j = Len(matches) + 1
    <3>1. matches'[j] = MatchOf(job[s]) /\ job[s].by = s
      BY <1>2, <2>4, SaveAddsOne DEF Ordering, TypeInv, JobOK, Saves, Playing
    <3> QED BY <1>2, <2>1, <2>2, <3>1 DEF Saves, Ordering, Fresh, MatchOf
  <2> QED BY <2>1, <2>3, <2>4
<1> QED BY <1>1, <1>2, Effects DEF Ordering, Effect, Inserts, Ranks, stores

\* Ordering is inductive.
LEMMA OrderingStep == Ordering /\ [Next]_vars => Ordering'
BY TypeStep, ArrivedStep, DistinctStep, FreshStep, OrderStep DEF Ordering

\* A game is saved at most once, and the games of a connection in the order
\* they ended, across failed calls and exits.
THEOREM InOrder == Spec => []SavedOnceInOrder
<1>1. Ordering => SavedOnceInOrder
  BY DEF Ordering
<1> QED BY <1>1, OrderingInit, OrderingStep, PTL DEF Spec

-----------------------------------------------------------------------------
(* The leaderboard is current.                                             *)

\* Row i is the latest match of u on connection s.
LatestAt(u, s, i) ==
  /\ i \in DOMAIN matches /\ matches[i].user = u /\ matches[i].by = s
  /\ \A j \in DOMAIN matches : matches[j].user = u /\ matches[j].by = s => j <= i

\* Latest finds that row.
LEMMA LatestIs ==
  ASSUME TypeInv, NEW u, NEW s, NEW i, LatestAt(u, s, i)
  PROVE  Latest(u, s) = i /\ i # 0
<1> DEFINE T == {j \in 1..Len(matches) : matches[j].user = u /\ matches[j].by = s}
<1>1. Len(matches) \in Nat /\ DOMAIN matches = 1..Len(matches)
  BY LenProperties DEF TypeInv, StoreTypes
<1>2. i \in T /\ \A j \in T : j <= i
  BY <1>1 DEF LatestAt
<1>3. T \subseteq 1..Len(matches) /\ T # {}
  BY <1>2
<1>4. Latest(u, s) = Max(T)
  BY <1>3 DEF Latest, SelectLastInSeq
<1>5. \A j \in T : j \in Nat /\ j # 0
  BY <1>1
<1> HIDE DEF T
<1>6. Max(T) \in T /\ \A j \in T : j <= Max(T)
  BY <1>1, <1>3, MaxPosition
<1>7. i \in Nat /\ i # 0 /\ Max(T) \in Nat /\ i <= Max(T) /\ Max(T) <= i
  BY <1>2, <1>5, <1>6
<1> QED BY <1>4, <1>7

Pending == {"looking", "ranking"}

\* What a handler is about to rank is the latest match of its connection.
RanksLatest(s) ==
  pc[s] \in Pending => \E i \in DOMAIN matches : LatestAt(UserOf[s], s, i) /\ matches[i].wpm = job[s].wpm

Current ==
  \A u \in Users :
    ( /\ Saved(u) /\ u \notin torn
      /\ \A s \in Sessions : UserOf[s] = u => pc[s] \notin Pending )
    => /\ Member(users[u], u) \in DOMAIN board
       /\ \E s \in Sessions, i \in DOMAIN matches :
            LatestAt(u, s, i) /\ board[Member(users[u], u)] = matches[i].wpm

Currency ==
  /\ Backing
  /\ \A s \in Sessions : RanksLatest(s)
  /\ Current

\* Nothing is saved and nothing is pending at first.
LEMMA CurrencyInit == Init => Currency
<1> SUFFICES ASSUME Init PROVE Currency
  OBVIOUS
<1>1. DOMAIN <<>> = {}
  OBVIOUS
<1> QED BY <1>1, BackingInit DEF Init, Currency, RanksLatest, Current, Saved, Pending

\* A save by another connection leaves the latest match where it is.
LEMMA OthersLatest ==
  ASSUME TypeInv, NEW r \in Sessions, Saves(r), NEW u, NEW s, NEW i, LatestAt(u, s, i),
         u # UserOf[r] \/ s # r
  PROVE  LatestAt(u, s, i)' /\ matches'[i] = matches[i]
<1>1. matches'[Len(matches) + 1] = MatchOf(job[r])
  BY SaveAddsOne
<1>2. job[r].user = UserOf[r] /\ job[r].by = r
  BY DEF TypeInv, JobOK, Saves, Playing
<1>3. matches'[Len(matches) + 1].user # u \/ matches'[Len(matches) + 1].by # s
  BY <1>1, <1>2 DEF MatchOf
<1>4. /\ \A j \in DOMAIN matches' : j \in DOMAIN matches \/ j = Len(matches) + 1
      /\ \A j \in DOMAIN matches : matches'[j] = matches[j] /\ j \in DOMAIN matches'
  BY SaveAddsOne
<1> QED BY <1>3, <1>4 DEF LatestAt

\* What a handler is about to rank stays the latest of its connection.
LEMMA RanksLatestStep == Currency /\ [Next]_vars => \A t \in Sessions : RanksLatest(t)'
<1> SUFFICES ASSUME Currency, [Next]_vars, NEW t \in Sessions, pc'[t] \in Pending
             PROVE  RanksLatest(t)'
  BY DEF RanksLatest
<1>0. TypeInv /\ Moves(t) /\ RanksLatest(t)
  BY Control DEF Currency, Backing
<1>1. CASE LooksUp(t)
  <2>1. matches'[Len(matches) + 1] = MatchOf(job[t])
    BY <1>0, <1>1, SaveAddsOne DEF LooksUp
  <2>2. job[t].user = UserOf[t] /\ job[t].by = t
    BY <1>0, <1>1 DEF TypeInv, JobOK, LooksUp, Saves, Playing
  <2>3. PICK k \in Nat : k = Len(matches) + 1 /\ DOMAIN matches' = 1..k
    BY <1>0, <1>1, SaveAddsOne DEF LooksUp
  <2>4. matches'[k].user = UserOf[t] /\ matches'[k].by = t /\ matches'[k].wpm = job'[t].wpm
    BY <1>1, <2>1, <2>2, <2>3 DEF LooksUp, MatchOf
  <2>5. k \in DOMAIN matches' /\ \A j \in DOMAIN matches' : j <= k
    BY <2>3
  <2>6. LatestAt(UserOf[t], t, k)'
    BY <2>4, <2>5 DEF LatestAt
  <2> QED BY <2>4, <2>5, <2>6 DEF RanksLatest
<1>2. CASE Stays(t) \/ Finds(t)
  <2>1. PICK i \in DOMAIN matches : LatestAt(UserOf[t], t, i) /\ matches[i].wpm = job[t].wpm
    BY <1>0, <1>2 DEF RanksLatest, Stays, Finds, Pending
  <2>2. job'[t] = job[t]
    BY <1>2 DEF Stays, Finds
  <2>3. CASE UNCHANGED matches
    BY <2>1, <2>2, <2>3 DEF RanksLatest, LatestAt
  <2>4. ASSUME NEW r \in Sessions, Saves(r) PROVE RanksLatest(t)'
    <3>1. t # r
      BY <1>2, <2>4 DEF Stays, Finds, Saves, Pending
    <3>2. LatestAt(UserOf[t], t, i)' /\ matches'[i] = matches[i]
      BY <1>0, <2>1, <2>4, <3>1, OthersLatest
    <3> QED BY <2>1, <2>2, <3>2 DEF RanksLatest, LatestAt
  <2> QED BY <1>0, <2>3, <2>4, Effects DEF Effect, Inserts, Ranks, stores
<1> QED BY <1>0, <1>1, <1>2 DEF Moves, Leaves, Begins, Finishes, Pending

\* A handler that ends without ranking leaves its player among the torn, and
\* only a handler that ranks, and hears of it, takes its player out again.
Torn ==
  /\ torn \subseteq torn'
  /\ \A t \in Sessions :
       /\ pc[t] \in Pending /\ pc'[t] \notin Pending => UserOf[t] \in torn'
       /\ Saves(t) => UserOf[t] \in torn' \/ pc'[t] = "looking"
       /\ Ranks(t) => UserOf[t] \in torn' \/ pc'[t] = "ranking"

Mended(s) ==
  /\ Ranks(s) /\ torn' = torn \ {UserOf[s]}
  /\ \A t \in Sessions \ {s} : pc'[t] = pc[t]

\* Every step leaves the torn users as Torn says, or mends one.
LEMMA Tearing == Backing /\ [Next]_vars => Torn \/ \E s \in Sessions : Mended(s)
<1> SUFFICES ASSUME Backing, [Next]_vars PROVE Torn \/ \E s \in Sessions : Mended(s)
  OBVIOUS
<1> USE DEF Backing, TypeInv, SessionTypes, Goto
<1>1. ASSUME NEW s \in Sessions, Connect(s) \/ Disconnect(s) \/ CreateGuest(s) \/ Announce(s)
      PROVE  Torn
  BY <1>1 DEF Connect, Disconnect, CreateGuest, Announce, history, Torn, Pending, Saves, Ranks
<1>2. ASSUME NEW s \in Sessions, ReceiveAny(s) PROVE Torn
  <2>1. ASSUME NEW m, Receive(s, m) PROVE Torn
    BY <2>1 DEF Receive, history, Torn, Pending, Saves, Ranks
  <2> QED BY <1>2, <2>1 DEF ReceiveAny
<1>3. ASSUME NEW s \in Sessions, CreateMatch(s) PROVE Torn
  BY <1>3 DEF CreateMatch, history, Torn, Pending, Saves, Ranks
<1>4. ASSUME NEW s \in Sessions, GetUser(s) PROVE Torn
  <2>1. job[s].user \in DOMAIN users
    BY <1>4 DEF GetUser, BackedJob
  <2> QED BY <1>4, <2>1 DEF GetUser, history, Torn, Pending, Saves, Ranks
<1>5. ASSUME NEW s \in Sessions, UpdateLeaderboard(s) PROVE Mended(s)
  <2>1. job[s].user = UserOf[s]
    BY <1>5 DEF UpdateLeaderboard, JobOK, Playing
  <2> QED BY <1>5, <2>1 DEF UpdateLeaderboard, Rank, Ranks, Mended
<1>6. ASSUME NEW s \in Sessions, CallFails(s) PROVE Torn
  <2>1. pc[s] \in Playing => UserOf[s] \in torn'
    <3>1. {s} \subseteq Calling /\ CutShort({s})
      BY <1>6 DEF CallFails
    <3>2. torn' = torn \union {UserOf[r] : r \in {t \in {s} : pc[t] \in Playing}}
      BY <3>1, CutShortPlays
    <3> QED BY <3>2
  <2>2. torn \subseteq torn'
    BY <1>6 DEF CallFails, CutShort
  <2> QED BY <1>6, <2>1, <2>2 DEF CallFails, Torn, Pending, Saves, Ranks, Playing
<1>7. CASE Restart
  <2>1. \A t \in Sessions : pc[t] \in Playing => UserOf[t] \in torn'
    <3>1. CutShort(Calling)
      BY <1>7 DEF Restart
    <3>2. torn' = torn \union {UserOf[r] : r \in {t \in Calling : pc[t] \in Playing}}
      BY <3>1, CutShortPlays
    <3> QED BY <3>2 DEF Calling, Playing
  <2>2. torn \subseteq torn'
    BY <1>7 DEF Restart, CutShort
  <2> QED BY <1>7, <2>1, <2>2 DEF Restart, Torn, Pending, Saves, Ranks, Playing
<1>8. ASSUME NEW s \in Sessions, RankRetried(s) PROVE Torn
  BY <1>8 DEF RankRetried, session, history, Torn, Saves, Ranks
<1>9. CASE UNCHANGED vars
  BY <1>9 DEF vars, session, history, Torn, Saves, Ranks
<1> QED BY <1>1, <1>2, <1>3, <1>4, <1>5, <1>6, <1>7, <1>8, <1>9 DEF Next, Quiescent

\* Ranking changes the entry of its own player, to the score of its game.
LEMMA RankedEntry ==
  ASSUME Backing, NEW s \in Sessions, Ranks(s), NEW u \in Users
  PROVE  /\ u = UserOf[s] => /\ Member(users[u], u) \in DOMAIN board'
                             /\ board'[Member(users[u], u)] = job[s].wpm
         /\ u # UserOf[s] /\ Member(users[u], u) \in DOMAIN board =>
              /\ Member(users[u], u) \in DOMAIN board'
              /\ board'[Member(users[u], u)] = board[Member(users[u], u)]
<1> DEFINE e == Member(found[s], job[s].user)
           k == job[s].wpm
           m == Member(users[u], u)
<1>1. job[s].user = UserOf[s] /\ found[s] = users[job[s].user]
  BY DEF Ranks, Backing, BackedJob, TypeInv, JobOK, Playing
<1>2. (u = UserOf[s] => m = e) /\ (u # UserOf[s] => m # e)
  BY <1>1 DEF Member
<1>3. board' = Put(board, e, k)
  BY DEF Ranks
<1> HIDE DEF e, k, m
<1>4. e \in DOMAIN board' /\ board'[e] = k
  BY <1>3 DEF Put
<1>5. \A x \in DOMAIN board : x # e => x \in DOMAIN board' /\ board'[x] = board[x]
  BY <1>3 DEF Put
<1> QED BY <1>2, <1>4, <1>5 DEF k, m

\* The leaderboard stays current.
LEMMA CurrentStep == Currency /\ [Next]_vars => Current'
<1> SUFFICES ASSUME Currency, [Next]_vars, NEW u \in Users, Saved(u)', u \notin torn',
                    \A s \in Sessions : UserOf[s] = u => pc'[s] \notin Pending
             PROVE  /\ Member(users'[u], u) \in DOMAIN board'
                    /\ \E s \in Sessions, i \in DOMAIN matches' :
                         LatestAt(u, s, i)' /\ board'[Member(users'[u], u)] = matches'[i].wpm
  BY DEF Current
<1>0. TypeInv /\ Backing /\ Registered /\ RowsGrow
  BY StepsGrow DEF Currency, Backing
<1> DEFINE Goal == /\ Member(users'[u], u) \in DOMAIN board'
                   /\ \E s \in Sessions, i \in DOMAIN matches' :
                        LatestAt(u, s, i)' /\ board'[Member(users'[u], u)] = matches'[i].wpm
\* The entry before the step, where there was one to speak of.
<1>1. ASSUME Saved(u), u \notin torn, \A s \in Sessions : UserOf[s] = u => pc[s] \notin Pending
      PROVE  /\ u \in DOMAIN users
             /\ Member(users[u], u) \in DOMAIN board
             /\ \E s \in Sessions, i \in DOMAIN matches :
                  LatestAt(u, s, i) /\ board[Member(users[u], u)] = matches[i].wpm
  <2>1. u \in DOMAIN users
    BY <1>0, <1>1 DEF Saved, Registered
  <2> QED BY <1>1, <2>1 DEF Currency, Current
<1>2. ASSUME NEW s \in Sessions, Mended(s) PROVE Goal
  <2>1. UNCHANGED <<users, matches>> /\ Ranks(s) /\ torn' = torn \ {UserOf[s]}
    BY <1>2 DEF Mended, Ranks
  <2>2. CASE u = UserOf[s]
    <3>1. PICK i \in DOMAIN matches : LatestAt(UserOf[s], s, i) /\ matches[i].wpm = job[s].wpm
      BY <2>1 DEF Ranks, Currency, RanksLatest, Pending
    <3>2. LatestAt(u, s, i)'
      BY <2>1, <2>2, <3>1 DEF LatestAt
    <3>3. /\ Member(users[u], u) \in DOMAIN board'
          /\ board'[Member(users[u], u)] = job[s].wpm
      BY <1>0, <2>1, <2>2, RankedEntry
    <3> QED BY <2>1, <3>1, <3>2, <3>3
  <2>3. CASE u # UserOf[s]
    <3>1. Saved(u) /\ u \notin torn
      BY <2>1, <2>3 DEF Saved
    <3>2. \A t \in Sessions : UserOf[t] = u => pc[t] \notin Pending
      BY <1>2, <2>3 DEF Mended
    <3>3. Member(users[u], u) \in DOMAIN board
      BY <1>1, <3>1, <3>2
    <3>4. /\ Member(users[u], u) \in DOMAIN board'
          /\ board'[Member(users[u], u)] = board[Member(users[u], u)]
      BY <1>0, <2>1, <2>3, <3>3, RankedEntry
    <3>5. PICK r \in Sessions, i \in DOMAIN matches :
            LatestAt(u, r, i) /\ board[Member(users[u], u)] = matches[i].wpm
      BY <1>1, <3>1, <3>2
    <3>6. LatestAt(u, r, i)'
      BY <2>1, <3>5 DEF LatestAt
    <3> QED BY <2>1, <3>4, <3>5, <3>6
  <2> QED BY <2>2, <2>3
<1>3. ASSUME Torn PROVE Goal
  <2>1. u \notin torn /\ \A s \in Sessions : UserOf[s] = u => pc[s] \notin Pending
    BY <1>3 DEF Torn
  <2>2. CASE UNCHANGED <<matches, board>>
    <3>1. Saved(u)
      BY <2>2 DEF Saved
    <3>2. PICK r \in Sessions, i \in DOMAIN matches :
            LatestAt(u, r, i) /\ board[Member(users[u], u)] = matches[i].wpm
      BY <1>1, <2>1, <3>1
    <3>3. users'[u] = users[u]
      BY <1>0, <1>1, <2>1, <3>1 DEF RowsGrow
    <3>4. LatestAt(u, r, i)'
      BY <2>2, <3>2 DEF LatestAt
    <3>5. Member(users[u], u) \in DOMAIN board
      BY <1>1, <2>1, <3>1
    <3> QED BY <2>2, <3>2, <3>3, <3>4, <3>5
  <2>3. ASSUME NEW s \in Sessions, Saves(s) PROVE Goal
    <3>1. UserOf[s] # u
      BY <1>3, <2>3 DEF Torn, Pending
    <3>2. Saved(u)
      <4>1. matches'[Len(matches) + 1] = MatchOf(job[s]) /\ job[s].user = UserOf[s]
        BY <1>0, <2>3, SaveAddsOne DEF TypeInv, JobOK, Saves, Playing
      <4>2. matches'[Len(matches) + 1].user # u
        BY <3>1, <4>1 DEF MatchOf
      <4>3. /\ \A j \in DOMAIN matches' : j \in DOMAIN matches \/ j = Len(matches) + 1
            /\ \A j \in DOMAIN matches : matches'[j] = matches[j]
        BY <1>0, <2>3, SaveAddsOne
      <4> QED BY <4>2, <4>3 DEF Saved
    <3>3. PICK r \in Sessions, i \in DOMAIN matches :
            LatestAt(u, r, i) /\ board[Member(users[u], u)] = matches[i].wpm
      BY <1>1, <2>1, <3>2
    <3>4. LatestAt(u, r, i)' /\ matches'[i] = matches[i]
      BY <1>0, <2>3, <3>1, <3>3, OthersLatest
    <3>5. Member(users[u], u) \in DOMAIN board
      BY <1>1, <2>1, <3>2
    <3> QED BY <2>3, <3>3, <3>4, <3>5 DEF Saves, LatestAt
  <2>4. ASSUME NEW s \in Sessions, Ranks(s) PROVE Goal
    <3>1. UserOf[s] # u
      BY <1>3, <2>4 DEF Torn, Pending
    <3>2. UNCHANGED <<users, matches>>
      BY <2>4 DEF Ranks
    <3>3. Saved(u)
      BY <3>2 DEF Saved
    <3>4. Member(users[u], u) \in DOMAIN board
      BY <1>1, <2>1, <3>3
    <3>5. PICK r \in Sessions, i \in DOMAIN matches :
            LatestAt(u, r, i) /\ board[Member(users[u], u)] = matches[i].wpm
      BY <1>1, <2>1, <3>3
    <3>6. LatestAt(u, r, i)'
      BY <3>2, <3>5 DEF LatestAt
    <3>7. /\ Member(users[u], u) \in DOMAIN board'
          /\ board'[Member(users[u], u)] = board[Member(users[u], u)]
      BY <1>0, <2>4, <3>1, <3>4, RankedEntry
    <3> QED BY <3>2, <3>5, <3>6, <3>7
  <2> QED BY <1>0, <2>2, <2>3, <2>4, Effects DEF Effect, Inserts, stores
<1> QED BY <1>0, <1>2, <1>3, Tearing

\* Currency is inductive.
LEMMA CurrencyStep == Currency /\ [Next]_vars => Currency'
BY BackingStep, RanksLatestStep, CurrentStep DEF Currency

\* Once no handler is between a save and its ZADD, and unless a failure cut a
\* match short, the leaderboard shows the latest match of one of the player's
\* connections.
THEOREM BoardIsCurrent == Spec => []LeaderboardCurrent
<1>1. Currency => LeaderboardCurrent
  <2> SUFFICES ASSUME Currency, NEW u \in Users, Saved(u), u \notin torn,
                      \A s \in Sessions : UserOf[s] = u => pc[s] \notin {"looking", "ranking"}
               PROVE  /\ Member(users[u], u) \in DOMAIN board
                      /\ \E s \in Sessions :
                           /\ Latest(u, s) # 0
                           /\ board[Member(users[u], u)] = matches[Latest(u, s)].wpm
    BY DEF LeaderboardCurrent
  <2>1. Member(users[u], u) \in DOMAIN board
    BY DEF Currency, Current, Pending
  <2>2. PICK s \in Sessions, i \in DOMAIN matches :
          LatestAt(u, s, i) /\ board[Member(users[u], u)] = matches[i].wpm
    BY DEF Currency, Current, Pending
  <2>3. Latest(u, s) = i /\ i # 0
    BY <2>2, LatestIs DEF Currency, Backing
  <2> QED BY <2>1, <2>2, <2>3
<1> QED BY <1>1, CurrencyInit, CurrencyStep, PTL DEF Spec

-----------------------------------------------------------------------------
(* The stores implement the ledger.                                        *)

Games == {MatchOf(job[s]) : s \in {t \in Sessions : pc[t] = "saving"}}

ScoreTable == [u \in {m[2] : m \in DOMAIN board} |-> board[CHOOSE m \in DOMAIN board : m[2] = u]]

Ledgered == Backing /\ Ordering

\* The score of a player is that of its one entry.
LEMMA ScoreOfEntry ==
  ASSUME NEW b, \A m1, m2 \in DOMAIN b : m1[2] = m2[2] => m1 = m2, NEW e \in DOMAIN b
  PROVE  (CHOOSE m \in DOMAIN b : m[2] = e[2]) = e
OBVIOUS

\* The games that wait to be saved are told apart by their messages.
LEMMA GamesApart ==
  ASSUME Ledgered, NEW s \in Sessions, pc[s] \in Handling, NEW g \in Games,
         g.from = job[s].n
  PROVE  pc[s] = "saving" /\ g = MatchOf(job[s])
<1>1. PICK t \in Sessions : pc[t] = "saving" /\ g = MatchOf(job[t])
  BY DEF Games
<1>2. g.from = job[t].n
  BY <1>1 DEF MatchOf
<1>3. s = t
  BY <1>1, <1>2 DEF Ledgered, Ordering, Distinct, Handling, PC
<1> QED BY <1>1, <1>3

\* Ranking a game gives its player the game's score and nobody else another.
LEMMA Scored ==
  ASSUME Ledgered, NEW s \in Sessions, Ranks(s)
  PROVE  ScoreTable' = [u \in DOMAIN ScoreTable \union {job[s].user} |->
                          IF u = job[s].user THEN job[s].wpm ELSE ScoreTable[u]]
<1> DEFINE v == job[s].user
           k == job[s].wpm
           e == Member(found[s], v)
<1>1. v \in Users /\ found[s] = users[v] /\ v \in DOMAIN users
  <2>1. UserOf[s] \in Users
    BY RecordsAssumption DEF RecordsAssumption
  <2> QED BY <2>1 DEF Ledgered, Backing, BackedJob, TypeInv, JobOK, Playing, Ranks
<1>2. \A m1, m2 \in DOMAIN board : m1[2] = m2[2] => m1 = m2
  <2> SUFFICES ASSUME NEW m1 \in DOMAIN board, NEW m2 \in DOMAIN board, m1[2] = m2[2]
               PROVE  m1 = m2
    OBVIOUS
  <2>1. m1 \in Names \X Users /\ m2 \in Names \X Users
    BY DEF Ledgered, Backing, TypeInv, StoreTypes
  <2>2. m1[1] = m2[1]
    BY DEF Ledgered, Backing, LeaderboardBacked
  <2> QED BY <2>1, <2>2
<1>3. \A m \in DOMAIN board : m[2] = v => m = e
  <2> SUFFICES ASSUME NEW m \in DOMAIN board, m[2] = v PROVE m = e
    OBVIOUS
  <2>1. m \in Names \X Users /\ users[m[2]] = m[1]
    BY DEF Ledgered, Backing, TypeInv, StoreTypes, LeaderboardBacked
  <2> QED BY <1>1, <2>1 DEF Member
<1>4. e[2] = v
  BY DEF Member
<1>5. board' = Put(board, e, k)
  BY DEF Ranks
<1> HIDE DEF v, k, e
<1>6. /\ DOMAIN board' = DOMAIN board \union {e} /\ board'[e] = k
      /\ \A m \in DOMAIN board : m # e => board'[m] = board[m]
  BY <1>5 DEF Put
<1>7. \A m1, m2 \in DOMAIN board' : m1[2] = m2[2] => m1 = m2
  BY <1>2, <1>3, <1>4, <1>6
<1>8. DOMAIN ScoreTable = {m[2] : m \in DOMAIN board}
  BY DEF ScoreTable
<1>9. {m[2] : m \in DOMAIN board'} = DOMAIN ScoreTable \union {v}
  BY <1>4, <1>6, <1>8
<1>10. \A m \in DOMAIN board : ScoreTable[m[2]] = board[m]
  BY <1>2, ScoreOfEntry DEF ScoreTable
<1>11. \A m \in DOMAIN board' : board'[CHOOSE c \in DOMAIN board' : c[2] = m[2]] = board'[m]
  BY <1>7, ScoreOfEntry
<1>12. \A u \in DOMAIN ScoreTable \union {v} :
         board'[CHOOSE c \in DOMAIN board' : c[2] = u] = IF u = v THEN k ELSE ScoreTable[u]
  <2> TAKE u \in DOMAIN ScoreTable \union {v}
  <2>1. CASE u = v
    BY <1>4, <1>6, <1>11, <2>1
  <2>2. CASE u # v
    <3>1. PICK m \in DOMAIN board : m[2] = u
      BY <1>8, <2>2
    <3>2. m # e
      BY <1>4, <2>2, <3>1
    <3> QED BY <1>6, <1>10, <1>11, <2>2, <3>1, <3>2
  <2> QED BY <2>1, <2>2
<1>13. ScoreTable' = [u \in DOMAIN ScoreTable \union {v} |->
                        IF u = v THEN k ELSE ScoreTable[u]]
  <2> DEFINE D == DOMAIN ScoreTable \union {v}
             G(u) == board'[CHOOSE c \in DOMAIN board' : c[2] = u]
             H(u) == IF u = v THEN k ELSE ScoreTable[u]
  <2>1. ScoreTable' = [u \in D |-> G(u)]
    BY <1>9 DEF ScoreTable
  <2>2. \A u \in D : G(u) = H(u)
    BY <1>12
  <2> HIDE DEF D, G, H
  <2>3. ScoreTable' = [u \in D |-> H(u)]
    BY <2>1, <2>2
  <2> QED BY <2>3 DEF D, H
<1> QED BY <1>13 DEF v, k

\* The open games when one session moves and the others stay.
LEMMA GamesKept ==
  ASSUME NEW s \in Sessions, \A t \in Sessions \ {s} : pc'[t] = pc[t] /\ job'[t] = job[t],
         pc[s] # "saving", pc'[s] # "saving"
  PROVE  Games' = Games
BY DEF Games

\* A game that arrives is open.
LEMMA GamesOpen ==
  ASSUME NEW s \in Sessions, \A t \in Sessions \ {s} : pc'[t] = pc[t] /\ job'[t] = job[t],
         pc[s] # "saving", pc'[s] = "saving"
  PROVE  Games' = Games \union {MatchOf(job'[s])}
BY DEF Games, MatchOf

\* A game that is saved or given up is open no more.
LEMMA GamesClose ==
  ASSUME Ledgered, NEW s \in Sessions, pc[s] = "saving", pc'[s] # "saving",
         \A t \in Sessions \ {s} : pc'[t] = pc[t] /\ job'[t] = job[t]
  PROVE  MatchOf(job[s]) \in Games /\ Games' = Games \ {MatchOf(job[s])}
<1>1. MatchOf(job[s]) \in Games
  BY DEF Games
<1>2. Games' = {MatchOf(job[t]) : t \in {r \in Sessions : pc[r] = "saving" /\ r # s}}
  BY DEF Games, MatchOf
<1>3. \A t \in Sessions : pc[t] = "saving" /\ t # s => MatchOf(job[t]) # MatchOf(job[s])
  BY DEF Ledgered, Ordering, Distinct, Handling, PC, MatchOf
<1> QED BY <1>1, <1>2, <1>3 DEF Games

\* A step of the ledger; giving up no game at all is one too.
LedgerStep == LedgerView!Next

\* Saving a match enters an open game.
LEMMA LedgerEnters ==
  ASSUME NEW g \in Games, matches' = Append(matches, g), Games' = Games \ {g},
         UNCHANGED <<received, board, announced>>
  PROVE  LedgerStep
<1>1. UNCHANGED ScoreTable
  BY DEF ScoreTable
<1> QED BY <1>1 DEF LedgerStep, LedgerView!Next, LedgerView!Enter, Games, ScoreTable

\* Giving up open games, or none, is a step of the ledger.
LEMMA LedgerAbandons ==
  ASSUME Games' \subseteq Games, UNCHANGED <<received, matches, board, announced>>
  PROVE  LedgerStep
<1>1. UNCHANGED ScoreTable
  BY DEF ScoreTable
<1> QED BY <1>1 DEF LedgerStep, LedgerView!Next, LedgerView!Abandon, Games, ScoreTable

\* Ranking a saved match scores an entry.
LEMMA LedgerScores ==
  ASSUME Ledgered, NEW s \in Sessions, Ranks(s), Games' = Games,
         UNCHANGED <<received, announced>>
  PROVE  LedgerStep
<1>1. PICK i \in DOMAIN matches :
        matches[i].user = job[s].user /\ matches[i].wpm = job[s].wpm
  BY DEF Ledgered, Backing, BackedJob, Ranks
<1>2. ScoreTable' = [u \in DOMAIN ScoreTable \union {matches[i].user} |->
                       IF u = matches[i].user THEN matches[i].wpm ELSE ScoreTable[u]]
  BY <1>1, Scored
<1>3. UNCHANGED matches
  BY DEF Ranks
<1> QED BY <1>2, <1>3 DEF LedgerStep, LedgerView!Next, LedgerView!Score, Games, ScoreTable

\* Every step of the stores is a step of the ledger.
LEMMA LedgerImplemented == Ledgered /\ [Next]_vars => LedgerStep
<1> SUFFICES ASSUME Ledgered, [Next]_vars PROVE LedgerStep
  OBVIOUS
<1>0. TypeInv /\ SessionTypes
  BY DEF Ledgered, Backing, TypeInv
<1> USE DEF SessionTypes, Goto
<1>1. ASSUME NEW s \in Sessions, Connect(s) \/ Disconnect(s) \/ CreateGuest(s) \/ GetUser(s)
      PROVE  LedgerStep
  <2>1. Games' = Games
    BY <1>0, <1>1, GamesKept DEF Connect, Disconnect, CreateGuest, GetUser
  <2> QED BY <1>1, <2>1, LedgerAbandons
          DEF Connect, Disconnect, CreateGuest, GetUser, stores, history
<1>2. ASSUME NEW s \in Sessions, NEW m, Receive(s, m), m.n = received + 1, m.by = s
      PROVE  LedgerStep
  <2>1. /\ pc[s] = "reading" /\ job'[s] = m /\ received' = received + 1
        /\ \A t \in Sessions \ {s} : pc'[t] = pc[t] /\ job'[t] = job[t]
        /\ UNCHANGED <<matches, board, announced>>
    BY <1>0, <1>2 DEF Receive, stores, history
  <2>2. UNCHANGED ScoreTable
    BY <2>1 DEF ScoreTable
  <2>3. CASE pc'[s] # "saving"
    <3>1. Games' = Games
      BY <2>1, <2>3, GamesKept
    <3> QED BY <2>1, <2>2, <3>1 DEF LedgerStep, LedgerView!Next, LedgerView!Receive, Games, ScoreTable
  <2>4. CASE pc'[s] = "saving"
    <3> DEFINE g == MatchOf(m)
    <3>1. Games' = Games \union {g}
      BY <2>1, <2>4, GamesOpen
    <3>2. g.from = received' /\ g.by = s
      BY <1>2, <2>1 DEF MatchOf
    <3>3. \A h \in Games : h.by # s
      BY <1>0, <2>1 DEF Games, MatchOf, TypeInv, JobOK, Playing
    <3>4. /\ g \in Games'
          /\ g.from = received'
          /\ \A h \in Games : h.by # g.by
      BY <3>1, <3>2, <3>3
    <3> HIDE DEF g
    <3>5. \E x \in Games' : /\ x.from = received'
                            /\ \A h \in Games : h.by # x.by
                            /\ Games' = Games \union {x}
      BY <3>1, <3>4
    <3> QED BY <2>1, <2>2, <3>5 DEF LedgerStep, LedgerView!Next, LedgerView!Play, Games, ScoreTable
  <2> QED BY <2>3, <2>4
<1>3. ASSUME NEW s \in Sessions, CreateMatch(s) PROVE LedgerStep
  <2>1. MatchOf(job[s]) \in Games /\ Games' = Games \ {MatchOf(job[s])}
    BY <1>0, <1>3, GamesClose DEF CreateMatch
  <2>2. CASE SaveMatch(job[s])
    BY <1>3, <2>1, <2>2, LedgerEnters DEF CreateMatch, SaveMatch, history
  <2>3. CASE UNCHANGED matches
    BY <1>3, <2>1, <2>3, LedgerAbandons DEF CreateMatch, history
  <2> QED BY <1>3, <2>2, <2>3 DEF CreateMatch
<1>4. ASSUME NEW s \in Sessions, UpdateLeaderboard(s) PROVE LedgerStep
  <2>1. Games' = Games
    BY <1>0, <1>4, GamesKept DEF UpdateLeaderboard
  <2>2. Ranks(s)
    BY <1>0, <1>4 DEF UpdateLeaderboard, Rank, Ranks
  <2> QED BY <1>4, <2>1, <2>2, LedgerScores DEF UpdateLeaderboard
<1>5. ASSUME NEW s \in Sessions, Announce(s) PROVE LedgerStep
  <2>1. Games' = Games
    BY <1>0, <1>5, GamesKept DEF Announce
  <2>2. job[s].n \in 1..received
    BY <1>0, <1>5 DEF Announce, TypeInv, JobOK, Handling, PC
  <2>3. \A g \in Games : g.from # job[s].n
    BY <1>5, GamesApart DEF Announce, Handling, PC
  <2>4. UNCHANGED <<received, matches, board>> /\ announced' = announced \union {job[s].n}
    BY <1>5 DEF Announce, stores
  <2>5. UNCHANGED ScoreTable
    BY <2>4 DEF ScoreTable
  <2> QED BY <2>1, <2>2, <2>3, <2>4, <2>5
          DEF LedgerStep, LedgerView!Next, LedgerView!Hear, Games, ScoreTable
<1>6. ASSUME NEW s \in Sessions, CallFails(s) PROVE LedgerStep
  <2>1. /\ pc[s] \in {"inserting", "saving", "looking", "ranking"} /\ pc'[s] = "announcing"
        /\ \A t \in Sessions \ {s} : pc'[t] = pc[t] /\ job'[t] = job[t]
        /\ MayTakeEffect(s) /\ UNCHANGED <<received, announced>>
    BY <1>0, <1>6 DEF CallFails, Calling
  <2>2. Games' = IF pc[s] = "saving" THEN Games \ {MatchOf(job[s])} ELSE Games
    BY <2>1, GamesKept, GamesClose
  <2>3. CASE UNCHANGED <<matches, board>>
    BY <2>1, <2>2, <2>3, LedgerAbandons
  <2>4. CASE pc[s] = "saving" /\ SaveMatch(job[s]) /\ UNCHANGED board
    <3>1. MatchOf(job[s]) \in Games
      BY <2>4 DEF Games
    <3> QED BY <2>1, <2>2, <2>4, <3>1, LedgerEnters DEF SaveMatch
  <2>5. CASE pc[s] = "ranking" /\ Rank(s) /\ UNCHANGED <<users, matches>>
    <3>1. Ranks(s) /\ Games' = Games
      BY <2>1, <2>2, <2>5 DEF Rank, Ranks
    <3> QED BY <2>1, <3>1, LedgerScores
  <2> QED BY <2>1, <2>3, <2>4, <2>5 DEF MayTakeEffect, stores
<1>7. CASE Restart
  <2>1. Games' \subseteq Games
    BY <1>7 DEF Restart, Games
  <2> QED BY <1>7, <2>1, LedgerAbandons DEF Restart, stores
<1>8. CASE UNCHANGED vars
  <2>1. UNCHANGED Games
    BY <1>8 DEF vars, session, Games
  <2> QED BY <1>8, <2>1, LedgerAbandons DEF vars, stores, history
<1>9. ASSUME NEW s \in Sessions, ReceiveAny(s) PROVE LedgerStep
  BY <1>2, <1>9 DEF ReceiveAny
<1>10. ASSUME NEW s \in Sessions, RankRetried(s) PROVE LedgerStep
  <2>1. Ranks(s) /\ Games' = Games
    BY <1>10 DEF RankRetried, Rank, Ranks, session, Games
  <2> QED BY <1>10, <2>1, LedgerScores DEF RankRetried, history
<1> QED BY <1>1, <1>3, <1>4, <1>5, <1>6, <1>7, <1>8, <1>9, <1>10 DEF Next, Quiescent

\* The ledger starts empty.
LEMMA LedgerInit == Init => LedgerView!Init
<1> SUFFICES ASSUME Init PROVE LedgerView!Init
  OBVIOUS
<1>1. Games = {}
  BY DEF Init, Games
<1>2. ScoreTable = <<>>
  BY DEF Init, ScoreTable
<1> QED BY <1>1, <1>2 DEF Init, LedgerView!Init, Games, ScoreTable

\* Seen from outside, the stores are a ledger: a game is entered once or given
\* up, scores are entries, and a game is broadcast only when it is decided.
THEOREM StoresAreALedger == Spec => ImplementsLedger
<1>1. Init => Ledgered
  BY BackingInit, OrderingInit DEF Ledgered
<1>2. Ledgered /\ [Next]_vars => Ledgered'
  BY BackingStep, OrderingStep DEF Ledgered
<1>3. LedgerStep => [LedgerView!Next]_(LedgerView!vars)
  BY DEF LedgerStep
<1> QED BY <1>1, <1>2, <1>3, LedgerInit, LedgerImplemented, PTL
        DEF Spec, ImplementsLedger, LedgerView!Spec

=============================================================================
