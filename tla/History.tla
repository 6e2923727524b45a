------------------------------ MODULE History -------------------------------
(***************************************************************************)
(* The profile page (ProfilePage.tsx) and the history it asks for: GET     *)
(* /api/history (server.go) reads a player's newest matches from Postgres  *)
(* (match_repo.go), the page computes averages from them and, with         *)
(* gamification.ts, a level and the achievements that are unlocked.        *)
(*                                                                         *)
(* Nothing ties an answer to the state of the page: several requests may   *)
(* be in flight (REFRESH is never disabled, the page can be left and       *)
(* opened again), the answers arrive in any order, and matches are saved   *)
(* meanwhile (Records!CreateMatch).                                        *)
(***************************************************************************)
EXTENDS Naturals, Sequences, SequencesExt

CONSTANTS
  null,         \* JSON's null
  Limit,        \* rows asked for by handleGetHistory (50)
  MatchGoals,   \* totalMatches that unlock an achievement (10, 50, 100)
  SpeedGoals,   \* avgWpm that unlocks an achievement (60, 100)
  LEVELS,       \* minWpm of the levels, in order (0, 30, ..., 150)
  Scores,       \* words per minute
  MaxMatches,   \* bound: matches the player saves
  MaxFetches    \* bound: calls of fetchHistory

ASSUME HistoryAssumption ==
  /\ Limit \in Nat /\ MatchGoals \subseteq Nat /\ SpeedGoals \subseteq Nat
  /\ LEVELS \in Seq(Nat) /\ LEVELS # <<>> /\ LEVELS[1] = 0
  /\ \A i, j \in DOMAIN LEVELS : i < j => LEVELS[i] < LEVELS[j]
  /\ Scores \subseteq Nat /\ MaxMatches \in Nat /\ MaxFetches \in Nat
  /\ null \notin Seq(Scores)

VARIABLES
  table,     \* wpm of the player's rows of table matches, in the order of created_at
  page,      \* ProfilePage: "closed" | "open" (mounted)
  visit,     \* how many times the page has been opened
  fetches,   \* number of calls of fetchHistory
  requests,  \* the requests that the page has not had an answer to
  history,   \* the page's state: wpm of the matches shown
  loading,   \* the page's state
  basis,     \* history variable: the request whose answer is shown
  ordered    \* history variable: this visit's answers were whole and came in the
             \* order in which the backend read them

vars == <<table, page, visit, fetches, requests, history, loading, basis, ordered>>

Unanswered == [status |-> "none"]
Failure == [status |-> "error"]
Success(body) == [status |-> "ok", body |-> body]

NoRequest == [id |-> 0, asked |-> 0, read |-> 0, whole |-> TRUE]

\* The player may have played before.
Init ==
  /\ \E n \in 0..MaxMatches, wpm \in Scores : table = [i \in 1..n |-> wpm]
  /\ page = "closed" /\ visit = 0 /\ fetches = 0 /\ requests = {}
  /\ history = <<>> /\ loading = TRUE
  /\ basis = NoRequest /\ ordered = TRUE

\* A match of the player is saved: by this browser, late, or by another tab.
SaveMatch(wpm) ==
  /\ Len(table) < MaxMatches
  /\ table' = Append(table, wpm)
  /\ UNCHANGED <<page, visit, fetches, requests, history, loading, basis, ordered>>

-----------------------------------------------------------------------------
(* The page.                                                               *)

\* fetchHistory.  The model's own: asked and read, the number of rows when the
\* request was made and when it was answered, and whole, were none left out?
FetchHistory(v) ==
  /\ fetches < MaxFetches
  /\ fetches' = fetches + 1
  /\ loading' = TRUE
  /\ requests' = requests \union
       {[id |-> fetches + 1, visit |-> v, asked |-> Len(table), read |-> 0,
         whole |-> TRUE, reply |-> Unanswered]}

\* Mounting: the state has useState's initial values; then the effect runs.
OpenPage ==
  /\ page = "closed"
  /\ page' = "open"
  /\ visit' = visit + 1
  /\ FetchHistory(visit + 1)
  /\ UNCHANGED <<table, history, basis, ordered>>

Refresh ==
  /\ page = "open"
  /\ FetchHistory(visit)
  /\ UNCHANGED <<table, page, visit, history, basis, ordered>>

\* BACK_TO_ARENA: the component and its state are gone, its requests are not.
ClosePage ==
  /\ page = "open"
  /\ page' = "closed"
  /\ history' = <<>> /\ loading' = TRUE /\ basis' = NoRequest /\ ordered' = TRUE
  /\ UNCHANGED <<table, visit, fetches, requests>>

-----------------------------------------------------------------------------
(* The backend.                                                            *)

GetMatchesOldest(t) == SubSeq(t, 1, IF Limit <= Len(t) THEN Limit ELSE Len(t))

GetMatchesOneLess(t) ==
  LET n == IF Limit <= Len(t) THEN Limit ELSE Len(t) IN
  SubSeq(Reverse(t), 1, IF n = Limit THEN n - 1 ELSE n)

\* ORDER BY created_at DESC LIMIT.
GetMatchesByUserID(t) == SubSeq(Reverse(t), 1, IF Limit <= Len(t) THEN Limit ELSE Len(t))

\* A slice that nothing was appended to is nil, which encodes as null.
Encode(rows) == IF rows = <<>> THEN null ELSE rows

Answered(r, reply, whole) ==
  /\ r.reply = Unanswered
  /\ requests' = (requests \ {r}) \union
       {[r EXCEPT !.reply = reply, !.read = Len(table), !.whole = whole]}
  /\ UNCHANGED <<table, page, visit, fetches, history, loading, basis, ordered>>

HandleGetHistory(r) == Answered(r, Success(Encode(GetMatchesByUserID(table))), TRUE)

\* The connection to Postgres fails while rows are read: rows.Next returns
\* false, rows.Err is not asked, and the rows so far are a good answer.
HandleGetHistoryCut(r) ==
  \E n \in 1..Len(GetMatchesByUserID(table)) :
    Answered(r, Success(Encode(SubSeq(GetMatchesByUserID(table), 1, n - 1))), FALSE)

\* The query or a Scan fails (500, not JSON), or no answer comes.
HandleGetHistoryFails(r) == Answered(r, Failure, TRUE)

-----------------------------------------------------------------------------
(* Answers.                                                                *)

\* A setter of a component that is no longer mounted does nothing.
Forget(r) ==
  /\ requests' = requests \ {r}
  /\ UNCHANGED <<table, page, visit, fetches>>

OwnPage(r) == page = "open" /\ r.visit = visit

Orphan(r) ==
  /\ r.reply # Unanswered
  /\ ~OwnPage(r)
  /\ Forget(r)
  /\ UNCHANGED <<history, loading, basis, ordered>>

DecodeRaw(body) == body

\* data || [].
Decode(body) == IF body = null THEN <<>> ELSE body

\* setHistory, setLoading.
Arrive(r) ==
  /\ r.reply.status = "ok"
  /\ OwnPage(r)
  /\ Forget(r)
  /\ history' = Decode(r.reply.body)
  /\ loading' = FALSE
  /\ basis' = [id |-> r.id, asked |-> r.asked, read |-> r.read, whole |-> r.whole]
  /\ ordered' = (ordered /\ r.whole /\ basis.read <= r.read)

ArriveErrorSpins(r) ==
  /\ r.reply = Failure
  /\ OwnPage(r)
  /\ Forget(r)
  /\ UNCHANGED <<history, loading, basis, ordered>>

ArriveErrorClears(r) ==
  /\ r.reply = Failure
  /\ OwnPage(r)
  /\ Forget(r)
  /\ history' = <<>>
  /\ loading' = FALSE
  /\ UNCHANGED <<basis, ordered>>

\* The catch: fetch or res.json() rejected; what is shown stays.
ArriveError(r) ==
  /\ r.reply = Failure
  /\ OwnPage(r)
  /\ Forget(r)
  /\ loading' = FALSE
  /\ UNCHANGED <<history, basis, ordered>>

-----------------------------------------------------------------------------
(* What the page computes from its state.                                  *)

totalMatches == Len(history)

Sum == FoldLeft(LAMBDA acc, wpm : acc + wpm, 0, history)

AvgFloor == IF totalMatches = 0 THEN 0 ELSE Sum \div totalMatches

AvgOfLimit == IF totalMatches = 0 THEN 0 ELSE (2 * Sum + Limit) \div (2 * Limit)

\* Math.round(sum / total): halves go up.
avgWpm == IF totalMatches = 0 THEN 0 ELSE (2 * Sum + totalMatches) \div (2 * totalMatches)

maxWpm == IF totalMatches = 0 THEN 0 ELSE Max(ToSet(history))

\* LEVELS.slice().reverse().find(l => wpm >= l.minWpm) || LEVELS[0].
CalculateLevel(wpm) ==
  LET i == SelectInSeq(Reverse(LEVELS), LAMBDA l : wpm >= l)
  IN IF i = 0 THEN LEVELS[1] ELSE Reverse(LEVELS)[i]

\* getUnlockedAchievements: those for matches, and those for the average.
MatchesUnlocked == {g \in MatchGoals : totalMatches >= g}
SpeedsUnlocked == {g \in SpeedGoals : avgWpm >= g}

-----------------------------------------------------------------------------
Handled(i) ==
  \E r \in requests :
    /\ r.id = i
    /\ \/ HandleGetHistory(r) \/ HandleGetHistoryCut(r) \/ HandleGetHistoryFails(r)
       \/ Arrive(r) \/ ArriveError(r) \/ Orphan(r)

Next ==
  \/ \E wpm \in Scores : SaveMatch(wpm)
  \/ OpenPage \/ Refresh \/ ClosePage
  \/ \E r \in requests :
       \/ HandleGetHistory(r) \/ HandleGetHistoryCut(r) \/ HandleGetHistoryFails(r)
       \/ Arrive(r) \/ ArriveError(r) \/ Orphan(r)

Spec == Init /\ [][Next]_vars

\* A fetch settles: the browser gives up a request that is never answered.
FairSpec == Spec /\ \A i \in 1..MaxFetches : WF_vars(Handled(i))

-----------------------------------------------------------------------------
(* Properties.                                                             *)

Reply ==
  {Unanswered, Failure} \union [status : {"ok"}, body : {null} \union Seq(Scores)]

\* Types; in particular the page never gets null to compute with.
TypeOK ==
  /\ table \in Seq(Scores) /\ Len(table) <= MaxMatches
  /\ page \in {"closed", "open"} /\ visit \in 0..fetches /\ fetches \in 0..MaxFetches
  /\ requests \subseteq
       [id : 1..fetches, visit : 1..visit, asked : 0..Len(table), read : 0..Len(table),
        whole : BOOLEAN, reply : Reply]
  /\ history \in Seq(Scores) /\ loading \in BOOLEAN
  /\ basis \in [id : 0..fetches, asked : 0..Len(table), read : 0..Len(table), whole : BOOLEAN]
  /\ ordered \in BOOLEAN

\* The newest Limit rows after the first k saves, newest first.
NewestAt(k) == [i \in 1..(IF Limit <= k THEN Limit ELSE k) |-> table[k + 1 - i]]

\* Unless the rows were cut short, the page shows the player's newest matches
\* of one moment, and that moment is no earlier than the request it answers:
\* an answer that comes late, or for a page closed since, never mixes with
\* another one or shows an older state than was asked for.
ShownIsOneMoment ==
  (page = "open" /\ basis.whole) => \E k \in basis.asked..Len(table) : history = NewestAt(k)

\* An achievement for a number of matches is unlocked exactly from that
\* number on: no later than the answer to the request that follows the match
\* and not before it is saved, for every goal within the limit of the query.
Unlocks(goals) ==
  (page = "open" /\ basis.whole) =>
    \A g \in goals : /\ basis.asked >= g => g \in MatchesUnlocked
                     /\ g \in MatchesUnlocked => Len(table) >= g

GoalsUnlocked == Unlocks({g \in MatchGoals : g <= Limit})

\* Within a visit achievements for matches are not lost again, whatever
\* requests fail, as long as answers are whole and come in the order in
\* which the backend read them.
UnlocksKept ==
  [][page = "open" /\ page' = "open" /\ visit' = visit /\ ordered' =>
       MatchesUnlocked \subseteq MatchesUnlocked']_vars

\* "The highest level where minWpm <= wpm" (gamification.ts:65), of the
\* rounded average, stated without a division: l <= sum/total + 1/2.
LevelExact ==
  LET reached == {i \in DOMAIN LEVELS :
                    2 * totalMatches * LEVELS[i] <= 2 * Sum + totalMatches}
  IN totalMatches > 0 =>
       \E i \in reached : /\ CalculateLevel(avgWpm) = LEVELS[i]
                          /\ \A j \in reached : j <= i

\* Rounding and the number of rows play no tricks on an achievement for speed:
\* it is not unlocked unless the TOP_WPM beside it reaches it, and it is when
\* every match shown does.
SpeedsReached ==
  totalMatches > 0 =>
    \A g \in SpeedGoals :
      /\ g \in SpeedsUnlocked => maxWpm >= g
      /\ (\A i \in DOMAIN history : history[i] >= g) => g \in SpeedsUnlocked

\* The page does not stay in its loading state, also when requests fail.
LoadingEnds == (page = "open" /\ loading) ~> (page = "closed" \/ ~loading)

\* Every achievement can be had: "Complete 100 matches" (gamification.ts:44)
\* is unlocked by 100 saved matches.
EveryGoalUnlocked == Unlocks(MatchGoals)

=============================================================================
