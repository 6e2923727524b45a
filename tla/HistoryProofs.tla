---------------------------- MODULE HistoryProofs ---------------------------
(***************************************************************************)
(* Theorems about History, for any limit, levels and goals, any number of  *)
(* matches and any number of requests in flight.                           *)
(***************************************************************************)
EXTENDS History, Induction

-----------------------------------------------------------------------------
(* Rows.                                                                   *)

\* What the query returns are the newest rows, newest first.
LEMMA NewestRows ==
  ASSUME TypeOK
  PROVE  /\ GetMatchesByUserID(table) = NewestAt(Len(table))
         /\ GetMatchesByUserID(table) \in Seq(Scores)
         /\ Len(GetMatchesByUserID(table)) = IF Limit <= Len(table) THEN Limit ELSE Len(table)
<1> DEFINE n == Len(table)
           m == IF Limit <= n THEN Limit ELSE n
           rows == Reverse(table)
<1>1. table \in Seq(Scores) /\ n \in Nat /\ DOMAIN table = 1..n /\ \A i \in 1..n : table[i] \in Scores
  BY LenProperties DEF TypeOK
<1>2. m \in 0..n
  BY <1>1, HistoryAssumption DEF HistoryAssumption
<1>3. /\ rows = [i \in 1..n |-> table[(n - i) + 1]]
      /\ \A i \in 1..n : rows[i] = table[(n - i) + 1] /\ rows[i] \in Scores
  BY <1>1 DEF Reverse
<1>4. GetMatchesByUserID(table) = SubSeq(rows, 1, m)
  BY DEF GetMatchesByUserID
<1> HIDE DEF rows, m, n
<1>5. /\ SubSeq(rows, 1, m) \in Seq(Scores)
      /\ Len(SubSeq(rows, 1, m)) = m
      /\ \A i \in 1..m : SubSeq(rows, 1, m)[i] = rows[i]
  <2>1. \A i \in 1..m : rows[i] \in Scores
    BY <1>1, <1>2, <1>3
  <2>2. 1 \in Int /\ m \in Int
    BY <1>1, <1>2
  <2>3. /\ SubSeq(rows, 1, m) \in Seq(Scores)
        /\ Len(SubSeq(rows, 1, m)) = (IF 1 <= m THEN m - 1 + 1 ELSE 0)
        /\ \A i \in 1..(m - 1 + 1) : SubSeq(rows, 1, m)[i] = rows[1 + i - 1]
    BY <2>1, <2>2, SubSeqProperties
  <2> QED BY <1>1, <1>2, <2>3
<1>6. SubSeq(rows, 1, m) = [i \in 1..m |-> table[n + 1 - i]]
  <2>1. \A i \in 1..m : rows[i] = table[n + 1 - i]
    BY <1>1, <1>2, <1>3
  <2>2. SubSeq(rows, 1, m) \in [1..m -> Scores]
    BY <1>5, LenProperties
  <2> QED BY <1>5, <2>1, <2>2
<1> QED BY <1>4, <1>5, <1>6 DEF NewestAt, m, n

\* The newest rows at an earlier moment: a list of known length.
LEMMA NewestList ==
  ASSUME TypeOK, NEW k \in 0..Len(table)
  PROVE  /\ NewestAt(k) \in Seq(Scores)
         /\ Len(NewestAt(k)) = IF Limit <= k THEN Limit ELSE k
<1> DEFINE m == IF Limit <= k THEN Limit ELSE k
           f == NewestAt(k)
<1>1. m \in Nat /\ m <= k
  BY HistoryAssumption, LenProperties DEF HistoryAssumption, TypeOK
<1>2. f \in [1..m -> Scores]
  <2>1. Len(table) \in Nat /\ \A i \in 1..Len(table) : table[i] \in Scores
    BY LenProperties DEF TypeOK
  <2>2. \A i \in 1..m : k + 1 - i \in 1..Len(table)
    BY <1>1, <2>1
  <2>3. f = [i \in 1..m |-> table[k + 1 - i]]
    BY DEF NewestAt
  <2> HIDE DEF f, m
  <2> QED BY <2>1, <2>2, <2>3
<1> HIDE DEF f, m
<1>3. f \in Seq(Scores) /\ Len(f) = m
  BY <1>1, <1>2, FunctionIsSeq
<1> QED BY <1>3 DEF f, m

\* Rows of the past stay.
LEMMA NewestKept ==
  ASSUME TypeOK, [Next]_vars, NEW k \in 0..Len(table)
  PROVE  NewestAt(k)' = NewestAt(k) /\ Len(table) \in Nat /\ Len(table)' >= Len(table)
<1>1. table \in Seq(Scores) /\ Len(table) \in Nat
  BY LenProperties DEF TypeOK
<1>2. CASE UNCHANGED table
  BY <1>1, <1>2 DEF NewestAt
<1>3. ASSUME NEW wpm \in Scores, SaveMatch(wpm)
      PROVE  NewestAt(k)' = NewestAt(k) /\ Len(table)' >= Len(table)
  <2>1. /\ Len(table') = Len(table) + 1
        /\ \A i \in 1..Len(table) : table'[i] = table[i]
    BY <1>1, <1>3, AppendProperties DEF SaveMatch
  <2> DEFINE m == IF Limit <= k THEN Limit ELSE k
  <2>2. \A i \in 1..m : k + 1 - i \in 1..Len(table)
    BY <1>1, HistoryAssumption DEF HistoryAssumption
  <2>3. \A i \in 1..m : table'[k + 1 - i] = table[k + 1 - i]
    BY <2>1, <2>2
  <2>4. NewestAt(k) = [i \in 1..m |-> table[k + 1 - i]] /\ NewestAt(k)' = [i \in 1..m |-> table'[k + 1 - i]]
    BY DEF NewestAt
  <2> HIDE DEF m
  <2> QED BY <1>1, <2>1, <2>3, <2>4
<1> QED BY <1>1, <1>2, <1>3 DEF Next, OpenPage, Refresh, ClosePage, HandleGetHistory,
     HandleGetHistoryCut, HandleGetHistoryFails, Answered, Arrive, ArriveError, Orphan, Forget, vars

-----------------------------------------------------------------------------
(* Types.                                                                  *)

\* A page that is open has been opened.
Typed == TypeOK /\ (page = "open" => visit # 0)

\* The type of a request.
Request ==
  [id : 1..fetches, visit : 1..visit, asked : 0..Len(table), read : 0..Len(table),
   whole : BOOLEAN, reply : Reply]

\* The player's rows and an unopened page are well typed.
LEMMA TypeInit == Init => Typed
<1> SUFFICES ASSUME Init PROVE Typed
  OBVIOUS
<1>1. PICK n \in 0..MaxMatches, wpm \in Scores : table = [i \in 1..n |-> wpm]
  BY DEF Init
<1>2. n \in Nat /\ n <= MaxMatches
  BY HistoryAssumption DEF HistoryAssumption
<1>3. table \in [1..n -> Scores]
  BY <1>1
<1>4. table \in Seq(Scores) /\ Len(table) = n
  BY <1>2, <1>3, FunctionIsSeq
<1>6. <<>> \in Seq(Scores)
  BY EmptySeq
<1>7. MaxFetches \in Nat
  BY HistoryAssumption DEF HistoryAssumption
<1> QED BY <1>2, <1>4, <1>6, <1>7 DEF Init, Typed, TypeOK, NoRequest

\* A call of fetchHistory adds a request and keeps the others.
LEMMA FetchTypes ==
  ASSUME TypeOK, NEW v \in Nat, v # 0, FetchHistory(v), visit' \in Nat, visit <= visit', v <= visit',
         visit' <= visit + 1, UNCHANGED table
  PROVE  /\ requests' \subseteq Request' /\ fetches' \in 0..MaxFetches
         /\ fetches <= fetches' /\ visit' \in 0..fetches' /\ loading' \in BOOLEAN
<1>1. Len(table) \in Nat /\ fetches \in Nat /\ visit \in Nat /\ visit <= fetches /\ MaxFetches \in Nat
  BY LenProperties, HistoryAssumption DEF TypeOK, HistoryAssumption
<1>2. fetches' = fetches + 1 /\ fetches < MaxFetches /\ loading' = TRUE
  BY DEF FetchHistory
<1> DEFINE q == [id |-> fetches + 1, visit |-> v, asked |-> Len(table), read |-> 0,
                 whole |-> TRUE, reply |-> Unanswered]
<1>3. q \in Request'
  BY <1>1, <1>2 DEF Request, Reply
<1>4. Request \subseteq Request'
  <2>1. 1..fetches \subseteq 1..fetches' /\ 1..visit \subseteq 1..visit'
    BY <1>1, <1>2
  <2> QED BY <2>1 DEF Request
<1>5. requests' = requests \union {q} /\ requests \subseteq Request
  BY DEF FetchHistory, TypeOK, Request
<1>6. requests' \subseteq Request'
  BY <1>3, <1>4, <1>5
<1> QED BY <1>1, <1>2, <1>6

\* An answer is a row list, null or an error, at a moment after the question.
LEMMA AnswerTypes ==
  ASSUME TypeOK, NEW r \in requests, NEW reply \in Reply, NEW whole \in BOOLEAN,
         Answered(r, reply, whole)
  PROVE  TypeOK'
<1> DEFINE q == [r EXCEPT !.reply = reply, !.read = Len(table), !.whole = whole]
<1>1. Len(table) \in 0..Len(table) /\ r \in Request
  BY LenProperties DEF TypeOK, Request
<1>2. q \in Request
  <2> DEFINE K == 0..Len(table)
  <2>1. Len(table) \in K
    BY <1>1
  <2> HIDE DEF K
  <2>2. r \in [id : 1..fetches, visit : 1..visit, asked : K, read : K, whole : BOOLEAN, reply : Reply]
    BY <1>1 DEF Request, K
  <2>3. q \in [id : 1..fetches, visit : 1..visit, asked : K, read : K, whole : BOOLEAN, reply : Reply]
    BY <2>1, <2>2
  <2> QED BY <2>3 DEF Request, K
<1>3. requests' = (requests \ {r}) \union {q}
  BY DEF Answered
<1>4. requests \subseteq Request
  BY DEF TypeOK, Request
<1> HIDE DEF q
<1>5. requests' \subseteq Request
  BY <1>2, <1>3, <1>4
<1>6. requests' \subseteq Request'
  BY <1>5 DEF Answered, Request
<1> QED BY <1>6 DEF Answered, TypeOK, Request

\* What a reply carries is rows or null.
LEMMA BodyTypes ==
  /\ \A rows \in Seq(Scores) : Success(Encode(rows)) \in Reply
  /\ \A reply \in Reply : reply.status = "ok" =>
       /\ reply # Unanswered /\ reply # Failure
       /\ reply.body \in {null} \union Seq(Scores)
       /\ Decode(reply.body) \in Seq(Scores)
<1>1. <<>> \in Seq(Scores)
  BY EmptySeq
<1> QED BY <1>1 DEF Reply, Success, Encode, Decode, Unanswered, Failure

\* A request that is answered or given up leaves the others.
LEMMA ForgetTypes ==
  ASSUME TypeOK, NEW r, Forget(r)
  PROVE  requests' \subseteq Request' /\ Len(table') = Len(table) /\ fetches' = fetches
<1>1. requests \subseteq Request
  BY DEF TypeOK, Request
<1> QED BY <1>1 DEF Forget, Request

\* Typing is inductive.
LEMMA TypeStep == Typed /\ [Next]_vars => Typed'
<1> SUFFICES ASSUME Typed, [Next]_vars PROVE Typed'
  OBVIOUS
<1> USE DEF Typed
<1>0. /\ Len(table) \in Nat /\ MaxMatches \in Nat /\ MaxFetches \in Nat /\ fetches \in Nat
      /\ visit \in Nat /\ visit <= fetches /\ requests \subseteq Request
  BY LenProperties, HistoryAssumption DEF TypeOK, HistoryAssumption, Request
<1>1. ASSUME NEW wpm \in Scores, SaveMatch(wpm) PROVE Typed'
  <2>1. table' \in Seq(Scores) /\ Len(table') = Len(table) + 1
    BY <1>1, AppendProperties DEF SaveMatch, TypeOK
  <2>2. Len(table') <= MaxMatches
    BY <1>0, <1>1, <2>1 DEF SaveMatch
  <2>3. 0..Len(table) \subseteq 0..Len(table')
    BY <1>0, <2>1
  <2>4. requests' \subseteq Request'
    BY <1>0, <1>1, <2>3 DEF SaveMatch, Request
  <2>5. basis' \in [id : 0..fetches, asked : 0..Len(table'), read : 0..Len(table'), whole : BOOLEAN]
    BY <1>1, <2>3 DEF SaveMatch, TypeOK
  <2> QED BY <1>1, <2>1, <2>2, <2>4, <2>5 DEF SaveMatch, TypeOK, Request
<1>2. CASE OpenPage
  <2>1. visit' = visit + 1 /\ FetchHistory(visit + 1) /\ UNCHANGED <<table, history, basis, ordered>> /\ page' = "open"
    BY <1>2 DEF OpenPage
  <2> DEFINE v == visit + 1
  <2>2. v \in Nat /\ v # 0 /\ visit' \in Nat /\ visit <= visit' /\ v <= visit' /\ visit' <= visit + 1
    BY <1>0, <2>1
  <2>3. FetchHistory(v)
    BY <2>1
  <2> HIDE DEF v
  <2>4. /\ requests' \subseteq Request' /\ fetches' \in 0..MaxFetches
        /\ fetches <= fetches' /\ visit' \in 0..fetches' /\ loading' \in BOOLEAN
    BY <2>1, <2>2, <2>3, FetchTypes
  <2>5. 0..fetches \subseteq 0..fetches'
    BY <1>0, <2>4
  <2>6. basis' \in [id : 0..fetches', asked : 0..Len(table'), read : 0..Len(table'), whole : BOOLEAN]
    BY <2>1, <2>5 DEF TypeOK
  <2> QED BY <1>0, <2>1, <2>4, <2>6 DEF TypeOK, Request
<1>3. CASE Refresh
  <2>1. FetchHistory(visit) /\ UNCHANGED <<table, page, visit, history, basis, ordered>> /\ visit # 0
    BY <1>3 DEF Refresh
  <2>2. visit \in Nat /\ visit' \in Nat /\ visit <= visit' /\ visit' <= visit + 1
    BY <1>0, <2>1
  <2>3. /\ requests' \subseteq Request' /\ fetches' \in 0..MaxFetches
        /\ fetches <= fetches' /\ visit' \in 0..fetches' /\ loading' \in BOOLEAN
    BY <2>1, <2>2, FetchTypes
  <2>4. 0..fetches \subseteq 0..fetches'
    BY <1>0, <2>3
  <2>5. basis' \in [id : 0..fetches', asked : 0..Len(table'), read : 0..Len(table'), whole : BOOLEAN]
    BY <2>1, <2>4 DEF TypeOK
  <2> QED BY <2>1, <2>3, <2>5 DEF TypeOK, Request
<1>4. CASE ClosePage
  <2>1. <<>> \in Seq(Scores)
    BY EmptySeq
  <2>2. requests' \subseteq Request'
    BY <1>0, <1>4 DEF ClosePage, Request
  <2> QED BY <1>0, <1>4, <2>1, <2>2 DEF ClosePage, TypeOK, NoRequest, Request
<1>5. ASSUME NEW r \in requests, HandleGetHistory(r) PROVE Typed'
  <2>1. Success(Encode(GetMatchesByUserID(table))) \in Reply
    BY NewestRows, BodyTypes
  <2> QED BY <1>5, <2>1, AnswerTypes DEF HandleGetHistory, Answered
<1>6. ASSUME NEW r \in requests, HandleGetHistoryCut(r) PROVE Typed'
  <2> DEFINE rows == GetMatchesByUserID(table)
  <2>1. PICK n \in 1..Len(rows) : Answered(r, Success(Encode(SubSeq(rows, 1, n - 1))), FALSE)
    BY <1>6 DEF HandleGetHistoryCut
  <2>2. SubSeq(rows, 1, n - 1) \in Seq(Scores)
    <3>1. rows \in Seq(Scores)
      BY NewestRows
    <3> HIDE DEF rows
    <3>2. Len(rows) \in Nat /\ \A i \in 1..Len(rows) : rows[i] \in Scores
      BY <3>1, LenProperties
    <3>3. 1 \in Int /\ n - 1 \in Int /\ \A i \in 1..(n - 1) : rows[i] \in Scores
      BY <3>2
    <3> QED BY <3>3, SubSeqProperties
  <2>3. Success(Encode(SubSeq(rows, 1, n - 1))) \in Reply
    BY <2>2, BodyTypes
  <2> QED BY <2>1, <2>3, AnswerTypes DEF Answered
<1>7. ASSUME NEW r \in requests, HandleGetHistoryFails(r) PROVE Typed'
  <2>1. Failure \in Reply
    BY DEF Reply
  <2> QED BY <1>7, <2>1, AnswerTypes DEF HandleGetHistoryFails, Answered
<1>8. ASSUME NEW r \in requests, Orphan(r) PROVE Typed'
  BY <1>8, ForgetTypes DEF Orphan, Forget,  TypeOK, Request
<1>9. ASSUME NEW r \in requests, Arrive(r) PROVE Typed'
  <2>1. r \in Request /\ r.reply.status = "ok"
    BY <1>0, <1>9 DEF Arrive
  <2>2. history' \in Seq(Scores)
    BY <1>9, <2>1, BodyTypes DEF Arrive, Request
  <2>3. basis' \in [id : 0..fetches, asked : 0..Len(table), read : 0..Len(table), whole : BOOLEAN]
    BY <1>0, <1>9, <2>1 DEF Arrive, Request
  <2>4. ordered' \in BOOLEAN
    BY <1>9, <2>1 DEF Arrive
  <2> QED BY <1>9, <2>2, <2>3, <2>4, ForgetTypes DEF Arrive, Forget, TypeOK, Request
<1>10. ASSUME NEW r \in requests, ArriveError(r) PROVE Typed'
  BY <1>10, ForgetTypes DEF ArriveError, Forget, TypeOK, Request
<1>11. CASE UNCHANGED vars
  BY <1>11 DEF vars, TypeOK
<1> QED BY <1>1, <1>2, <1>3, <1>4, <1>5, <1>6, <1>7, <1>8, <1>9, <1>10, <1>11 DEF Next

\* Every state is well typed; in particular the page never computes with null.
THEOREM HistoryTypes == Spec => []TypeOK
<1>1. Typed => TypeOK
  BY DEF Typed
<1> QED BY <1>1, TypeInit, TypeStep, PTL DEF Spec

-----------------------------------------------------------------------------
(* What is shown is one moment.                                            *)

\* An answer that was not cut short holds the newest rows of the moment it was
\* read at, which is not before the request was made.
AnswerOK(r) ==
  r.reply.status = "ok" =>
    /\ r.asked <= r.read
    /\ r.whole => r.reply.body = Encode(NewestAt(r.read))

\* So does what is shown, and while the answers come in order none was cut.
BasisOK ==
  /\ basis.asked <= basis.read
  /\ basis.whole => history = NewestAt(basis.read)
  /\ ordered => basis.whole

Moments ==
  /\ Typed
  /\ \A r \in requests : AnswerOK(r)
  /\ BasisOK

\* The page has useState's empty list, which is the history of no match.
LEMMA NothingAtFirst == ASSUME TypeOK PROVE NewestAt(0) = <<>>
<1>1. 0 \in 0..Len(table)
  BY LenProperties DEF TypeOK
<1>2. NewestAt(0) \in Seq(Scores) /\ Len(NewestAt(0)) = 0
  BY <1>1, NewestList, HistoryAssumption DEF HistoryAssumption
<1> QED BY <1>2, EmptySeq

\* At first the page has seen nothing, which is what the empty table holds.
LEMMA MomentsInit == Init => Moments
<1> SUFFICES ASSUME Init PROVE Moments
  OBVIOUS
<1>1. Typed /\ NewestAt(0) = <<>>
  BY TypeInit, NothingAtFirst DEF Typed
<1> QED BY <1>1 DEF Init, Moments, BasisOK, NoRequest

\* Encoding and decoding rows gives the rows back.
LEMMA EncodeDecode == \A rows \in Seq(Scores) : Decode(Encode(rows)) = rows
BY HistoryAssumption DEF HistoryAssumption, Encode, Decode

\* An answer stays what it is, whatever is saved.
LEMMA AnswersKept ==
  ASSUME Moments, [Next]_vars, NEW r \in requests
  PROVE  AnswerOK(r)'
<1>1. r.read \in 0..Len(table)
  BY DEF Moments, Typed, TypeOK
<1>2. NewestAt(r.read)' = NewestAt(r.read)
  BY <1>1, NewestKept DEF Moments, Typed
<1> QED BY <1>2 DEF Moments, AnswerOK

\* Every answer on its way is of the table as it was when it was read.
LEMMA AnswersStep == Moments /\ [Next]_vars => \A q \in requests' : AnswerOK(q)'
<1> SUFFICES ASSUME Moments, [Next]_vars, NEW q \in requests', q \notin requests PROVE AnswerOK(q)'
  BY AnswersKept
<1>1. ASSUME NEW v, FetchHistory(v) PROVE AnswerOK(q)'
  BY <1>1 DEF FetchHistory, AnswerOK, Unanswered
<1>2. ASSUME NEW r \in requests, NEW reply, NEW whole, Answered(r, reply, whole),
             reply.status = "ok" /\ whole => reply.body = Encode(NewestAt(Len(table)))
      PROVE  AnswerOK(q)'
  <2>1. r \in Request /\ Len(table) \in Nat
    BY LenProperties DEF Moments, Typed, TypeOK, Request
  <2>2. q.reply = reply /\ q.read = Len(table) /\ q.whole = whole /\ q.asked = r.asked
    BY <1>2, <2>1 DEF Answered, Request
  <2>3. q.asked <= q.read
    BY <2>1, <2>2 DEF Request
  <2>4. Len(table) \in 0..Len(table)
    BY <2>1
  <2>5. PICK k \in 0..Len(table) : k = Len(table) /\ q.read = k
    BY <2>2, <2>4
  <2>6. NewestAt(k)' = NewestAt(k)
    BY <2>5, NewestKept DEF Moments, Typed
  <2> QED BY <1>2, <2>2, <2>3, <2>5, <2>6 DEF AnswerOK
<1>3. ASSUME NEW r \in requests, HandleGetHistory(r) PROVE AnswerOK(q)'
  <2>1. GetMatchesByUserID(table) = NewestAt(Len(table))
    BY NewestRows DEF Moments, Typed
  <2> QED BY <1>2, <1>3, <2>1 DEF HandleGetHistory, Success
<1>4. ASSUME NEW r \in requests, HandleGetHistoryCut(r) PROVE AnswerOK(q)'
  BY <1>2, <1>4 DEF HandleGetHistoryCut
<1>5. ASSUME NEW r \in requests, HandleGetHistoryFails(r) PROVE AnswerOK(q)'
  BY <1>2, <1>5 DEF HandleGetHistoryFails, Failure
<1>6. requests' \subseteq requests => AnswerOK(q)'
  OBVIOUS
<1> QED BY <1>1, <1>3, <1>4, <1>5, <1>6
        DEF Next, SaveMatch, OpenPage, Refresh, ClosePage, Arrive, ArriveError, Orphan, Forget, vars

\* What is shown changes with an arrival and with the end of a visit only.
LEMMA BasisStep == Moments /\ [Next]_vars => BasisOK'
<1> SUFFICES ASSUME Moments, [Next]_vars PROVE BasisOK'
  OBVIOUS
<1>0. basis.asked \in Nat /\ basis.read \in 0..Len(table) /\ TypeOK
  BY DEF Moments, Typed, TypeOK
<1>1. CASE UNCHANGED <<history, basis, ordered>>
  <2>1. PICK k \in 0..Len(table) : k = basis.read
    BY <1>0
  <2>2. NewestAt(k)' = NewestAt(k)
    BY <1>0, NewestKept
  <2> QED BY <1>1, <2>1, <2>2 DEF Moments, BasisOK
<1>2. ASSUME NEW r \in requests, Arrive(r) PROVE BasisOK'
  <2>1. r.read \in 0..Len(table) /\ r.asked \in Nat
    BY <1>0 DEF TypeOK
  <2>2. NewestAt(r.read) \in Seq(Scores) /\ NewestAt(r.read)' = NewestAt(r.read)
    BY <1>0, <2>1, NewestList, NewestKept
  <2>3. r.asked <= r.read /\ (r.whole => history' = NewestAt(r.read))
    BY <1>2, <2>2, EncodeDecode DEF Arrive, Moments, AnswerOK
  <2>4. basis' = [id |-> r.id, asked |-> r.asked, read |-> r.read, whole |-> r.whole]
    BY <1>2 DEF Arrive
  <2>5. ordered' => r.whole
    BY <1>2 DEF Arrive
  <2>6. basis'.whole => history' = NewestAt(r.read)'
    BY <2>2, <2>3, <2>4
  <2>7. basis'.read = r.read
    BY <2>4
  <2>8. NewestAt(r.read)' = NewestAt(basis.read)'
    BY <2>7
  <2> QED BY <2>3, <2>4, <2>5, <2>6, <2>8 DEF BasisOK
<1>3. CASE ClosePage
  <2>1. NewestAt(0)' = <<>>
    <3>1. 0 \in 0..Len(table)
      BY <1>0, LenProperties DEF TypeOK
    <3>2. NewestAt(0) = <<>>
      BY <1>0, NothingAtFirst
    <3> QED BY <1>0, <3>1, <3>2, NewestKept
  <2> QED BY <1>3, <2>1 DEF ClosePage, BasisOK, NoRequest
<1> QED BY <1>1, <1>2, <1>3
        DEF Next, SaveMatch, OpenPage, Refresh, HandleGetHistory, HandleGetHistoryCut,
            HandleGetHistoryFails, Answered, ArriveError, Orphan, vars

\* Every step keeps the answers and the page true to the moment they were read.
LEMMA MomentsStep == Moments /\ [Next]_vars => Moments'
BY TypeStep, AnswersStep, BasisStep DEF Moments

\* Unless its rows were cut short, the page shows the newest matches of one
\* moment, no earlier than the request it answers.
THEOREM OneMoment == Spec => []ShownIsOneMoment
<1>1. Moments => ShownIsOneMoment
  <2> SUFFICES ASSUME Moments, basis.whole
               PROVE  \E k \in basis.asked..Len(table) : history = NewestAt(k)
    BY DEF ShownIsOneMoment
  <2>1. basis.asked \in Nat /\ basis.read \in 0..Len(table) /\ Len(table) \in Nat
    BY LenProperties DEF Moments, Typed, TypeOK
  <2>2. basis.read \in basis.asked..Len(table) /\ history = NewestAt(basis.read)
    BY <2>1 DEF Moments, BasisOK
  <2> QED BY <2>2
<1> QED BY <1>1, MomentsInit, MomentsStep, PTL DEF Spec

-----------------------------------------------------------------------------
(* Achievements for matches.                                               *)

\* The page shows as many matches as the query returns of those there were.
LEMMA ShownCount ==
  ASSUME Moments, basis.whole
  PROVE  /\ totalMatches = IF Limit <= basis.read THEN Limit ELSE basis.read
         /\ totalMatches \in Nat /\ basis.asked \in Nat /\ basis.read \in Nat /\ Len(table) \in Nat
         /\ basis.asked <= basis.read /\ basis.read <= Len(table)
<1>1. basis.asked \in Nat /\ basis.read \in 0..Len(table) /\ Len(table) \in Nat /\ TypeOK
  BY LenProperties DEF Moments, Typed, TypeOK
<1>2. history = NewestAt(basis.read) /\ basis.asked <= basis.read
  BY DEF Moments, BasisOK
<1>3. totalMatches = IF Limit <= basis.read THEN Limit ELSE basis.read
  BY <1>1, <1>2, NewestList DEF totalMatches
<1>4. Limit \in Nat
  BY HistoryAssumption DEF HistoryAssumption
<1> QED BY <1>1, <1>2, <1>3, <1>4

\* An achievement for a number of matches within the limit of the query is
\* unlocked by that match and the request that follows it, and not before.
THEOREM GoalsOnTime == Spec => []GoalsUnlocked
<1>1. Moments => GoalsUnlocked
  <2> SUFFICES ASSUME Moments, basis.whole, NEW g \in MatchGoals, g <= Limit
               PROVE  /\ basis.asked >= g => g \in MatchesUnlocked
                      /\ g \in MatchesUnlocked => Len(table) >= g
    BY DEF GoalsUnlocked, Unlocks
  <2>1. g \in Nat /\ Limit \in Nat
    BY HistoryAssumption DEF HistoryAssumption
  <2>2. g \in MatchesUnlocked <=> totalMatches >= g
    BY DEF MatchesUnlocked
  <2> QED BY <2>1, <2>2, ShownCount
<1> QED BY <1>1, MomentsInit, MomentsStep, PTL DEF Spec

\* Within a visit an achievement for matches is not lost, as long as answers
\* are whole and come in the order in which the backend read them.
THEOREM GoalsKept == Spec => UnlocksKept
<1>1. ASSUME Moments, [Next]_vars, page = "open" /\ page' = "open" /\ visit' = visit /\ ordered'
      PROVE  MatchesUnlocked \subseteq MatchesUnlocked'
  <2>1. CASE UNCHANGED history
    BY <2>1 DEF MatchesUnlocked, totalMatches
  <2>2. ASSUME NEW r \in requests, Arrive(r) PROVE MatchesUnlocked \subseteq MatchesUnlocked'
    <3>1. ordered /\ r.whole /\ basis.read <= r.read
      BY <1>1, <2>2 DEF Arrive
    <3>2. basis.whole
      BY <1>1, <3>1 DEF Moments, BasisOK
    <3>3. /\ totalMatches = IF Limit <= basis.read THEN Limit ELSE basis.read
          /\ basis.read \in Nat
      BY <1>1, <3>2, ShownCount
    <3>4. r.read \in 0..Len(table) /\ r.read \in Nat /\ Limit \in Nat
      BY <1>1, HistoryAssumption, LenProperties DEF Moments, Typed, TypeOK, HistoryAssumption
    <3>5. /\ NewestAt(r.read) \in Seq(Scores)
          /\ Len(NewestAt(r.read)) = IF Limit <= r.read THEN Limit ELSE r.read
      BY <1>1, <3>4, NewestList DEF Moments, Typed
    <3>6. history' = NewestAt(r.read)
      BY <1>1, <2>2, <3>1, <3>5, EncodeDecode DEF Arrive, Moments, AnswerOK
    <3>7. totalMatches' = IF Limit <= r.read THEN Limit ELSE r.read
      BY <3>5, <3>6 DEF totalMatches
    <3>8. totalMatches <= totalMatches' /\ totalMatches \in Nat /\ totalMatches' \in Nat
      BY <3>1, <3>3, <3>4, <3>7
    <3>9. \A g \in MatchGoals : g \in Nat
      BY HistoryAssumption DEF HistoryAssumption
    <3> QED BY <3>8, <3>9 DEF MatchesUnlocked
  <2>3. ~ ClosePage /\ ~ OpenPage
    BY <1>1 DEF ClosePage, OpenPage
  <2> QED BY <1>1, <2>1, <2>2, <2>3
          DEF Next, SaveMatch, Refresh, HandleGetHistory, HandleGetHistoryCut,
              HandleGetHistoryFails, Answered, ArriveError, Orphan, vars
<1> QED BY <1>1, MomentsInit, MomentsStep, PTL DEF Spec, UnlocksKept

-----------------------------------------------------------------------------
(* Average, level and achievements for speed.                              *)

Plus(acc, wpm) == acc + wpm
Adding == INSTANCE FoldLaws WITH Op <- Plus

\* The page's sum is the fold of its matches.
LEMMA SumIsFold == Sum = Adding!Fold(0, history)
BY DEF Sum, Plus, Adding!Fold, Adding!FoldLeft, FoldLeft, Adding!MapThenFoldSet, MapThenFoldSet,
       Adding!Max, Max

\* A sum of n numbers lies between n times a lower and n times an upper bound.
LEMMA SumBounds ==
  ASSUME NEW q \in Seq(Nat)
  PROVE  /\ Adding!Fold(0, q) \in Nat /\ Len(q) \in Nat
         /\ \A hi \in Nat : (\A i \in DOMAIN q : q[i] <= hi) => Adding!Fold(0, q) <= Len(q) * hi
         /\ \A lo \in Nat : (\A i \in DOMAIN q : q[i] >= lo) => Adding!Fold(0, q) >= Len(q) * lo
<1> DEFINE F(s) == Adding!Fold(0, s)
           Within(s) ==
             /\ F(s) \in Nat
             /\ \A hi \in Nat : (\A i \in DOMAIN s : s[i] <= hi) => F(s) <= Len(s) * hi
             /\ \A lo \in Nat : (\A i \in DOMAIN s : s[i] >= lo) => F(s) >= Len(s) * lo
           I == {s \in Seq(Nat) : Within(s)}
<1>1. <<>> \in I
  <2>1. F(<<>>) = 0
    BY Adding!FoldEmpty
  <2>2. <<>> \in Seq(Nat) /\ Len(<<>>) = 0
    BY EmptySeq
  <2> HIDE DEF F
  <2> QED BY <2>1, <2>2
<1>2. ASSUME NEW s \in Seq(Nat), NEW x \in Nat, s \in I PROVE Append(s, x) \in I
  <2> DEFINE p == Append(s, x)
             n == Len(s)
  <2>1. F(p) = F(s) + x
    BY Adding!FoldAppend DEF Plus
  <2>2. /\ p \in Seq(Nat) /\ n \in Nat /\ Len(p) = n + 1 /\ DOMAIN s = 1..n /\ DOMAIN p = 1..(n + 1)
        /\ \A i \in 1..n : p[i] = s[i]
        /\ p[n + 1] = x
    BY AppendProperties, LenProperties
  <2>3. F(s) \in Nat
    BY <1>2
  <2>4. ASSUME NEW hi \in Nat, \A i \in DOMAIN p : p[i] <= hi PROVE F(p) <= Len(p) * hi
    <3>1. (\A i \in DOMAIN s : s[i] <= hi) /\ x <= hi
      <4>1. \A i \in 1..n : i \in 1..(n + 1)
        BY <2>2
      <4>2. n + 1 \in 1..(n + 1)
        BY <2>2
      <4> HIDE DEF p, n
      <4> QED BY <2>2, <2>4, <4>1, <4>2
    <3>2. F(s) <= n * hi
      BY <1>2, <3>1
    <3>3. (n + 1) * hi = n * hi + hi /\ n * hi \in Nat
      BY <2>2
    <3> HIDE DEF F, p, n
    <3> QED BY <2>1, <2>2, <2>3, <3>1, <3>2, <3>3
  <2>5. ASSUME NEW lo \in Nat, \A i \in DOMAIN p : p[i] >= lo PROVE F(p) >= Len(p) * lo
    <3>1. (\A i \in DOMAIN s : s[i] >= lo) /\ x >= lo
      <4>1. \A i \in 1..n : i \in 1..(n + 1)
        BY <2>2
      <4>2. n + 1 \in 1..(n + 1)
        BY <2>2
      <4> HIDE DEF p, n
      <4> QED BY <2>2, <2>5, <4>1, <4>2
    <3>2. F(s) >= n * lo
      BY <1>2, <3>1
    <3>3. (n + 1) * lo = n * lo + lo /\ n * lo \in Nat
      BY <2>2
    <3> HIDE DEF F, p, n
    <3> QED BY <2>1, <2>2, <2>3, <3>1, <3>2, <3>3
  <2>6. F(p) \in Nat
    <3> HIDE DEF F
    <3> QED BY <2>1, <2>3
  <2> HIDE DEF F
  <2> QED BY <2>2, <2>4, <2>5, <2>6
<1>3. Seq(Nat) \subseteq I
  <2> HIDE DEF I
  <2> QED BY <1>1, <1>2, SequenceInduction
<1> QED BY <1>3, LenProperties

\* A quotient is reached by what its divisor times it does not exceed.
LEMMA Quotient ==
  ASSUME NEW a \in Nat, NEW b \in Nat, b # 0, NEW l \in Nat
  PROVE  a \div b \in Nat /\ (l <= a \div b <=> l * b <= a)
<1>1. a \div b \in Nat /\ (a \div b) * b <= a /\ a < (a \div b) * b + b
  OBVIOUS
<1> DEFINE q == a \div b
<1> HIDE DEF q
<1>2. q \in Nat /\ q * b <= a /\ a < q * b + b
  BY <1>1 DEF q
<1>3. l <= q => l * b <= q * b
  BY <1>2
<1>4. l > q => l * b >= (q + 1) * b
  BY <1>2
<1>5. (q + 1) * b = q * b + b
  BY <1>2
<1>6. l <= q <=> l * b <= a
  BY <1>2, <1>3, <1>4, <1>5
<1> QED BY <1>2, <1>6 DEF q

\* The rounded average reaches a number as the sum does with half a match more.
LEMMA AverageReaches ==
  ASSUME TypeOK, totalMatches > 0, NEW l \in Nat
  PROVE  /\ avgWpm \in Nat /\ Sum \in Nat /\ totalMatches \in Nat
         /\ l <= avgWpm <=> 2 * totalMatches * l <= 2 * Sum + totalMatches
<1>1. history \in Seq(Nat)
  BY HistoryAssumption, SeqMonotonic DEF TypeOK, HistoryAssumption
<1>2. totalMatches \in Nat /\ Sum \in Nat
  BY <1>1, SumBounds, SumIsFold DEF totalMatches
<1> DEFINE n == totalMatches
           a == 2 * Sum + n
           b == 2 * n
<1>3. avgWpm = a \div b
  BY <1>2 DEF avgWpm
<1>4. a \in Nat /\ b \in Nat /\ b # 0
  BY <1>2
<1>5. a \div b \in Nat /\ (l <= a \div b <=> l * b <= a)
  BY <1>4, Quotient
<1>6. l * (2 * n) = 2 * n * l
  BY <1>2
<1> QED BY <1>2, <1>3, <1>5, <1>6

\* CalculateLevel finds the last level that is reached.
LEMMA LevelFound ==
  ASSUME NEW wpm \in Nat
  PROVE  \E j \in DOMAIN LEVELS :
           /\ LEVELS[j] <= wpm /\ CalculateLevel(wpm) = LEVELS[j]
           /\ \A k \in DOMAIN LEVELS : LEVELS[k] <= wpm => k <= j
<1> DEFINE n == Len(LEVELS)
           R == Reverse(LEVELS)
<1>1. n \in Nat /\ n # 0 /\ DOMAIN LEVELS = 1..n /\ LEVELS[1] = 0 /\ \A k \in 1..n : LEVELS[k] \in Nat
  BY HistoryAssumption, EmptySeq, LenProperties DEF HistoryAssumption
<1>2. R = [k \in 1..n |-> LEVELS[(n - k) + 1]]
  BY DEF Reverse
<1>3. \A k \in 1..n : (n - k) + 1 \in 1..n
  BY <1>1
<1>4. R \in [1..n -> Nat] /\ \A k \in 1..n : R[k] = LEVELS[(n - k) + 1]
  <2> HIDE DEF n, R
  <2> QED BY <1>1, <1>2, <1>3
<1>5. Len(R) = n
  <2> HIDE DEF n, R
  <2> QED BY <1>1, <1>4, FunctionIsSeq
<1> DEFINE T == {k \in 1..Len(R) : wpm >= R[k]}
<1>6. CalculateLevel(wpm) = IF (IF T # {} THEN Min(T) ELSE 0) = 0 THEN LEVELS[1]
                            ELSE R[IF T # {} THEN Min(T) ELSE 0]
  BY DEF CalculateLevel, SelectInSeq
<1> HIDE DEF n, R
<1>7. n \in T
  <2>1. n \in 1..n /\ (n - n) + 1 = 1
    BY <1>1
  <2>2. R[n] = 0
    BY <1>1, <1>4, <2>1
  <2> QED BY <1>5, <2>1, <2>2
<1>8. \A k \in 1..n : k \in T <=> LEVELS[(n - k) + 1] <= wpm
  BY <1>1, <1>3, <1>4, <1>5
<1>9. T \subseteq 1..n /\ T \subseteq Nat
  BY <1>1, <1>5
<1> HIDE DEF T
<1>10. Min(T) \in T /\ \A k \in T : Min(T) <= k
  BY <1>7, <1>9, MinPosition
<1> DEFINE m == Min(T)
<1>11. m \in T /\ m \in 1..n /\ \A k \in T : m <= k
  BY <1>9, <1>10
<1>12. CalculateLevel(wpm) = R[m]
  <2>1. m # 0
    BY <1>1, <1>11
  <2> QED BY <1>6, <1>7, <2>1
<1> HIDE DEF m
<1> DEFINE j == (n - m) + 1
<1>13. j \in 1..n /\ LEVELS[j] <= wpm /\ CalculateLevel(wpm) = LEVELS[j]
  BY <1>3, <1>4, <1>8, <1>11, <1>12
<1>14. ASSUME NEW k \in 1..n, LEVELS[k] <= wpm PROVE k <= j
  <2>1. (n - k) + 1 \in 1..n /\ (n - ((n - k) + 1)) + 1 = k
    BY <1>1
  <2>2. (n - k) + 1 \in T
    BY <1>8, <1>14, <2>1
  <2>3. m <= (n - k) + 1
    BY <1>11, <2>2
  <2> QED BY <1>1, <1>11, <2>3
<1> QED BY <1>1, <1>13, <1>14

\* The level shown is the highest that the rounded average reaches.
THEOREM LevelIsExact == Spec => []LevelExact
<1>1. TypeOK => LevelExact
  <2> DEFINE reached == {i \in DOMAIN LEVELS :
                           2 * totalMatches * LEVELS[i] <= 2 * Sum + totalMatches}
  <2> SUFFICES ASSUME TypeOK, totalMatches > 0
               PROVE  \E i \in reached : /\ CalculateLevel(avgWpm) = LEVELS[i]
                                         /\ \A j \in reached : j <= i
    BY DEF LevelExact
  <2>1. \A i \in DOMAIN LEVELS : LEVELS[i] \in Nat
    BY HistoryAssumption, LenProperties DEF HistoryAssumption
  <2>2. \A i \in DOMAIN LEVELS : i \in reached <=> LEVELS[i] <= avgWpm
    BY <2>1, AverageReaches
  <2>3. avgWpm \in Nat
    BY 0 \in Nat, AverageReaches
  <2> HIDE DEF reached
  <2>4. \A i \in reached : i \in DOMAIN LEVELS
    BY DEF reached
  <2> QED BY <2>2, <2>3, <2>4, LevelFound
<1>2. Typed => TypeOK
  BY DEF Typed
<1> QED BY <1>1, <1>2, TypeInit, TypeStep, PTL DEF Spec

\* The greatest number of a list that is not empty.
LEMMA MaxOfList ==
  ASSUME NEW q \in Seq(Nat), q # <<>>
  PROVE  Max(ToSet(q)) \in Nat /\ \A i \in DOMAIN q : q[i] <= Max(ToSet(q))
<1> DEFINE Has(s) == s # <<>> => \E x \in ToSet(s) : \A y \in ToSet(s) : x >= y
           I == {s \in Seq(Nat) : Has(s)}
<1>1. <<>> \in I
  BY EmptySeq
<1>2. ASSUME NEW s \in Seq(Nat), NEW e \in Nat, s \in I PROVE Append(s, e) \in I
  <2> DEFINE p == Append(s, e)
             n == Len(s)
  <2>1. /\ p \in Seq(Nat) /\ n \in Nat /\ DOMAIN s = 1..n /\ DOMAIN p = 1..(n + 1)
        /\ \A i \in 1..n : p[i] = s[i]
        /\ p[n + 1] = e
    BY AppendProperties, LenProperties
  <2>2. ToSet(p) = ToSet(s) \union {e}
    <3>1. \A i \in 1..(n + 1) : i \in 1..n \/ i = n + 1
      BY <2>1
    <3>2. (\A i \in 1..n : i \in 1..(n + 1)) /\ n + 1 \in 1..(n + 1)
      BY <2>1
    <3> HIDE DEF p, n
    <3> QED BY <2>1, <3>1, <3>2 DEF ToSet
  <2>3. ToSet(s) \subseteq Nat
    BY <2>1, LenProperties DEF ToSet
  <2>4. CASE s = <<>>
    <3>1. ToSet(s) = {}
      BY <2>4 DEF ToSet
    <3>2. ToSet(p) = {e} /\ e >= e
      BY <2>2, <3>1
    <3>3. \E x \in ToSet(p) : \A y \in ToSet(p) : x >= y
      BY <3>2
    <3>4. Has(p)
      BY <3>3
    <3> QED BY <2>1, <3>4
  <2>5. CASE s # <<>>
    <3>1. PICK x \in ToSet(s) : \A y \in ToSet(s) : x >= y
      BY <1>2, <2>5
    <3> DEFINE z == IF x >= e THEN x ELSE e
    <3>2. z \in ToSet(p) /\ \A y \in ToSet(p) : z >= y
      BY <2>2, <2>3, <3>1
    <3> QED BY <2>1, <3>2
  <2> QED BY <2>4, <2>5
<1>3. Seq(Nat) \subseteq I
  <2> HIDE DEF I
  <2> QED BY <1>1, <1>2, SequenceInduction
<1>4. PICK x \in ToSet(q) : \A y \in ToSet(q) : x >= y
  BY <1>3
<1>5. Max(ToSet(q)) \in ToSet(q) /\ \A y \in ToSet(q) : Max(ToSet(q)) >= y
  BY <1>4 DEF Max
<1>6. ToSet(q) \subseteq Nat /\ \A i \in DOMAIN q : q[i] \in ToSet(q)
  BY LenProperties DEF ToSet
<1> DEFINE m == Max(ToSet(q))
<1> HIDE DEF m
<1>7. m \in ToSet(q) /\ \A y \in ToSet(q) : m >= y
  BY <1>5 DEF m
<1>8. m \in Nat /\ \A i \in DOMAIN q : q[i] <= m
  BY <1>6, <1>7
<1> QED BY <1>8 DEF m

\* An achievement for speed is not unlocked unless the top speed reaches it,
\* and it is when every match shown does.
THEOREM SpeedsOnTime == Spec => []SpeedsReached
<1>1. TypeOK => SpeedsReached
  <2> SUFFICES ASSUME TypeOK, totalMatches > 0, NEW g \in SpeedGoals
               PROVE  /\ g \in SpeedsUnlocked => maxWpm >= g
                      /\ (\A i \in DOMAIN history : history[i] >= g) => g \in SpeedsUnlocked
    BY DEF SpeedsReached
  <2>1. g \in Nat /\ history \in Seq(Nat)
    BY HistoryAssumption, SeqMonotonic DEF TypeOK, HistoryAssumption
  <2>2. g \in SpeedsUnlocked <=> 2 * totalMatches * g <= 2 * Sum + totalMatches
    BY <2>1, AverageReaches DEF SpeedsUnlocked
  <2>3. totalMatches \in Nat /\ Sum \in Nat
    BY <2>1, AverageReaches
  <2>4. maxWpm \in Nat /\ \A i \in DOMAIN history : history[i] <= maxWpm
    <3>1. maxWpm = Max(ToSet(history))
      BY <2>3 DEF maxWpm
    <3>2. history # <<>>
      BY EmptySeq DEF totalMatches
    <3> QED BY <2>1, <3>1, <3>2, MaxOfList
  <2>5. Sum <= totalMatches * maxWpm
    BY <2>1, <2>4, SumBounds, SumIsFold DEF totalMatches
  <2>6. (\A i \in DOMAIN history : history[i] >= g) => Sum >= totalMatches * g
    BY <2>1, SumBounds, SumIsFold DEF totalMatches
  <2> DEFINE n == totalMatches
             S == Sum
             x == maxWpm
  <2>7. n \in Nat /\ n > 0 /\ S \in Nat /\ x \in Nat /\ g \in Nat /\ S <= n * x
    BY <2>1, <2>3, <2>4, <2>5
  <2> HIDE DEF n, S, x
  <2>8. 2 * n * g <= 2 * S + n => x >= g
    <3> SUFFICES ASSUME 2 * n * g <= 2 * S + n, x < g PROVE FALSE
      BY <2>7
    <3>1. n * g >= n * (x + 1)
      BY <2>7
    <3>2. n * (x + 1) = n * x + n /\ 2 * n * g = 2 * (n * g) /\ n * g \in Nat /\ n * x \in Nat
      BY <2>7
    <3> QED BY <2>7, <3>1, <3>2
  <2>9. S >= n * g => 2 * n * g <= 2 * S + n
    <3>1. 2 * n * g = 2 * (n * g) /\ n * g \in Nat
      BY <2>7
    <3> QED BY <2>7, <3>1
  <2> QED BY <2>2, <2>6, <2>8, <2>9 DEF n, S, x
<1>2. Typed => TypeOK
  BY DEF Typed
<1> QED BY <1>1, <1>2, TypeInit, TypeStep, PTL DEF Spec

=============================================================================
