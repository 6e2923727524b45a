---------------------------- MODULE ArenaProofs -----------------------------
(***************************************************************************)
(* Theorems about TypingArena, for every text, every set of durations, any *)
(* number of games and any Lag, proved with TLAPS.                         *)
(*                                                                         *)
(* Machine says what the queue, the pending effect and the interval can    *)
(* be together: the queue holds ticks, or ticks and then the end of the    *)
(* game on screen, or one start.  Outcomes says which results each game    *)
(* has, and Bounds where the clock and the counters are.                   *)
(***************************************************************************)
EXTENDS TypingArena, Induction, FiniteSetTheorems

Rendering == INSTANCE FoldLaws WITH Op <- Apply

-----------------------------------------------------------------------------
(* The inductive invariants.                                               *)

Stats == [len : Nat, errs : Nat, at : Int]
Screen == [game : Nat, dur : Durations, tl : Int, text : {0, TextLen},
           active : BOOLEAN, fin : BOOLEAN, len : Nat, errs : Nat, stats : Stats]
Key == [op : {"key"}, len : 0..(TextLen + 1), first : BOOLEAN, err : {0, 1},
        stats : Stats, full : BOOLEAN]
Update == [op : {"tick", "finish"}] \union [op : {"start", "choose"}, dur : Durations]
            \union Key
Result == [game : Nat, stats : Stats, errs : Nat, elapsed : Int,
           by : {"timer", "text", "escape"}]

\* What the queue can hold.
TickSeq == Seq({TickUpdate})
OnlyTicks == queue \in TickSeq
EndQueued == \E p \in TickSeq : queue = Append(p, FinishUpdate)
StartQueued == \E d \in Durations : queue = <<StartUpdate(d)>>

Shape ==
  \/ OnlyTicks /\ (mounted /\ effect = NoEffect => ~Expires(shown))
  \/ EndQueued /\ effect = NoEffect /\ mounted /\ Expires(shown)
  \/ StartQueued /\ effect = NoEffect /\ mounted /\ ~shown.active /\ ~shown.fin

Machine ==
  /\ mounted \in BOOLEAN /\ interval \in BOOLEAN
  /\ shown \in Screen /\ ~(shown.active /\ shown.fin)
  /\ effect # NoEffect => effect = shown /\ mounted
  /\ effect = NoEffect => (interval <=> mounted /\ Runs(shown))
  /\ ~mounted => queue = <<>>
  /\ submitted \in Seq(Result) /\ raced \subseteq Nat
  /\ Shape

\* The results of game g in q.
Of(q, g) == {i \in DOMAIN q : q[i].game = g}

\* A game has no result, or one, or it was raced and has two, one by the clock.
Few(q, g, R) ==
  \/ Of(q, g) = {}
  \/ \E i : Of(q, g) = {i}
  \/ g \in R /\ \E i, j : i # j /\ Of(q, g) = {i, j} /\ q[i].by = "timer"

Same(r, s) == r.stats = s.stats /\ r.errs = s.errs

\* What the results q are when s is on screen; ended says that the end of the
\* game is queued.
Decided(s, on, ended, q, R) ==
  /\ \A g \in Nat : g > s.game => Of(q, g) = {}
  /\ \A g \in Nat : Few(q, g, R)
  /\ on /\ ~s.fin /\ ~ended => Of(q, s.game) = {}
  /\ on /\ ended =>
       \E i \in DOMAIN q : Of(q, s.game) = {i} /\ q[i].by = "timer" /\ Same(q[i], s)
  /\ on /\ s.fin /\ s.game \notin R =>
       \E i \in DOMAIN q : Of(q, s.game) = {i} /\ (q[i].by # "text" => Same(q[i], s))

Outcomes == Decided(shown, mounted, EndQueued, submitted, raced)

\* Where the clock and the counters are.
BoundedResult == {r \in Result : r.game <= MaxGames}

Bounds ==
  /\ shown.tl >= -2 * (Lag - 1) /\ \E d \in Durations : shown.tl <= d
  /\ shown.tl - Queued("tick") >= -2 * (Lag - 1)
  /\ Ticks <= Lag
  /\ effect # NoEffect /\ interval => shown.tl >= 1 - Lag
  /\ shown.game + Queued("start") <= MaxGames
  /\ shown.len <= TextLen + 1
  /\ submitted \in Seq(BoundedResult)
  /\ raced \subseteq 0..(MaxGames + 1)

-----------------------------------------------------------------------------
(* Updates and screens.                                                    *)

\* Durations are positive numbers.
LEMMA DurationNumbers == \A d \in Durations : d \in Nat /\ d \in Int /\ d > 0
BY ArenaAssumption DEF ArenaAssumption

\* The kinds of updates.
LEMMA UpdateKinds ==
  /\ TickUpdate \in Update /\ FinishUpdate \in Update /\ TickUpdate # FinishUpdate
  /\ \A d \in Durations : /\ StartUpdate(d) \in Update
                          /\ StartUpdate(d) # TickUpdate /\ StartUpdate(d) # FinishUpdate
                          /\ [op |-> "choose", dur |-> d] \in Update
BY DEF TickUpdate, FinishUpdate, StartUpdate, Update

\* A screen is a record, and the mark of no pending effect is none.
LEMMA ScreenIsNoMark == ASSUME NEW s \in Screen PROVE s # NoEffect
<1>1. "game" \in DOMAIN s
  BY DEF Screen
<1>2. DOMAIN NoEffect = {"none"}
  BY DEF NoEffect
<1> QED BY <1>1, <1>2

\* Applying each kind of update.
LEMMA ApplyKinds ==
  ASSUME NEW s
  PROVE  /\ Apply(s, TickUpdate) = [s EXCEPT !.tl = @ - 1]
         /\ Apply(s, FinishUpdate) = Finished(s)
         /\ \A d : Apply(s, StartUpdate(d)) = Started(s, d)
         /\ \A d : Apply(s, [op |-> "choose", dur |-> d]) = [s EXCEPT !.dur = d]
BY DEF Apply, TickUpdate, FinishUpdate, StartUpdate

\* What the end of a game makes of a screen.
LEMMA FinishedFields ==
  ASSUME NEW s \in Screen
  PROVE  /\ Finished(s) \in Screen /\ ~Finished(s).active /\ Finished(s).fin
         /\ Finished(s).game = s.game /\ Finished(s).dur = s.dur /\ Finished(s).tl = s.tl
         /\ Finished(s).stats = s.stats /\ Finished(s).errs = s.errs /\ Finished(s).len = s.len
BY DEF Finished, Screen

\* What a tick makes of it.
LEMMA TickedFields ==
  ASSUME NEW s \in Screen, NEW k \in Int
  PROVE  LET t == [s EXCEPT !.tl = @ - k]
         IN  /\ t \in Screen /\ t.active = s.active /\ t.fin = s.fin /\ t.tl = s.tl - k
             /\ t.game = s.game /\ t.dur = s.dur
             /\ t.stats = s.stats /\ t.errs = s.errs /\ t.len = s.len
BY DEF Screen

\* What a start makes of it.
LEMMA StartedFields ==
  ASSUME NEW s \in Screen, NEW d \in Durations
  PROVE  /\ Started(s, d) \in Screen /\ ~Started(s, d).active /\ ~Started(s, d).fin
         /\ Started(s, d).game = s.game + 1 /\ Started(s, d).dur = s.dur
         /\ Started(s, d).tl = d /\ d \in Int /\ d > 0 /\ Started(s, d).len = 0
<1>1. NoStats \in Stats /\ d \in Int /\ d > 0 /\ TextLen \in {0, TextLen} /\ 0 \in Nat
  BY ArenaAssumption DEF ArenaAssumption, NoStats, Stats
<1> DEFINE n == s.game + 1
           t1 == [s EXCEPT !.game = n, !.tl = d, !.text = TextLen]
           t2 == [t1 EXCEPT !.active = FALSE, !.fin = FALSE]
<1>0. n \in Nat
  BY DEF Screen
<1> HIDE DEF n
<1>2. t1 \in Screen /\ t1.game = n /\ t1.dur = s.dur /\ t1.tl = d
  <2>1. t1 \in Screen
    BY <1>0, <1>1 DEF Screen
  <2>2. t1.game = n /\ t1.dur = s.dur /\ t1.tl = d
    BY DEF Screen
  <2> QED BY <2>1, <2>2
<1> HIDE DEF t1
<1>3. t2 \in Screen /\ t2.game = n /\ t2.dur = s.dur /\ t2.tl = d /\ ~t2.active /\ ~t2.fin
  BY <1>2 DEF Screen
<1>4. Started(s, d) = [t2 EXCEPT !.len = 0, !.errs = 0, !.stats = NoStats]
  BY DEF Started, t1, n
<1> HIDE DEF t2
<1>5. Started(s, d) \in Screen
  BY <1>1, <1>3, <1>4 DEF Screen
<1>6. /\ ~Started(s, d).active /\ ~Started(s, d).fin /\ Started(s, d).game = n
      /\ Started(s, d).dur = s.dur /\ Started(s, d).tl = d /\ Started(s, d).len = 0
  BY <1>3, <1>4 DEF Screen
<1> QED BY <1>1, <1>5, <1>6 DEF n

\* What the update of a key makes of it.
LEMMA TypedFields ==
  ASSUME NEW s \in Screen, NEW u \in Key
  PROVE  /\ Typed(s, u) \in Screen
         /\ Typed(s, u).game = s.game /\ Typed(s, u).dur = s.dur /\ Typed(s, u).tl = s.tl
         /\ Typed(s, u).len = u.len
         /\ Typed(s, u).active <=> ~u.full /\ (s.active \/ u.first)
         /\ Typed(s, u).fin <=> u.full \/ s.fin
<1> DEFINE act == s.active \/ u.first
           e == s.errs + u.err
           t == [s EXCEPT !.active = act, !.errs = e, !.len = u.len, !.stats = u.stats]
<1>1. act \in BOOLEAN
  OBVIOUS
<1>2. u.len \in Nat /\ u.err \in Nat /\ u.stats \in Stats /\ u.full \in BOOLEAN
  BY ArenaAssumption DEF Key, ArenaAssumption
<1>8. e \in Nat
  BY <1>2 DEF Screen
<1> HIDE DEF act, e
<1>3. /\ t \in Screen /\ t.game = s.game /\ t.dur = s.dur /\ t.tl = s.tl
      /\ t.len = u.len /\ t.active = act /\ t.fin = s.fin
  <2>1. t \in Screen
    BY <1>1, <1>2, <1>8 DEF Screen
  <2>2. /\ t.game = s.game /\ t.dur = s.dur /\ t.tl = s.tl
        /\ t.len = u.len /\ t.active = act /\ t.fin = s.fin
    BY DEF Screen
  <2> QED BY <2>1, <2>2
<1>4. Typed(s, u) = IF u.full THEN Finished(t) ELSE t
  BY DEF Typed, act, e
<1> HIDE DEF t
<1>5. act <=> s.active \/ u.first
  BY DEF act
<1>6. CASE u.full
  BY <1>3, <1>4, <1>6, FinishedFields
<1>7. CASE ~u.full
  BY <1>3, <1>4, <1>5, <1>7
<1> QED BY <1>2, <1>6, <1>7

\* Applying an update to a screen gives a screen.
LEMMA ApplyTyped ==
  ASSUME NEW s \in Screen, NEW u \in Update
  PROVE  Apply(s, u) \in Screen
<1>1. CASE u.op = "tick"
  BY <1>1 DEF Apply, Screen
<1>2. CASE u.op = "finish"
  BY <1>2 DEF Apply, Screen, Finished
<1>3. CASE u.op = "start" /\ u.dur \in Durations
  BY <1>3, StartedFields, ApplyKinds DEF Apply
<1>4. CASE u.op = "choose" /\ u.dur \in Durations
  BY <1>4 DEF Apply, Screen
<1>5. CASE u.op = "key" /\ u \in Key
  BY <1>5, TypedFields DEF Apply
<1> QED BY <1>1, <1>2, <1>3, <1>4, <1>5 DEF Update, Key

-----------------------------------------------------------------------------
(* Rendering.                                                              *)

\* Rendering folds.
LEMMA RenderedIsFold == ASSUME NEW s, NEW q PROVE Rendered(s, q) = Rendering!Fold(s, q)
BY DEF Rendered, Rendering!Fold, Rendering!FoldLeft, FoldLeft, Rendering!MapThenFoldSet,
       MapThenFoldSet, Rendering!Max, Max

\* Rendering nothing, one update more, and one queue after another.
LEMMA RenderedLaws ==
  /\ \A s : Rendered(s, <<>>) = s
  /\ \A s : \A q \in Seq(Update), u \in Update :
       Rendered(s, Append(q, u)) = Apply(Rendered(s, q), u)
  /\ \A s : \A p, q \in Seq(Update) : Rendered(s, p \o q) = Rendered(Rendered(s, p), q)
<1>1. ASSUME NEW s PROVE Rendered(s, <<>>) = s
  BY RenderedIsFold, Rendering!FoldEmpty
<1>2. ASSUME NEW s, NEW q \in Seq(Update), NEW u \in Update
      PROVE  Rendered(s, Append(q, u)) = Apply(Rendered(s, q), u)
  BY RenderedIsFold, Rendering!FoldAppend
<1>3. ASSUME NEW s, NEW p \in Seq(Update), NEW q \in Seq(Update)
      PROVE  Rendered(s, p \o q) = Rendered(Rendered(s, p), q)
  BY RenderedIsFold, Rendering!FoldConcat
<1> QED BY <1>1, <1>2, <1>3

\* A queue of updates makes a screen of a screen.
LEMMA RenderedTyped ==
  ASSUME NEW s \in Screen, NEW q \in Seq(Update)
  PROVE  Rendered(s, q) \in Screen
BY ApplyTyped, RenderedIsFold, Rendering!FoldKeeps

\* Ticks move the clock and nothing else.
LEMMA RenderedTicks ==
  ASSUME NEW s \in Screen, NEW q \in TickSeq
  PROVE  /\ q \in Seq(Update) /\ Len(q) \in Nat
         /\ Rendered(s, q) = [s EXCEPT !.tl = @ - Len(q)]
<1> DEFINE I == {p \in TickSeq : p \in Seq(Update) /\ Rendered(s, p) = [s EXCEPT !.tl = @ - Len(p)]}
<1>1. <<>> \in I
  <2>1. s = [s EXCEPT !.tl = @ - 0]
    BY DEF Screen
  <2> QED BY <2>1, RenderedLaws, EmptySeq DEF TickSeq
<1>2. ASSUME NEW p \in TickSeq, NEW u \in {TickUpdate}, p \in I PROVE Append(p, u) \in I
  <2>1. /\ Append(p, u) \in TickSeq /\ Append(p, u) \in Seq(Update)
        /\ Len(Append(p, u)) = Len(p) + 1 /\ Len(p) \in Nat
    BY <1>2, UpdateKinds, AppendProperties, LenProperties DEF TickSeq
  <2>2. Rendered(s, Append(p, u)) = [[s EXCEPT !.tl = @ - Len(p)] EXCEPT !.tl = @ - 1]
    <3>1. Rendered(s, Append(p, u)) = Apply(Rendered(s, p), TickUpdate)
      BY <1>2, UpdateKinds, RenderedLaws
    <3> QED BY <1>2, <3>1, ApplyKinds
  <2> DEFINE k == Len(p)
  <2> HIDE DEF k
  <2>3. k \in Nat => [[s EXCEPT !.tl = @ - k] EXCEPT !.tl = @ - 1] = [s EXCEPT !.tl = @ - (k + 1)]
    <3> SUFFICES ASSUME k \in Nat
                 PROVE  [[s EXCEPT !.tl = @ - k] EXCEPT !.tl = @ - 1] = [s EXCEPT !.tl = @ - (k + 1)]
      OBVIOUS
    <3>1. s.tl \in Int
      BY DEF Screen
    <3>2. (s.tl - k) - 1 = s.tl - (k + 1)
      BY <3>1
    <3> DEFINE a == s.tl - k
               b == s.tl - (k + 1)
    <3> HIDE DEF a, b
    <3>3. [[s EXCEPT !.tl = a] EXCEPT !.tl = @ - 1] = [s EXCEPT !.tl = a - 1]
      BY DEF Screen
    <3> QED BY <3>2, <3>3 DEF a, b
  <2> QED BY <2>1, <2>2, <2>3 DEF k
<1> HIDE DEF I
<1>3. TickSeq \subseteq I
  BY <1>1, <1>2, SequenceInduction DEF TickSeq
<1> QED BY <1>3, LenProperties DEF I, TickSeq

\* What one update more makes of a screen, and what the end of a game does then.
LEMMA RenderedDiscrete ==
  ASSUME NEW s, NEW q \in Seq(Update), NEW u \in Update, NEW late \in {<<>>, <<FinishUpdate>>}
  PROVE  Rendered(s, q \o <<u>> \o late) =
           IF late = <<>> THEN Apply(Rendered(s, q), u) ELSE Finished(Apply(Rendered(s, q), u))
<1>1. q \o <<u>> = Append(q, u) /\ Append(q, u) \in Seq(Update)
  BY AppendIsConcat, AppendProperties
<1>2. Rendered(s, Append(q, u)) = Apply(Rendered(s, q), u)
  BY RenderedLaws
<1>3. CASE late = <<>>
  <2>1. Append(q, u) \o <<>> = Append(q, u)
    BY <1>1, ConcatEmptySeq
  <2> QED BY <1>1, <1>2, <1>3, <2>1
<1>4. CASE late = <<FinishUpdate>>
  <2>1. Append(q, u) \o <<FinishUpdate>> = Append(Append(q, u), FinishUpdate)
    BY <1>1, UpdateKinds, AppendIsConcat
  <2>2. Rendered(s, Append(Append(q, u), FinishUpdate)) = Finished(Apply(Rendered(s, q), u))
    <3>1. Rendered(s, Append(Append(q, u), FinishUpdate)) = Apply(Rendered(s, Append(q, u)), FinishUpdate)
      BY <1>1, UpdateKinds, RenderedLaws
    <3> QED BY <1>2, <3>1, ApplyKinds
  <2>3. <<FinishUpdate>> # <<>>
    OBVIOUS
  <2> QED BY <1>1, <1>4, <2>1, <2>2, <2>3
<1> QED BY <1>3, <1>4

\* What is queued, rendered: the clock moves on, the game ends, or one starts.
Ticked(k) == [shown EXCEPT !.tl = @ - k]

\* What each of the three kinds of queues makes of the screen.
LEMMA QueueRendered ==
  ASSUME Machine
  PROVE  /\ queue \in Seq(Update)
         /\ Rendered(shown, queue) \in Screen
         /\ OnlyTicks => Len(queue) \in Nat /\ Rendered(shown, queue) = Ticked(Len(queue))
         /\ \A p \in TickSeq : queue = Append(p, FinishUpdate) =>
              Len(p) \in Nat /\ Rendered(shown, queue) = Finished(Ticked(Len(p)))
         /\ \A d \in Durations : queue = <<StartUpdate(d)>> =>
              Rendered(shown, queue) = Started(shown, d)
<1>0. shown \in Screen
  BY DEF Machine
<1>1. ASSUME OnlyTicks
      PROVE  queue \in Seq(Update) /\ Len(queue) \in Nat /\ Rendered(shown, queue) = Ticked(Len(queue))
  BY <1>0, <1>1, RenderedTicks DEF OnlyTicks, Ticked
<1>2. ASSUME NEW p \in TickSeq, queue = Append(p, FinishUpdate)
      PROVE  queue \in Seq(Update) /\ Len(p) \in Nat /\ Rendered(shown, queue) = Finished(Ticked(Len(p)))
  <2>1. p \in Seq(Update) /\ Len(p) \in Nat /\ Rendered(shown, p) = Ticked(Len(p))
    BY <1>0, RenderedTicks DEF Ticked
  <2> QED BY <1>2, <2>1, UpdateKinds, RenderedLaws, ApplyKinds, AppendProperties
<1>3. ASSUME NEW d \in Durations, queue = <<StartUpdate(d)>>
      PROVE  queue \in Seq(Update) /\ Rendered(shown, queue) = Started(shown, d)
  <2>1. <<>> \in Seq(Update) /\ queue = Append(<<>>, StartUpdate(d))
    BY <1>3, EmptySeq
  <2>2. StartUpdate(d) \in Update
    BY UpdateKinds
  <2>3. Rendered(shown, queue) = Apply(Rendered(shown, <<>>), StartUpdate(d))
    BY <2>1, <2>2, RenderedLaws
  <2>4. queue \in Seq(Update)
    BY <2>1, <2>2, AppendProperties
  <2>5. Rendered(shown, <<>>) = shown
    BY RenderedLaws
  <2>6. Apply(shown, StartUpdate(d)) = Started(shown, d)
    BY ApplyKinds
  <2> QED BY <2>3, <2>4, <2>5, <2>6
<1>4. queue \in Seq(Update)
  BY <1>1, <1>2, <1>3 DEF Machine, Shape, EndQueued, StartQueued
<1> QED BY <1>0, <1>1, <1>2, <1>3, <1>4, RenderedTyped

-----------------------------------------------------------------------------
(* Keys and clicks.                                                        *)

\* Has the clock run out with the effect still to come?
Pend == effect # NoEffect /\ Expires(effect)

\* What the queue makes of the screen, and what a handler's update u then does.
Base == Rendered(shown, queue)
After(u) == IF Pend THEN Finished(Apply(Base, u)) ELSE Apply(Base, u)

\* Does the effect after that end a game?
Rings(u) == DepsChanged(shown, After(u)) /\ Expires(After(u))

\* A queue that ends in the end of a game is not one of ticks, or of a start.
LEMMA KindsOf ==
  ASSUME NEW q
  PROVE  /\ q \in TickSeq => FinishUpdate \notin ToSet(q) /\ \A i \in DOMAIN q : q[i] = TickUpdate
         /\ \A p \in TickSeq : q = Append(p, FinishUpdate) => FinishUpdate \in ToSet(q)
         /\ \A d \in Durations : q = <<StartUpdate(d)>> =>
              FinishUpdate \notin ToSet(q) /\ StartUpdate(d) \in ToSet(q)
<1>1. ASSUME q \in TickSeq PROVE \A i \in DOMAIN q : q[i] = TickUpdate
  BY <1>1, LenProperties, ElementOfSeq DEF TickSeq
<1>2. ASSUME NEW p \in TickSeq, q = Append(p, FinishUpdate) PROVE FinishUpdate \in ToSet(q)
  <2>1. p \in Seq({TickUpdate, FinishUpdate}) /\ FinishUpdate \in {TickUpdate, FinishUpdate}
    BY SeqMonotonic DEF TickSeq
  <2>2. /\ q \in Seq({TickUpdate, FinishUpdate}) /\ Len(q) = Len(p) + 1
        /\ q[Len(p) + 1] = FinishUpdate /\ Len(p) \in Nat
    BY <1>2, <2>1, AppendProperties, LenProperties
  <2>3. DOMAIN q = 1..Len(q)
    BY <2>2, LenProperties
  <2>4. Len(p) + 1 \in 1..(Len(p) + 1)
    BY <2>2
  <2> QED BY <2>2, <2>3, <2>4 DEF ToSet
<1>3. ASSUME NEW d \in Durations, q = <<StartUpdate(d)>>
      PROVE  1 \in DOMAIN q /\ q[1] = StartUpdate(d) /\ \A i \in DOMAIN q : i = 1
  BY <1>3
<1> QED BY <1>1, <1>2, <1>3, UpdateKinds DEF ToSet

\* The three kinds of queues exclude each other.
LEMMA QueueKinds ==
  /\ OnlyTicks => ~EndQueued /\ ~StartQueued
  /\ EndQueued => ~StartQueued
  /\ EndQueued <=> EndQueued /\ FinishUpdate \in ToSet(queue)
  /\ OnlyTicks \/ StartQueued => FinishUpdate \notin ToSet(queue)
<1>1. OnlyTicks => ~StartQueued
  <2> SUFFICES ASSUME OnlyTicks, NEW d \in Durations, queue = <<StartUpdate(d)>> PROVE FALSE
    BY DEF StartQueued
  <2> QED BY KindsOf, UpdateKinds DEF OnlyTicks, ToSet
<1> QED BY <1>1, KindsOf DEF OnlyTicks, EndQueued, StartQueued

\* A race is a key or a click while the end or the start of a game is queued,
\* or while an effect that ends one is pending.
LEMMA RaceKinds == ASSUME Machine PROVE Unrendered <=> Pend \/ EndQueued \/ StartQueued
<1>1. ASSUME OnlyTicks, NEW i \in DOMAIN queue PROVE queue[i].op \notin {"start", "finish"}
  <2>1. queue[i] = TickUpdate
    BY <1>1, LenProperties, ElementOfSeq DEF OnlyTicks, TickSeq
  <2> QED BY <2>1 DEF TickUpdate
<1>2. ASSUME EndQueued PROVE \E i \in DOMAIN queue : queue[i].op \in {"start", "finish"}
  <2>1. PICK i \in DOMAIN queue : queue[i] = FinishUpdate
    BY <1>2, QueueKinds DEF ToSet
  <2> QED BY <2>1 DEF FinishUpdate
<1>3. ASSUME NEW d \in Durations, queue = <<StartUpdate(d)>>
      PROVE  \E i \in DOMAIN queue : queue[i].op \in {"start", "finish"}
  <2>1. 1 \in DOMAIN queue /\ queue[1].op = "start"
    BY <1>3 DEF StartUpdate
  <2> QED BY <2>1
<1>4. ASSUME StartQueued PROVE \E i \in DOMAIN queue : queue[i].op \in {"start", "finish"}
  BY <1>3, <1>4 DEF StartQueued
<1> QED BY <1>1, <1>2, <1>4, QueueKinds DEF Machine, Shape, Unrendered, Pend

\* What the queue makes of the screen, field by field.
LEMMA BaseFields ==
  ASSUME Machine
  PROVE  /\ Base \in Screen /\ Base.dur = shown.dur
         /\ OnlyTicks => /\ Base.game = shown.game
                         /\ Base.active = shown.active /\ Base.fin = shown.fin
                         /\ Base.stats = shown.stats /\ Base.errs = shown.errs
         /\ EndQueued => /\ Base.game = shown.game /\ ~Base.active /\ Base.fin
                         /\ Base.stats = shown.stats /\ Base.errs = shown.errs
         /\ StartQueued => /\ Base.game = shown.game + 1 /\ ~Base.active /\ ~Base.fin /\ Base.tl > 0
<1>0. shown \in Screen
  BY DEF Machine
<1>1. ASSUME OnlyTicks
      PROVE  /\ Base \in Screen /\ Base.dur = shown.dur /\ Base.game = shown.game
             /\ Base.active = shown.active /\ Base.fin = shown.fin
             /\ Base.stats = shown.stats /\ Base.errs = shown.errs
  <2>1. Len(queue) \in Int /\ Base = Ticked(Len(queue))
    BY <1>1, QueueRendered DEF Base
  <2> QED BY <1>0, <2>1, TickedFields DEF Ticked
<1>2. ASSUME NEW p \in TickSeq, queue = Append(p, FinishUpdate)
      PROVE  /\ Base \in Screen /\ Base.dur = shown.dur /\ Base.game = shown.game
             /\ ~Base.active /\ Base.fin
             /\ Base.stats = shown.stats /\ Base.errs = shown.errs
  <2>1. Len(p) \in Int /\ Base = Finished(Ticked(Len(p)))
    BY <1>2, QueueRendered DEF Base
  <2>2. /\ Ticked(Len(p)) \in Screen /\ Ticked(Len(p)).dur = shown.dur
        /\ Ticked(Len(p)).game = shown.game
        /\ Ticked(Len(p)).stats = shown.stats /\ Ticked(Len(p)).errs = shown.errs
    BY <1>0, <2>1, TickedFields DEF Ticked
  <2> QED BY <2>1, <2>2, FinishedFields
<1>3. ASSUME NEW d \in Durations, queue = <<StartUpdate(d)>>
      PROVE  /\ Base \in Screen /\ Base.dur = shown.dur /\ Base.game = shown.game + 1
             /\ ~Base.active /\ ~Base.fin /\ Base.tl > 0
  <2>1. Base = Started(shown, d)
    BY <1>3, QueueRendered DEF Base
  <2> QED BY <1>0, <2>1, StartedFields
<1> QED BY <1>1, <1>2, <1>3, QueueKinds DEF Machine, Shape, EndQueued, StartQueued

\* What is submitted is a result.
LEMMA SubmissionTyped ==
  ASSUME NEW s \in Screen, NEW by \in {"timer", "text", "escape"}
  PROVE  /\ Submission(s, by) \in Result /\ Submission(s, by).game = s.game
         /\ Submission(s, by).by = by
         /\ Submission(s, by).stats = s.stats /\ Submission(s, by).errs = s.errs
<1>1. s.dur \in Durations /\ s.tl \in Int /\ s.game \in Nat /\ s.stats \in Stats /\ s.errs \in Nat
  BY DEF Screen
<1>2. s.dur \in Int
  BY <1>1, DurationNumbers
<1>3. s.dur - s.tl \in Int
  BY <1>1, <1>2
<1> QED BY <1>1, <1>3 DEF Submission, Result

\* What a handler does to the state, in these terms.
LEMMA DiscreteSays ==
  ASSUME Machine, NEW u \in Update, NEW results, NEW starts, Discrete(<<u>>, results, starts)
  PROVE  /\ mounted /\ mounted' /\ shown' = After(u) /\ After(u) \in Screen
         /\ effect' = NoEffect
         /\ queue' = starts \o (IF Rings(u) THEN <<FinishUpdate>> ELSE <<>>)
         /\ submitted' = submitted \o results
              \o (IF Pend THEN <<Submission(shown, "timer")>> ELSE <<>>)
              \o (IF Rings(u) THEN <<Submission(After(u), "timer")>> ELSE <<>>)
         /\ interval' <=> Runs(After(u))
         /\ raced' = IF Unrendered THEN raced \union {shown.game, shown.game + 1} ELSE raced
<1> DEFINE late == IF effect = NoEffect THEN <<>> ELSE ExpiryUpdates(effect)
           s == Rendered(shown, queue \o <<u>> \o late)
           again == DepsChanged(shown, s)
<1>1. late = IF Pend THEN <<FinishUpdate>> ELSE <<>>
  BY DEF Pend, ExpiryUpdates
<1>2. s = After(u)
  <2>1. queue \in Seq(Update) /\ late \in {<<>>, <<FinishUpdate>>}
    BY <1>1, QueueRendered
  <2>2. <<FinishUpdate>> # <<>>
    OBVIOUS
  <2> HIDE DEF late
  <2> QED BY <1>1, <2>1, <2>2, RenderedDiscrete DEF After, Base
<1>3. /\ mounted /\ shown' = s /\ effect' = NoEffect
      /\ queue' = starts \o (IF again THEN ExpiryUpdates(s) ELSE <<>>)
      /\ submitted' = submitted \o results
           \o (IF effect = NoEffect THEN <<>> ELSE ExpiryResult(effect))
           \o (IF again THEN ExpiryResult(s) ELSE <<>>)
      /\ interval' = (IF again THEN Runs(s)
                      ELSE IF effect # NoEffect THEN Runs(effect) ELSE interval)
      /\ raced' = IF Unrendered THEN raced \union {shown.game, shown.game + 1} ELSE raced
      /\ mounted' = mounted
  BY DEF Discrete, MarkRace
<1> HIDE DEF late, s
<1>4. After(u) \in Screen
  BY BaseFields, ApplyTyped, FinishedFields DEF After
<1>5. interval' <=> Runs(After(u))
  <2>1. CASE again
    BY <1>2, <1>3, <2>1
  <2>2. CASE ~again
    <3>1. Runs(After(u)) <=> Runs(shown)
      BY <1>2, <1>4, <2>2 DEF DepsChanged, Runs, Machine, Screen
    <3> QED BY <1>3, <2>2, <3>1 DEF Machine
  <2> QED BY <2>1, <2>2
<1>6. (IF again THEN ExpiryUpdates(s) ELSE <<>>) = IF Rings(u) THEN <<FinishUpdate>> ELSE <<>>
  BY <1>2 DEF Rings, ExpiryUpdates
<1>7. (IF again THEN ExpiryResult(s) ELSE <<>>)
        = IF Rings(u) THEN <<Submission(After(u), "timer")>> ELSE <<>>
  BY <1>2 DEF Rings, ExpiryResult
<1>8. (IF effect = NoEffect THEN <<>> ELSE ExpiryResult(effect))
        = IF Pend THEN <<Submission(shown, "timer")>> ELSE <<>>
  BY DEF Pend, ExpiryResult, Machine
<1> QED BY <1>2, <1>3, <1>4, <1>5, <1>6, <1>7, <1>8

-----------------------------------------------------------------------------
(* The machine: types, the shape of the queue, the interval.               *)

\* A handler keeps the machine if a game whose time is up does not go on.
LEMMA DiscreteMachine ==
  ASSUME Machine, NEW u \in Update, NEW results \in Seq(Result), NEW starts,
         Discrete(<<u>>, results, starts),
         ~(After(u).active /\ After(u).fin),
         Expires(shown) => ~After(u).active,
         \/ starts = <<>>
         \/ /\ \E d \in Durations : starts = <<StartUpdate(d)>>
            /\ ~After(u).active /\ ~After(u).fin
  PROVE  Machine'
<1>1. /\ mounted /\ mounted' /\ shown' = After(u) /\ After(u) \in Screen
      /\ effect' = NoEffect
      /\ queue' = starts \o (IF Rings(u) THEN <<FinishUpdate>> ELSE <<>>)
      /\ submitted' = submitted \o results
           \o (IF Pend THEN <<Submission(shown, "timer")>> ELSE <<>>)
           \o (IF Rings(u) THEN <<Submission(After(u), "timer")>> ELSE <<>>)
      /\ interval' <=> Runs(After(u))
      /\ raced' = IF Unrendered THEN raced \union {shown.game, shown.game + 1} ELSE raced
  BY DiscreteSays
<1>2. interval' \in BOOLEAN
  BY DEF Discrete, Runs, Machine
<1>3. submitted' \in Seq(Result)
  <2> DEFINE late == IF Pend THEN <<Submission(shown, "timer")>> ELSE <<>>
             last == IF Rings(u) THEN <<Submission(After(u), "timer")>> ELSE <<>>
  <2>1. late \in Seq(Result)
    <3>1. Submission(shown, "timer") \in Result
      BY SubmissionTyped DEF Machine
    <3> QED BY <3>1, EmptySeq
  <2>2. last \in Seq(Result)
    <3>1. Submission(After(u), "timer") \in Result
      BY <1>1, SubmissionTyped
    <3> QED BY <3>1, EmptySeq
  <2>3. submitted \in Seq(Result)
    BY DEF Machine
  <2> HIDE DEF late, last
  <2>4. submitted \o results \in Seq(Result)
    BY <2>3, ConcatProperties
  <2>5. submitted \o results \o late \in Seq(Result)
    BY <2>1, <2>4, ConcatProperties
  <2>6. submitted \o results \o late \o last \in Seq(Result)
    BY <2>2, <2>5, ConcatProperties
  <2> QED BY <1>1, <2>6 DEF late, last
<1>4. raced' \subseteq Nat
  <2>1. shown.game \in Nat /\ shown.game + 1 \in Nat /\ raced \subseteq Nat
    BY DEF Machine, Screen
  <2> QED BY <1>1, <2>1
<1>5. Shape'
  <2>1. CASE Rings(u)
    <3>1. After(u).active /\ Expires(After(u))
      BY <2>1 DEF Rings, Expires
    <3>2. queue' = Append(<<>>, FinishUpdate)
      BY <1>1, <2>1, <3>1
    <3>3. <<>> \in TickSeq
      BY EmptySeq DEF TickSeq
    <3>4. EndQueued'
      BY <3>2, <3>3 DEF EndQueued
    <3> QED BY <1>1, <3>1, <3>4 DEF Shape
  <2>2. CASE ~Rings(u) /\ starts = <<>>
    <3>1. queue' = <<>>
      BY <1>1, <2>2
    <3>2. OnlyTicks'
      BY <3>1, EmptySeq DEF OnlyTicks, TickSeq
    <3>3. ~Expires(After(u))
      <4>1. CASE DepsChanged(shown, After(u))
        BY <2>2, <4>1 DEF Rings
      <4>2. CASE ~DepsChanged(shown, After(u))
        <5>1. Expires(After(u)) => Expires(shown)
          BY <1>1, <4>2 DEF DepsChanged, Expires, Runs, Machine, Screen
        <5> QED BY <5>1 DEF Expires
      <4> QED BY <4>1, <4>2
    <3> QED BY <1>1, <3>2, <3>3 DEF Shape
  <2>3. CASE ~Rings(u) /\ starts # <<>>
    <3>1. PICK d \in Durations : starts = <<StartUpdate(d)>>
      BY <2>3
    <3>2. queue' = <<StartUpdate(d)>>
      BY <1>1, <2>3, <3>1
    <3>3. StartQueued'
      BY <3>2 DEF StartQueued
    <3> QED BY <1>1, <2>3, <3>3 DEF Shape
  <2> QED BY <2>1, <2>2, <2>3
<1> QED BY <1>1, <1>2, <1>3, <1>4, <1>5 DEF Machine

\* A key is one of the updates.
LEMMA KeyTyped ==
  ASSUME Machine, NEW n \in 0..(TextLen + 1), NEW wrong \in BOOLEAN
  PROVE  /\ KeyUpdate(n, wrong) \in Key /\ KeyUpdate(n, wrong) \in Update
         /\ \A s : Apply(s, KeyUpdate(n, wrong)) = Typed(s, KeyUpdate(n, wrong))
         /\ KeyUpdate(n, wrong).first = ~shown.active
         /\ KeyUpdate(n, wrong).full <=> n >= shown.text
<1> DEFINE k == KeyUpdate(n, wrong)
<1>1. shown.dur \in Durations /\ shown.tl \in Int /\ shown.errs \in Nat /\ n \in Nat
  BY ArenaAssumption DEF Machine, Screen, ArenaAssumption
<1>2. shown.dur - shown.tl \in Int
  <2>1. shown.dur \in Int
    BY <1>1, DurationNumbers
  <2> QED BY <1>1, <2>1
<1>3. k.stats \in Stats
  BY <1>1, <1>2 DEF KeyUpdate, Stats
<1>4. /\ k.op = "key" /\ k.len = n /\ k.first = ~shown.active /\ k.full = (n >= shown.text)
      /\ k.err \in {0, 1}
  BY DEF KeyUpdate
<1>5. k.first \in BOOLEAN /\ k.full \in BOOLEAN
  BY <1>4
<1>6. k = [op |-> k.op, len |-> k.len, first |-> k.first, err |-> k.err, stats |-> k.stats,
           full |-> k.full]
  BY DEF KeyUpdate
<1> HIDE DEF k
<1>7. k \in Key
  BY <1>3, <1>4, <1>5, <1>6 DEF Key
<1>8. \A s : Apply(s, k) = Typed(s, k)
  BY <1>4 DEF Apply
<1> QED BY <1>4, <1>7, <1>8 DEF k, Update

\* What is on the screen after a key.
LEMMA ChangeFields ==
  ASSUME Machine, NEW n \in 0..(TextLen + 1), NEW wrong \in BOOLEAN, ~shown.fin, mounted
  PROVE  LET u == KeyUpdate(n, wrong)
             full == n >= shown.text
         IN  /\ After(u).game = Base.game /\ After(u).tl = Base.tl /\ After(u) \in Screen
             /\ After(u).dur = Base.dur /\ After(u).len = n
             /\ OnlyTicks /\ ~Pend => (After(u).active <=> ~full) /\ (After(u).fin <=> full)
             /\ Pend \/ EndQueued => ~After(u).active /\ After(u).fin
             /\ StartQueued => (After(u).active <=> ~full) /\ (After(u).fin <=> full)
<1> DEFINE u == KeyUpdate(n, wrong)
           t == Typed(Base, u)
           full == n >= shown.text
<1>1. /\ u \in Key /\ Apply(Base, u) = t /\ u.first = ~shown.active /\ (u.full <=> full)
      /\ u.len = n
  BY KeyTyped DEF KeyUpdate
<1>2. Base \in Screen
  BY BaseFields
<1> HIDE DEF u
<1>3. /\ t \in Screen /\ t.game = Base.game /\ t.dur = Base.dur /\ t.tl = Base.tl /\ t.len = n
      /\ (t.active <=> ~full /\ (Base.active \/ ~shown.active))
      /\ (t.fin <=> full \/ Base.fin)
  BY <1>1, <1>2, TypedFields
<1> HIDE DEF t, full
<1>4. /\ After(u) \in Screen /\ After(u).game = t.game /\ After(u).tl = t.tl
      /\ After(u).dur = t.dur /\ After(u).len = t.len
      /\ (Pend => ~After(u).active /\ After(u).fin)
      /\ (~Pend => After(u) = t)
  BY <1>1, <1>3, FinishedFields DEF After
<1>5. OnlyTicks /\ ~Pend => (After(u).active <=> ~full) /\ (After(u).fin <=> full)
  BY <1>3, <1>4, BaseFields
<1>6. EndQueued => shown.active /\ ~Base.active /\ Base.fin
  BY BaseFields, QueueKinds DEF Machine, Shape, Expires
<1>7. StartQueued => ~shown.active /\ ~Base.active /\ ~Base.fin /\ ~Pend
  BY BaseFields, QueueKinds DEF Machine, Shape, Pend
<1>8. Pend \/ EndQueued => ~After(u).active /\ After(u).fin
  BY <1>3, <1>4, <1>6
<1>9. StartQueued => (After(u).active <=> ~full) /\ (After(u).fin <=> full)
  BY <1>3, <1>4, <1>7
<1> QED BY <1>3, <1>4, <1>5, <1>8, <1>9 DEF u, full

\* What is on the screen after Escape, a restart or a choice.
LEMMA ClickFields ==
  ASSUME Machine
  PROVE  /\ LET s == After(FinishUpdate)
            IN  /\ s \in Screen /\ ~s.active /\ s.fin /\ s.game = Base.game
                /\ s.dur = Base.dur /\ s.tl = Base.tl /\ s.len = Base.len
                /\ s.stats = Base.stats /\ s.errs = Base.errs
         /\ LET s == After(StartUpdate(shown.dur))
            IN  /\ s \in Screen /\ ~s.active /\ (s.fin <=> Pend) /\ s.game = Base.game + 1
                /\ s.dur = Base.dur /\ s.tl = shown.dur /\ s.len = 0
         /\ ~Pend => \A d \in Durations :
              LET s == After([op |-> "choose", dur |-> d])
              IN  /\ s \in Screen /\ s.active = Base.active /\ s.fin = Base.fin
                  /\ s.game = Base.game /\ s.tl = Base.tl /\ s.dur = d /\ s.len = Base.len
<1>1. Base \in Screen /\ shown.dur \in Durations
  BY BaseFields DEF Machine, Screen
<1>2. LET s == After(FinishUpdate)
      IN  /\ s \in Screen /\ ~s.active /\ s.fin /\ s.game = Base.game
          /\ s.dur = Base.dur /\ s.tl = Base.tl /\ s.len = Base.len
          /\ s.stats = Base.stats /\ s.errs = Base.errs
  <2> DEFINE f == Finished(Base)
  <2>1. After(FinishUpdate) \in {f, Finished(f)}
    BY ApplyKinds DEF After
  <2>2. /\ f \in Screen /\ ~f.active /\ f.fin /\ f.game = Base.game
        /\ f.dur = Base.dur /\ f.tl = Base.tl /\ f.len = Base.len
        /\ f.stats = Base.stats /\ f.errs = Base.errs
    BY <1>1, FinishedFields
  <2> HIDE DEF f
  <2> QED BY <2>1, <2>2, FinishedFields
<1>3. LET s == After(StartUpdate(shown.dur))
      IN  /\ s \in Screen /\ ~s.active /\ (s.fin <=> Pend) /\ s.game = Base.game + 1
          /\ s.dur = Base.dur /\ s.tl = shown.dur /\ s.len = 0
  <2> DEFINE f == Started(Base, shown.dur)
  <2>1. After(StartUpdate(shown.dur)) = IF Pend THEN Finished(f) ELSE f
    BY ApplyKinds DEF After
  <2>2. /\ f \in Screen /\ ~f.active /\ ~f.fin /\ f.game = Base.game + 1
        /\ f.dur = Base.dur /\ f.tl = shown.dur /\ f.len = 0
    BY <1>1, StartedFields
  <2> HIDE DEF f
  <2>3. CASE Pend
    BY <2>1, <2>2, <2>3, FinishedFields
  <2>4. CASE ~Pend
    BY <2>1, <2>2, <2>4
  <2> QED BY <2>3, <2>4
<1>4. ASSUME ~Pend, NEW d \in Durations
      PROVE  LET s == After([op |-> "choose", dur |-> d])
             IN  /\ s \in Screen /\ s.active = Base.active /\ s.fin = Base.fin
                 /\ s.game = Base.game /\ s.tl = Base.tl /\ s.dur = d /\ s.len = Base.len
  <2>1. After([op |-> "choose", dur |-> d]) = [Base EXCEPT !.dur = d]
    BY <1>4, ApplyKinds DEF After
  <2> QED BY <1>1, <2>1 DEF Screen
<1> QED BY <1>2, <1>3, <1>4

\* Where a handler can find the end of a game that is not on screen yet.
LEMMA ExpiredSomewhere ==
  ASSUME Machine, mounted
  PROVE  /\ Expires(shown) => Pend \/ EndQueued
         /\ Pend => OnlyTicks /\ shown.active /\ Expires(shown)
         /\ EndQueued => ~Pend /\ shown.active /\ Expires(shown)
         /\ StartQueued => ~Pend /\ ~shown.active /\ ~shown.fin
         /\ OnlyTicks \/ EndQueued \/ StartQueued
BY QueueKinds DEF Machine, Shape, Pend, Expires

\* handleChange keeps the machine.
LEMMA ChangeMachine ==
  ASSUME Machine, NEW n \in 0..(TextLen + 1), NEW wrong \in BOOLEAN, Change(n, wrong)
  PROVE  Machine'
<1> DEFINE u == KeyUpdate(n, wrong)
           results == IF n >= shown.text THEN <<Submission(shown, "text")>> ELSE <<>>
<1>1. u \in Update /\ ~shown.fin /\ mounted /\ Discrete(<<u>>, results, <<>>)
  BY KeyTyped DEF Change, Discrete
<1>2. results \in Seq(Result)
  <2>1. Submission(shown, "text") \in Result
    BY SubmissionTyped DEF Machine
  <2> QED BY <2>1, EmptySeq
<1>3. ~(After(u).active /\ After(u).fin) /\ (Expires(shown) => ~After(u).active)
  <2> DEFINE full == n >= shown.text
  <2>1. /\ OnlyTicks /\ ~Pend => (After(u).active <=> ~full) /\ (After(u).fin <=> full)
        /\ Pend \/ EndQueued => ~After(u).active /\ After(u).fin
        /\ StartQueued => (After(u).active <=> ~full) /\ (After(u).fin <=> full)
    BY <1>1, ChangeFields
  <2> HIDE DEF u, full
  <2> QED BY <1>1, <2>1, ExpiredSomewhere
<1> HIDE DEF u, results
<1> QED BY <1>1, <1>2, <1>3, DiscreteMachine

\* Escape keeps it.
LEMMA EscapeMachine == ASSUME Machine, Escape PROVE Machine'
<1> DEFINE results == <<Submission(shown, "escape")>>
<1>1. FinishUpdate \in Update /\ Discrete(<<FinishUpdate>>, results, <<>>)
  BY UpdateKinds DEF Escape
<1>2. results \in Seq(Result)
  <2>1. Submission(shown, "escape") \in Result
    BY SubmissionTyped DEF Machine
  <2> QED BY <2>1
<1> HIDE DEF results
<1> QED BY <1>1, <1>2, ClickFields, DiscreteMachine

\* A restart keeps it.
LEMMA RestartMachine == ASSUME Machine, Restart PROVE Machine'
<1>1. StartUpdate(shown.dur) \in Update /\ Discrete(<<StartUpdate(shown.dur)>>, <<>>, <<>>)
  BY UpdateKinds DEF Restart, Machine, Screen
<1> QED BY <1>1, EmptySeq, ClickFields, DiscreteMachine

\* A choice keeps it.
LEMMA ChooseMachine == ASSUME Machine, NEW d \in Durations, Choose(d) PROVE Machine'
<1> DEFINE u == [op |-> "choose", dur |-> d]
           starts == <<StartUpdate(d)>>
<1>1. u \in Update /\ Discrete(<<u>>, <<>>, starts) /\ mounted /\ ~shown.active /\ ~shown.fin
  BY UpdateKinds DEF Choose, Discrete
<1>2. ~Pend /\ ~EndQueued
  BY <1>1, ExpiredSomewhere
<1>3. ~Base.active /\ ~Base.fin
  BY <1>1, <1>2, BaseFields, ExpiredSomewhere
<1>4. ~After(u).active /\ ~After(u).fin
  BY <1>2, <1>3, ClickFields
<1>5. \E e \in Durations : starts = <<StartUpdate(e)>>
  OBVIOUS
<1> HIDE DEF u, starts
<1> QED BY <1>1, <1>4, <1>5, EmptySeq, DiscreteMachine

\* What is rendered from the queue alone keeps it.
LEMMA RenderMachine == ASSUME Machine, Render PROVE Machine'
<1>1. /\ mounted /\ effect = NoEffect /\ queue # <<>> /\ shown' = Base /\ queue' = <<>>
      /\ effect' = (IF DepsChanged(shown, Base) THEN Base ELSE NoEffect)
      /\ mounted' = mounted /\ interval' = interval /\ submitted' = submitted /\ raced' = raced
  BY DEF Render, Base
<1>2. Base \in Screen /\ Base # NoEffect /\ ~(Base.active /\ Base.fin)
  BY <1>1, BaseFields, ScreenIsNoMark, ExpiredSomewhere DEF Machine
<1>3. effect' = NoEffect => (Runs(Base) <=> Runs(shown)) /\ (Expires(Base) <=> Expires(shown))
  BY <1>1, <1>2 DEF DepsChanged, Runs, Expires, Machine, Screen
<1>4. OnlyTicks'
  BY <1>1, EmptySeq DEF OnlyTicks, TickSeq
<1>5. effect' = NoEffect => ~Expires(Base)
  <2> SUFFICES ASSUME effect' = NoEffect, Expires(Base) PROVE FALSE
    OBVIOUS
  <2>1. EndQueued /\ Base.active
    BY <1>1, <1>3, ExpiredSomewhere DEF Pend, Expires
  <2> QED BY <2>1, BaseFields
<1>6. effect' = NoEffect => (interval' <=> mounted' /\ Runs(shown'))
  BY <1>1, <1>3 DEF Machine
<1> QED BY <1>1, <1>2, <1>4, <1>5, <1>6 DEF Machine, Shape

\* The effect keeps it.
LEMMA EffectMachine == ASSUME Machine, RunEffect PROVE Machine'
<1>1. /\ effect # NoEffect /\ effect = shown /\ mounted /\ OnlyTicks /\ shown \in Screen
      /\ ~(shown.active /\ shown.fin) /\ submitted \in Seq(Result) /\ raced \subseteq Nat
  BY DEF RunEffect, Machine, Shape
<1>2. /\ interval' = Runs(shown) /\ effect' = NoEffect
      /\ queue' = queue \o ExpiryUpdates(shown)
      /\ submitted' = submitted \o ExpiryResult(shown)
      /\ mounted' = mounted /\ shown' = shown /\ raced' = raced
  BY <1>1 DEF RunEffect
<1>3. Runs(shown) \in BOOLEAN
  BY DEF Runs
<1>4. CASE Expires(shown)
  <2>1. queue' = Append(queue, FinishUpdate)
    BY <1>1, <1>2, <1>4, AppendIsConcat DEF ExpiryUpdates, OnlyTicks, TickSeq
  <2>2. EndQueued'
    BY <1>1, <2>1 DEF EndQueued, OnlyTicks
  <2>3. submitted' \in Seq(Result)
    <3>1. Submission(shown, "timer") \in Result /\ <<Submission(shown, "timer")>> \in Seq(Result)
      BY <1>1, SubmissionTyped
    <3> QED BY <1>1, <1>2, <1>4, <3>1, ConcatProperties DEF ExpiryResult
  <2> QED BY <1>1, <1>2, <1>3, <1>4, <2>2, <2>3 DEF Machine, Shape
<1>5. CASE ~Expires(shown)
  <2>1. queue' = queue /\ submitted' = submitted
    BY <1>1, <1>2, <1>5, ConcatEmptySeq DEF ExpiryUpdates, ExpiryResult, OnlyTicks, TickSeq
  <2>2. OnlyTicks'
    BY <1>1, <2>1 DEF OnlyTicks
  <2> QED BY <1>1, <1>2, <1>3, <1>5, <2>1, <2>2 DEF Machine, Shape
<1> QED BY <1>4, <1>5

\* The interval's callback keeps it.
LEMMA TickMachine == ASSUME Machine, Tick PROVE Machine'
<1>1. /\ interval /\ queue' = Append(queue, TickUpdate)
      /\ mounted' = mounted /\ shown' = shown /\ effect' = effect /\ interval' = interval
      /\ submitted' = submitted /\ raced' = raced
  BY DEF Tick
<1>2. mounted
  BY <1>1 DEF Machine
<1>3. OnlyTicks
  BY <1>1 DEF Machine, Shape, Runs, Expires
<1>4. OnlyTicks'
  BY <1>1, <1>3, AppendProperties DEF OnlyTicks, TickSeq
<1>5. mounted /\ effect = NoEffect => ~Expires(shown)
  BY <1>1 DEF Machine, Runs, Expires
<1> QED BY <1>1, <1>2, <1>4, <1>5 DEF Machine, Shape

\* Leaving and opening the arena keep it.
LEMMA LeaveMachine == ASSUME Machine, Leave PROVE Machine'
<1>1. /\ mounted' = FALSE /\ effect' = NoEffect /\ queue' = <<>> /\ interval' = FALSE
      /\ shown' = shown
      /\ submitted' = submitted \o (IF effect = NoEffect THEN <<>> ELSE ExpiryResult(effect))
      /\ raced' = IF Unrendered THEN raced \union {shown.game, shown.game + 1} ELSE raced
  BY DEF Leave, MarkRace
<1>2. /\ shown \in Screen /\ submitted \in Seq(Result) /\ raced \subseteq Nat
      /\ ~(shown.active /\ shown.fin) /\ (effect # NoEffect => effect = shown)
  BY DEF Machine
<1>3. submitted' \in Seq(Result)
  <2> DEFINE late == IF effect = NoEffect THEN <<>> ELSE ExpiryResult(effect)
  <2>1. Submission(shown, "timer") \in Result
    BY <1>2, SubmissionTyped
  <2>2. late \in Seq(Result)
    BY <1>2, <2>1, EmptySeq DEF ExpiryResult
  <2> HIDE DEF late
  <2>3. submitted \o late \in Seq(Result)
    BY <1>2, <2>2, ConcatProperties
  <2> QED BY <1>1, <2>3 DEF late
<1>4. raced' \subseteq Nat
  <2>1. shown.game \in Nat /\ shown.game + 1 \in Nat
    BY <1>2 DEF Screen
  <2> QED BY <1>1, <1>2, <2>1
<1>5. OnlyTicks'
  BY <1>1, EmptySeq DEF OnlyTicks, TickSeq
<1> QED BY <1>1, <1>2, <1>3, <1>4, <1>5 DEF Machine, Shape

\* A newly mounted arena is a screen.
LEMMA MountedTyped ==
  ASSUME NEW g \in Nat, NEW d \in Durations
  PROVE  /\ Mounted(g, d) \in Screen /\ ~Mounted(g, d).active /\ ~Mounted(g, d).fin
         /\ Mounted(g, d).game = g /\ Mounted(g, d).tl = d /\ Mounted(g, d).len = 0
<1>1. d \in Int /\ NoStats \in Stats
  BY DurationNumbers DEF NoStats, Stats
<1> QED BY <1>1 DEF Mounted, Screen

\* Opening the arena keeps the machine.
LEMMA OpenMachine == ASSUME Machine, Open PROVE Machine'
<1>1. PICK d \in Durations : shown' = Mounted(shown.game + 1, d) /\ queue' = <<StartUpdate(d)>>
  BY DEF Open
<1>2. /\ ~mounted /\ mounted' = TRUE /\ effect' = effect /\ interval' = interval
      /\ submitted' = submitted /\ raced' = raced
  BY DEF Open
<1>3. effect = NoEffect /\ ~interval /\ shown.game \in Nat
  BY <1>2 DEF Machine, Screen
<1>4. shown.game + 1 \in Nat
  BY <1>3
<1>5. shown' \in Screen /\ ~shown'.active /\ ~shown'.fin
  BY <1>1, <1>4, MountedTyped
<1>6. StartQueued'
  BY <1>1 DEF StartQueued
<1>7. ~Runs(shown')
  BY <1>5 DEF Runs
<1> QED BY <1>2, <1>3, <1>5, <1>6, <1>7 DEF Machine, Shape

\* The arena starts as a machine with its first start queued.
LEMMA MachineInit == Init => Machine
<1> SUFFICES ASSUME Init PROVE Machine
  OBVIOUS
<1>1. PICK d \in Durations : shown = Mounted(0, d) /\ queue = <<StartUpdate(d)>>
  BY DEF Init
<1>2. shown \in Screen /\ ~shown.active /\ ~shown.fin
  BY <1>1, MountedTyped
<1>3. StartQueued
  BY <1>1 DEF StartQueued
<1>4. ~Runs(shown)
  BY <1>2 DEF Runs
<1>5. submitted \in Seq(Result) /\ raced \subseteq Nat
  BY EmptySeq DEF Init
<1> QED BY <1>2, <1>3, <1>4, <1>5 DEF Init, Machine, Shape

\* Every step keeps the machine.
LEMMA MachineStep == Machine /\ [Next]_vars => Machine'
<1> SUFFICES ASSUME Machine, [Next]_vars PROVE Machine'
  OBVIOUS
<1>1. CASE UNCHANGED vars
  BY <1>1 DEF vars, Machine, Shape, OnlyTicks, EndQueued, StartQueued
<1> QED BY <1>1, ChangeMachine, EscapeMachine, RestartMachine, ChooseMachine, RenderMachine,
           EffectMachine, TickMachine, LeaveMachine, OpenMachine DEF Next

\* The interval runs exactly while a game with time left is on screen, when
\* nothing is left to render, however late the browser is.
THEOREM ClockRuns == Spec => []ClockRunsWithGame
<1>1. Machine => ClockRunsWithGame
  <2> SUFFICES ASSUME Machine, queue = <<>>, effect = NoEffect
               PROVE  interval <=> mounted /\ shown.active /\ shown.tl > 0
    BY DEF ClockRunsWithGame
  <2> QED BY DEF Machine, Runs
<1> QED BY <1>1, MachineInit, MachineStep, PTL DEF Spec

-----------------------------------------------------------------------------
(* Results.                                                                *)

\* q2 is q with more results of game g.
Grew(q, q2, g) ==
  /\ \A k : k # g => Of(q2, k) = Of(q, k)
  /\ \A i \in DOMAIN q : i \in DOMAIN q2 /\ q2[i] = q[i]

\* p is q with the result r of game g.
Adds(p, q, r, g) ==
  /\ Grew(q, p, g)
  /\ \E n : n \in DOMAIN p /\ n \notin DOMAIN q /\ p[n] = r /\ Of(p, g) = Of(q, g) \union {n}

\* One result more.
LEMMA ResultAppended ==
  ASSUME NEW q \in Seq(Result), NEW r \in Result, NEW g, r.game = g
  PROVE  Append(q, r) \in Seq(Result) /\ Adds(Append(q, r), q, r, g)
<1> DEFINE p == Append(q, r)
           n == Len(q) + 1
<1>1. /\ p \in Seq(Result) /\ Len(q) \in Nat /\ DOMAIN q = 1..Len(q) /\ DOMAIN p = 1..n
      /\ p[n] = r /\ \A i \in 1..Len(q) : p[i] = q[i]
  BY AppendProperties, LenProperties
<1>2. /\ n \in 1..n /\ n \notin 1..Len(q)
      /\ \A i : i \in 1..n <=> i \in 1..Len(q) \/ i = n
  BY <1>1
<1> DEFINE D == DOMAIN q
<1>3. /\ n \in DOMAIN p /\ n \notin D /\ p[n] = r
      /\ \A i : i \in DOMAIN p <=> i \in D \/ i = n
      /\ \A i \in D : p[i] = q[i]
  BY <1>1, <1>2
<1> HIDE DEF p, n, D
<1>4. \A k : Of(p, k) = {i \in D : q[i].game = k} \union (IF r.game = k THEN {n} ELSE {})
  BY <1>3 DEF Of
<1>5. \A k : Of(q, k) = {i \in D : q[i].game = k}
  BY DEF Of, D
<1>6. Grew(q, p, g)
  BY <1>3, <1>4, <1>5 DEF Grew, D
<1>7. Of(p, g) = Of(q, g) \union {n}
  BY <1>4, <1>5
<1>8. Adds(p, q, r, g)
  BY <1>3, <1>6, <1>7 DEF Adds, D
<1> QED BY <1>1, <1>8 DEF p

\* What grew twice grew.
LEMMA Regrown ==
  ASSUME NEW q, NEW q2, NEW q3, NEW g, Grew(q, q2, g), Grew(q2, q3, g)
  PROVE  Grew(q, q3, g)
BY DEF Grew

\* What did not change grew.
LEMMA NotGrown == ASSUME NEW q, NEW g PROVE Grew(q, q, g)
BY DEF Grew

\* The other games keep what they had.
LEMMA FewOthers ==
  ASSUME NEW q, NEW q2, NEW g, NEW R, NEW R2, R \subseteq R2, Grew(q, q2, g),
         NEW k, k # g, Few(q, k, R)
  PROVE  Few(q2, k, R2)
<1>1. Of(q2, k) = Of(q, k) /\ \A i \in Of(q, k) : q2[i] = q[i]
  BY DEF Grew, Of
<1> QED BY <1>1 DEF Few

\* The screen moves on, to another game or to one that was raced.
LEMMA Moved ==
  ASSUME NEW s \in Screen, NEW t \in Screen, NEW on, NEW ended, NEW q, NEW q2, NEW R, NEW R2,
         Decided(s, on, ended, q, R), Grew(q, q2, s.game), R \subseteq R2,
         t.game >= s.game, Few(q2, s.game, R2),
         t.fin => t.game \in R2,
         ~t.fin /\ t.game = s.game => Of(q2, s.game) = {}
  PROVE  Decided(t, TRUE, FALSE, q2, R2)
<1>1. s.game \in Nat /\ t.game \in Nat
  BY DEF Screen
<1>2. ASSUME NEW g \in Nat, g > s.game PROVE Of(q2, g) = {}
  <2>1. g # s.game
    BY <1>1, <1>2
  <2> QED BY <1>2, <2>1 DEF Decided, Grew
<1>3. \A g \in Nat : g > t.game => g > s.game
  BY <1>1
<1>4. \A g \in Nat : Few(q2, g, R2)
  BY FewOthers DEF Decided
<1>5. ~t.fin => Of(q2, t.game) = {}
  <2>1. t.game = s.game \/ t.game > s.game
    BY <1>1
  <2> QED BY <1>1, <1>2, <2>1
<1> QED BY <1>2, <1>3, <1>4, <1>5 DEF Decided

\* A game gets its result.
LEMMA Ends ==
  ASSUME NEW s \in Screen, NEW t \in Screen, NEW on, NEW ended \in BOOLEAN, NEW ended2 \in BOOLEAN,
         NEW q \in Seq(Result), NEW r \in Result, NEW R, Decided(s, on, ended, q, R),
         Of(q, s.game) = {}, t.game = s.game, r.game = s.game,
         ended2 \/ t.fin,
         ended2 => r.by = "timer" /\ Same(r, t),
         t.fin => (r.by # "text" => Same(r, t))
  PROVE  Decided(t, TRUE, ended2, Append(q, r), R)
<1> DEFINE p == Append(q, r)
<1>0. Adds(p, q, r, s.game)
  BY ResultAppended
<1> HIDE DEF p
<1>1. PICK n \in DOMAIN p : p[n] = r /\ Of(p, s.game) = {n}
  BY <1>0 DEF Adds
<1>2. Grew(q, p, s.game) /\ s.game \in Nat
  BY <1>0 DEF Adds, Screen
<1>3. \A g \in Nat : Few(p, g, R)
  <2>1. Few(p, s.game, R)
    BY <1>1 DEF Few
  <2> QED BY <1>2, <2>1, FewOthers DEF Decided
<1>4. ASSUME NEW g \in Nat, g > t.game PROVE Of(p, g) = {}
  <2>1. g # s.game /\ g > s.game
    BY <1>2, <1>4
  <2> QED BY <1>2, <2>1 DEF Decided, Grew
<1>5. ended2 => \E i \in DOMAIN p : Of(p, t.game) = {i} /\ p[i].by = "timer" /\ Same(p[i], t)
  BY <1>1
<1>6. t.fin => \E i \in DOMAIN p : Of(p, t.game) = {i} /\ (p[i].by # "text" => Same(p[i], t))
  BY <1>1
<1>7. Decided(t, TRUE, ended2, p, R)
  BY <1>3, <1>4, <1>5, <1>6 DEF Decided
<1> QED BY <1>7 DEF p

\* What counts of a screen for the results.
LEMMA Alike ==
  ASSUME NEW s, NEW t, NEW on, NEW ended, NEW q, NEW R, Decided(s, on, ended, q, R),
         t.game = s.game, t.fin = s.fin, t.stats = s.stats, t.errs = s.errs
  PROVE  Decided(t, on, ended, q, R)
BY DEF Decided, Same

\* What at most two results more make of a game without, or with one by the clock.
LEMMA FewMore ==
  ASSUME NEW q \in Seq(Result), NEW g, NEW R, NEW h \in Result, NEW l \in Result,
         h.game = g, l.game = g
  PROVE  /\ Of(q, g) = {} => Few(q, g, R) /\ Few(Append(q, h), g, R)
         /\ Of(q, g) = {} /\ g \in R /\ l.by = "timer" => Few(Append(Append(q, h), l), g, R)
         /\ \A i \in DOMAIN q : Of(q, g) = {i} /\ g \in R /\ q[i].by = "timer" =>
              Few(q, g, R) /\ Few(Append(q, h), g, R)
<1> DEFINE p == Append(q, h)
           z == Append(p, l)
<1>0. p \in Seq(Result) /\ Adds(p, q, h, g)
  BY ResultAppended
<1> HIDE DEF p
<1>1. PICK n : n \in DOMAIN p /\ n \notin DOMAIN q /\ Of(p, g) = Of(q, g) \union {n}
  BY <1>0 DEF Adds
<1>2. \A i \in DOMAIN q : p[i] = q[i]
  BY <1>0 DEF Adds, Grew
<1>7. Adds(z, p, l, g)
  BY <1>0, ResultAppended
<1> HIDE DEF z
<1>3. PICK m : m \notin DOMAIN p /\ z[m] = l /\ Of(z, g) = Of(p, g) \union {m}
  BY <1>7 DEF Adds
<1>4. ASSUME Of(q, g) = {} PROVE Few(q, g, R) /\ Few(p, g, R)
  BY <1>1, <1>4 DEF Few
<1>5. ASSUME Of(q, g) = {}, g \in R, l.by = "timer" PROVE Few(z, g, R)
  <2>1. Of(z, g) = {m, n} /\ m # n /\ z[m].by = "timer"
    BY <1>1, <1>3, <1>5
  <2> QED BY <1>5, <2>1 DEF Few
<1>6. ASSUME NEW i \in DOMAIN q, Of(q, g) = {i}, g \in R, q[i].by = "timer"
      PROVE  Few(q, g, R) /\ Few(p, g, R)
  <2>1. Of(p, g) = {i, n} /\ i # n /\ p[i].by = "timer"
    BY <1>1, <1>2, <1>6
  <2> QED BY <1>6, <2>1 DEF Few
<1> QED BY <1>4, <1>5, <1>6 DEF p, z

-----------------------------------------------------------------------------
(* Results: the steps.                                                     *)

\* A queue without the end of a game, or with nothing else.
LEMMA EndsOfQueues ==
  /\ queue' = <<>> => ~EndQueued'
  /\ \A d \in Durations : queue' = <<StartUpdate(d)>> => ~EndQueued'
  /\ queue' \in TickSeq => ~EndQueued'
  /\ queue' = <<FinishUpdate>> => EndQueued'
<1>1. <<>> \in TickSeq /\ <<FinishUpdate>> = Append(<<>>, FinishUpdate)
  BY EmptySeq DEF TickSeq
<1>2. queue' = <<FinishUpdate>> => EndQueued'
  BY <1>1 DEF EndQueued
<1>3. queue' \in TickSeq => ~EndQueued'
  BY KindsOf DEF EndQueued
<1>4. \A d \in Durations : queue' = <<StartUpdate(d)>> => ~EndQueued'
  BY KindsOf DEF EndQueued
<1> QED BY <1>1, <1>2, <1>3, <1>4

\* The results of the game on screen while the end of one is queued or
\* pending, or the start of one is queued.
LEMMA ResultsWhenRaced ==
  ASSUME Machine, Outcomes, mounted
  PROVE  /\ Pend \/ StartQueued => Of(submitted, shown.game) = {}
         /\ OnlyTicks /\ ~shown.fin => Of(submitted, shown.game) = {}
         /\ EndQueued => \E i \in DOMAIN submitted :
              Of(submitted, shown.game) = {i} /\ submitted[i].by = "timer"
BY ExpiredSomewhere, QueueKinds DEF Outcomes, Decided, Machine

\* A handler in the moment of a race: what it and the pending effect submit.
LEMMA RacedOutcomes ==
  ASSUME Machine, Outcomes, NEW u \in Update, NEW by \in {"text", "escape"},
         NEW results \in {<<>>, <<Submission(shown, by)>>}, Discrete(<<u>>, results, <<>>),
         Unrendered, ~Rings(u), After(u).game >= shown.game,
         After(u).fin => After(u).game \in {shown.game, shown.game + 1},
         ~After(u).fin => After(u).game # shown.game
  PROVE  Outcomes'
<1> DEFINE h == Submission(shown, by)
           l == Submission(shown, "timer")
           t == After(u)
           q == submitted
<1>1. /\ mounted /\ mounted' /\ shown' = t /\ t \in Screen
      /\ queue' = <<>> \o (IF Rings(u) THEN <<FinishUpdate>> ELSE <<>>)
      /\ submitted' = q \o results \o (IF Pend THEN <<l>> ELSE <<>>)
              \o (IF Rings(u) THEN <<Submission(t, "timer")>> ELSE <<>>)
      /\ raced' = raced \union {shown.game, shown.game + 1}
  BY DiscreteSays
<1>2. /\ h \in Result /\ h.game = shown.game
      /\ l \in Result /\ l.game = shown.game /\ l.by = "timer"
      /\ q \in Seq(Result) /\ shown \in Screen
  BY SubmissionTyped DEF Machine
<1>3. queue' = <<>>
  BY <1>1
<1>4. ~EndQueued'
  BY <1>3, EndsOfQueues
<1>5. Pend \/ EndQueued \/ StartQueued
  BY RaceKinds
<1>6. /\ Append(q, h) \in Seq(Result) /\ Grew(q, Append(q, h), shown.game)
      /\ Append(q, l) \in Seq(Result) /\ Grew(q, Append(q, l), shown.game)
  BY <1>2, ResultAppended DEF Adds
<1>7. /\ Append(Append(q, h), l) \in Seq(Result)
      /\ Grew(q, Append(Append(q, h), l), shown.game)
  <2> DEFINE p == Append(q, h)
             z == Append(p, l)
             g == shown.game
  <2>1. p \in Seq(Result) /\ Grew(q, p, g) /\ l \in Result /\ l.game = g
    BY <1>2, <1>6
  <2> HIDE DEF p, l, g, q
  <2>2. z \in Seq(Result) /\ Grew(p, z, g)
    BY <2>1, ResultAppended DEF Adds
  <2> HIDE DEF z
  <2>3. Grew(q, z, g)
    BY <2>1, <2>2, Regrown
  <2> QED BY <2>2, <2>3 DEF z, p, g
<1>8. \/ ~Pend /\ submitted' \in {q, Append(q, h)}
      \/ Pend /\ submitted' \in {Append(q, l), Append(Append(q, h), l)}
  <2>1. results \in {<<>>, <<h>>}
    OBVIOUS
  <2> HIDE DEF h, l
  <2>2. q \o results \in {q, Append(q, h)}
    <3>1. q \o <<>> = q /\ q \o <<h>> = Append(q, h)
      BY <1>2, ConcatEmptySeq, AppendIsConcat
    <3> QED BY <2>1, <3>1
  <2>3. submitted' = q \o results \o (IF Pend THEN <<l>> ELSE <<>>) \o <<>>
    BY <1>1
  <2> DEFINE z == q \o results
  <2>4. z \in Seq(Result) /\ z \in {q, Append(q, h)}
    BY <1>2, <1>6, <2>2
  <2> HIDE DEF z
  <2>5. CASE Pend
    <3>1. z \o <<l>> = Append(z, l) /\ Append(z, l) \in Seq(Result)
      BY <1>2, <2>4, AppendIsConcat, AppendProperties
    <3>2. submitted' = Append(z, l)
      BY <2>3, <2>5, <3>1, ConcatEmptySeq DEF z
    <3> QED BY <2>4, <2>5, <3>2
  <2>6. CASE ~Pend
    <3>1. z \o <<>> = z
      BY <2>4, ConcatEmptySeq
    <3>2. submitted' = z
      BY <2>3, <2>6, <3>1 DEF z
    <3> QED BY <2>4, <2>6, <3>2
  <2> QED BY <2>5, <2>6
<1> HIDE DEF h, l, t
<1>9. Grew(q, submitted', shown.game)
  BY <1>6, <1>7, <1>8, NotGrown
<1>10. shown.game \in raced' /\ raced \subseteq raced'
  BY <1>1
<1> DEFINE z == submitted'
           g == shown.game
           R == raced'
           e == EndQueued
<1>11. Few(z, g, R)
  <2>1. /\ ~Pend => z \in {q, Append(q, h)}
        /\ Pend => z \in {Append(q, l), Append(Append(q, h), l)}
        /\ g \in R /\ h \in Result /\ h.game = g /\ l \in Result /\ l.game = g /\ l.by = "timer"
        /\ q \in Seq(Result)
    BY <1>2, <1>8, <1>10
  <2>2. /\ Pend \/ StartQueued => Of(q, g) = {}
        /\ EndQueued => \E i \in DOMAIN q : Of(q, g) = {i} /\ q[i].by = "timer"
    BY <1>1, ResultsWhenRaced
  <2> HIDE DEF z, g, R, q
  <2>3. CASE Pend
    <3>1. Few(Append(q, l), g, R) /\ Few(Append(Append(q, h), l), g, R)
      BY <2>1, <2>2, <2>3, FewMore
    <3> QED BY <2>1, <2>3, <3>1
  <2>4. CASE ~Pend /\ StartQueued
    <3>1. Few(q, g, R) /\ Few(Append(q, h), g, R)
      BY <2>1, <2>2, <2>4, FewMore
    <3> QED BY <2>1, <2>4, <3>1
  <2>5. CASE ~Pend /\ EndQueued
    <3>1. PICK i \in DOMAIN q : Of(q, g) = {i} /\ q[i].by = "timer"
      BY <2>2, <2>5
    <3>2. Few(q, g, R) /\ Few(Append(q, h), g, R)
      BY <2>1, <3>1, FewMore
    <3> QED BY <2>1, <2>5, <3>2
  <2> QED BY <1>5, <2>3, <2>4, <2>5
<1>12. Decided(shown, mounted, e, q, raced)
  BY DEF Outcomes
<1>13. Decided(t, TRUE, FALSE, z, R)
  <2>1. (t.fin => t.game \in R) /\ t.game >= g /\ (~t.fin => t.game # g)
    BY <1>1 DEF t
  <2>2. Grew(q, z, g) /\ raced \subseteq R
    BY <1>9, <1>10
  <2> HIDE DEF z, g, R, e, q
  <2>3. Grew(q, z, shown.game) /\ Few(z, shown.game, R) /\ t.game >= shown.game
        /\ (~t.fin => t.game # shown.game)
    BY <1>11, <2>1, <2>2 DEF g
  <2> QED BY <1>1, <1>2, <1>12, <2>1, <2>2, <2>3, Moved
<1>14. Decided(shown', mounted', EndQueued', submitted', raced')
  BY <1>1, <1>4, <1>13 DEF Decided
<1> QED BY <1>14 DEF Outcomes

\* A handler that submits nothing and after which the game goes on or another
\* one is on screen.
LEMMA QuietOutcomes ==
  ASSUME Machine, Outcomes, NEW u \in Update, NEW starts, Discrete(<<u>>, <<>>, starts),
         starts = <<>> \/ \E d \in Durations : starts = <<StartUpdate(d)>>,
         ~Pend, ~Rings(u), ~After(u).fin, After(u).game >= shown.game,
         After(u).game = shown.game => OnlyTicks /\ ~shown.fin
  PROVE  Outcomes'
<1> DEFINE t == After(u)
           q == submitted
<1>1. /\ mounted /\ mounted' /\ shown' = t /\ t \in Screen
      /\ queue' = starts \o (IF Rings(u) THEN <<FinishUpdate>> ELSE <<>>)
      /\ submitted' = q \o <<>> \o (IF Pend THEN <<Submission(shown, "timer")>> ELSE <<>>)
              \o (IF Rings(u) THEN <<Submission(t, "timer")>> ELSE <<>>)
      /\ raced \subseteq raced'
  BY DiscreteSays
<1>2. q \in Seq(Result) /\ shown \in Screen
  BY DEF Machine
<1>3. submitted' = q
  BY <1>1, <1>2, ConcatEmptySeq
<1>4. ~EndQueued'
  <2>1. queue' = starts
    BY <1>1
  <2> QED BY <2>1, EndsOfQueues
<1>5. t.game = shown.game => Of(q, shown.game) = {}
  BY <1>1, ResultsWhenRaced
<1>6. Few(q, shown.game, raced')
  <2>1. Few(q, shown.game, raced)
    BY <1>2 DEF Outcomes, Decided, Screen
  <2> QED BY <1>1, <2>1 DEF Few
<1> HIDE DEF t
<1>7. ~t.fin /\ t.game >= shown.game
  BY DEF t
<1> DEFINE e == EndQueued
           R == raced'
<1>8. Decided(shown, mounted, e, q, raced)
  BY DEF Outcomes
<1>9. Decided(t, TRUE, FALSE, q, R)
  <2>1. raced \subseteq R /\ Few(q, shown.game, R)
    BY <1>1, <1>6
  <2> HIDE DEF e, R, q
  <2> QED BY <1>1, <1>2, <1>5, <1>7, <1>8, <2>1, NotGrown, Moved
<1>10. Decided(shown', mounted', EndQueued', submitted', raced')
  BY <1>1, <1>3, <1>4, <1>9 DEF Decided
<1> QED BY <1>10 DEF Outcomes

\* A handler, or the effect after it, ends the game on screen.
LEMMA EndingOutcomes ==
  ASSUME Machine, Outcomes, NEW u \in Update, NEW by \in {"text", "escape"}, NEW results,
         Discrete(<<u>>, results, <<>>), ~Unrendered, OnlyTicks, ~Pend, ~shown.fin,
         After(u).game = shown.game,
         \/ /\ ~Rings(u) /\ After(u).fin /\ results = <<Submission(shown, by)>>
            /\ by = "text" \/ Same(shown, After(u))
         \/ Rings(u) /\ ~After(u).fin /\ results = <<>>
  PROVE  Outcomes'
<1> DEFINE t == After(u)
           q == submitted
           r == IF Rings(u) THEN Submission(t, "timer") ELSE Submission(shown, by)
<1>1. /\ mounted /\ mounted' /\ shown' = t /\ t \in Screen
      /\ queue' = <<>> \o (IF Rings(u) THEN <<FinishUpdate>> ELSE <<>>)
      /\ submitted' = q \o results \o (IF Pend THEN <<Submission(shown, "timer")>> ELSE <<>>)
              \o (IF Rings(u) THEN <<Submission(t, "timer")>> ELSE <<>>)
      /\ raced' = raced
  BY DiscreteSays
<1>2. q \in Seq(Result) /\ shown \in Screen
  BY DEF Machine
<1>3. /\ r \in Result /\ r.game = shown.game
      /\ Rings(u) => r.by = "timer" /\ Same(r, t)
      /\ ~Rings(u) => (r.by # "text" => Same(r, t))
  BY <1>1, <1>2, SubmissionTyped DEF Same
<1>4. submitted' = Append(q, r)
  <2>1. CASE Rings(u)
    <3>1. submitted' = q \o <<>> \o <<>> \o <<r>>
      BY <1>1, <2>1
    <3> HIDE DEF r
    <3> QED BY <1>2, <1>3, <3>1, ConcatEmptySeq, AppendIsConcat
  <2>2. CASE ~Rings(u)
    <3>1. submitted' = q \o <<r>> \o <<>> \o <<>>
      BY <1>1, <2>2
    <3> HIDE DEF r
    <3>2. q \o <<r>> = Append(q, r) /\ Append(q, r) \in Seq(Result)
      BY <1>2, <1>3, AppendIsConcat, AppendProperties
    <3> DEFINE z == q \o <<r>>
    <3>3. z \in Seq(Result) /\ submitted' = z \o <<>> \o <<>>
      BY <3>1, <3>2
    <3> HIDE DEF z
    <3>4. submitted' = z
      BY <3>3, ConcatEmptySeq
    <3> QED BY <3>2, <3>4 DEF z
  <2> QED BY <2>1, <2>2
<1>5. /\ Rings(u) => queue' = <<FinishUpdate>>
      /\ ~Rings(u) => queue' = <<>>
  BY <1>1
<1>6. EndQueued' <=> Rings(u)
  BY <1>5, EndsOfQueues
<1>7. Of(q, shown.game) = {}
  BY <1>1, ResultsWhenRaced
<1>8. Decided(shown, mounted, EndQueued, q, raced)
  BY DEF Outcomes
<1>9. EndQueued \in BOOLEAN /\ EndQueued' \in BOOLEAN
  BY DEF EndQueued
<1> DEFINE e == EndQueued
           e2 == EndQueued'
<1>10. (e2 <=> Rings(u)) /\ e \in BOOLEAN /\ e2 \in BOOLEAN /\ Decided(shown, mounted, e, q, raced)
  BY <1>6, <1>8, <1>9
<1>11. t.fin <=> ~Rings(u)
  OBVIOUS
<1>12. t.game = shown.game
  OBVIOUS
<1> HIDE DEF t, r, e, e2
<1>13. Decided(t, TRUE, e2, Append(q, r), raced)
  BY <1>1, <1>2, <1>3, <1>7, <1>10, <1>11, <1>12, Ends
<1>14. Decided(shown', mounted', EndQueued', submitted', raced')
  BY <1>1, <1>4, <1>13 DEF e2
<1> QED BY <1>14 DEF Outcomes

\* Which games are on screen after a handler, and what its effect can ring.
LEMMA BaseGame ==
  ASSUME Machine, mounted
  PROVE  /\ shown.game \in Nat /\ Base.game \in Nat
         /\ OnlyTicks \/ EndQueued => Base.game = shown.game
         /\ StartQueued => Base.game = shown.game + 1 /\ Base.tl > 0
         /\ Unrendered <=> Pend \/ EndQueued \/ StartQueued
         /\ ~Unrendered => OnlyTicks
         /\ \A u : ~After(u).active \/ After(u).tl > 0 => ~Rings(u)
<1>1. shown.game \in Nat /\ Base.game \in Nat /\ Base.tl \in Int
  BY BaseFields DEF Machine, Screen
<1>2. ASSUME NEW u, ~After(u).active \/ After(u).tl > 0 PROVE ~Rings(u)
  <2>1. After(u).tl > 0 => After(u).tl # 0
    OBVIOUS
  <2> QED BY <1>2, <2>1 DEF Rings, Expires
<1> QED BY <1>1, <1>2, BaseFields, RaceKinds, ExpiredSomewhere

\* handleChange.
LEMMA ChangeOutcomes ==
  ASSUME Machine, Outcomes, NEW n \in 0..(TextLen + 1), NEW wrong \in BOOLEAN, Change(n, wrong)
  PROVE  Outcomes'
<1> DEFINE u == KeyUpdate(n, wrong)
           t == After(u)
           full == n >= shown.text
           results == IF full THEN <<Submission(shown, "text")>> ELSE <<>>
<1>1. u \in Update /\ ~shown.fin /\ mounted /\ Discrete(<<u>>, results, <<>>)
  BY KeyTyped DEF Change, Discrete
<1>2. /\ t.game = Base.game /\ t.tl = Base.tl
      /\ OnlyTicks /\ ~Pend => (t.active <=> ~full) /\ (t.fin <=> full)
      /\ Pend \/ EndQueued => ~t.active /\ t.fin
      /\ StartQueued => (t.active <=> ~full) /\ (t.fin <=> full)
  BY <1>1, ChangeFields
<1>3. /\ full => results = <<Submission(shown, "text")>>
      /\ ~full => results = <<>>
  OBVIOUS
<1>4. ~t.active \/ t.tl > 0 => ~Rings(u)
  BY <1>1, BaseGame
<1> HIDE DEF u, full, results
<1>5. CASE Unrendered
  <2>1. ~Rings(u)
    BY <1>1, <1>2, <1>4, <1>5, BaseGame
  <2>2. t.game >= shown.game /\ t.game \in {shown.game, shown.game + 1}
    BY <1>1, <1>2, <1>5, BaseGame, ExpiredSomewhere
  <2>3. ~t.fin => t.game # shown.game
    BY <1>1, <1>2, <1>5, BaseGame
  <2>4. results \in {<<>>, <<Submission(shown, "text")>>}
    BY <1>3
  <2> QED BY <1>1, <1>5, <2>1, <2>2, <2>3, <2>4, RacedOutcomes
<1>6. CASE ~Unrendered
  <2>1. OnlyTicks /\ ~Pend /\ t.game = shown.game
    BY <1>1, <1>2, <1>6, BaseGame
  <2>2. CASE full
    <3>1. ~Rings(u) /\ t.fin /\ results = <<Submission(shown, "text")>>
      BY <1>2, <1>3, <1>4, <2>1, <2>2
    <3> QED BY <1>1, <1>6, <2>1, <3>1, EndingOutcomes
  <2>3. CASE ~full /\ Rings(u)
    <3>1. ~t.fin /\ results = <<>>
      BY <1>2, <1>3, <2>1, <2>3
    <3> QED BY <1>1, <1>6, <2>1, <2>3, <3>1, EndingOutcomes
  <2>4. CASE ~full /\ ~Rings(u)
    <3>1. ~t.fin /\ results = <<>>
      BY <1>2, <1>3, <2>1, <2>4
    <3>2. t.game >= shown.game
      BY <1>1, <2>1, BaseGame
    <3> QED BY <1>1, <2>1, <2>4, <3>1, <3>2, QuietOutcomes
  <2> QED BY <2>2, <2>3, <2>4
<1> QED BY <1>5, <1>6

\* Escape.
LEMMA EscapeOutcomes == ASSUME Machine, Outcomes, Escape PROVE Outcomes'
<1> DEFINE u == FinishUpdate
           t == After(u)
           results == <<Submission(shown, "escape")>>
<1>1. u \in Update /\ shown.active /\ ~shown.fin /\ mounted /\ Discrete(<<u>>, results, <<>>)
  BY UpdateKinds DEF Escape, Discrete, Machine
<1>2. /\ ~t.active /\ t.fin /\ t.game = Base.game
      /\ t.stats = Base.stats /\ t.errs = Base.errs
  BY ClickFields
<1>3. ~Rings(u) /\ ~StartQueued
  BY <1>1, <1>2, BaseGame, ExpiredSomewhere
<1>4. t.game = shown.game
  BY <1>1, <1>2, <1>3, BaseGame, ExpiredSomewhere
<1>5. results \in {<<>>, <<Submission(shown, "escape")>>} /\ results = <<Submission(shown, "escape")>>
  OBVIOUS
<1> HIDE DEF u, results
<1>6. CASE Unrendered
  <2>1. t.game >= shown.game
    BY <1>1, <1>4, BaseGame
  <2> QED BY <1>1, <1>2, <1>3, <1>4, <1>5, <1>6, <2>1, RacedOutcomes
<1>7. CASE ~Unrendered
  <2>1. OnlyTicks /\ ~Pend
    BY <1>1, <1>7, BaseGame
  <2>2. Same(shown, t)
    BY <1>2, <2>1, BaseFields DEF Same
  <2> QED BY <1>1, <1>2, <1>3, <1>4, <1>5, <1>7, <2>1, <2>2, EndingOutcomes
<1> QED BY <1>6, <1>7

\* A restart.
LEMMA RestartOutcomes == ASSUME Machine, Outcomes, Restart PROVE Outcomes'
<1> DEFINE u == StartUpdate(shown.dur)
           t == After(u)
<1>1. u \in Update /\ mounted /\ Discrete(<<u>>, <<>>, <<>>)
  BY UpdateKinds DEF Restart, Discrete, Machine, Screen
<1>2. ~t.active /\ (t.fin <=> Pend) /\ t.game = Base.game + 1
  BY ClickFields
<1>3. ~Rings(u)
  BY <1>1, <1>2, BaseGame
<1>4. t.game >= shown.game /\ t.game # shown.game
  BY <1>1, <1>2, BaseGame, ExpiredSomewhere
<1>5. Pend => t.game = shown.game + 1
  BY <1>1, <1>2, BaseGame, ExpiredSomewhere
<1>6. <<>> \in {<<>>, <<Submission(shown, "text")>>}
  OBVIOUS
<1> HIDE DEF u
<1>7. CASE Unrendered
  BY <1>1, <1>2, <1>3, <1>4, <1>5, <1>6, <1>7, RacedOutcomes
<1>8. CASE ~Unrendered
  <2>1. ~Pend
    BY <1>1, <1>8, BaseGame
  <2> QED BY <1>1, <1>2, <1>3, <1>4, <2>1, QuietOutcomes
<1> QED BY <1>7, <1>8

\* A choice.
LEMMA ChooseOutcomes == ASSUME Machine, Outcomes, NEW d \in Durations, Choose(d) PROVE Outcomes'
<1> DEFINE u == [op |-> "choose", dur |-> d]
           t == After(u)
           starts == <<StartUpdate(d)>>
<1>1. u \in Update /\ Discrete(<<u>>, <<>>, starts) /\ mounted /\ ~shown.active /\ ~shown.fin
  BY UpdateKinds DEF Choose, Discrete
<1>2. ~Pend /\ ~EndQueued
  BY <1>1, ExpiredSomewhere
<1>3. ~Base.active /\ ~Base.fin
  BY <1>1, <1>2, BaseFields, ExpiredSomewhere
<1>4. ~t.active /\ ~t.fin /\ t.game = Base.game
  BY <1>2, <1>3, ClickFields
<1>5. \E e \in Durations : starts = <<StartUpdate(e)>>
  OBVIOUS
<1>6. ~Rings(u)
  BY <1>1, <1>4, BaseGame
<1> HIDE DEF u, starts
<1>7. t.game >= shown.game /\ (t.game = shown.game => OnlyTicks)
  BY <1>1, <1>2, <1>4, BaseGame, ExpiredSomewhere
<1> QED BY <1>1, <1>2, <1>4, <1>5, <1>6, <1>7, QuietOutcomes

\* The end of a game comes on the screen.
LEMMA Shows ==
  ASSUME NEW s, NEW t, NEW q, NEW R, Decided(s, TRUE, TRUE, q, R),
         t.game = s.game, t.fin, t.stats = s.stats, t.errs = s.errs
  PROVE  Decided(t, TRUE, FALSE, q, R)
BY DEF Decided, Same

\* Rendering what is queued.
LEMMA RenderOutcomes == ASSUME Machine, Outcomes, Render PROVE Outcomes'
<1>1. /\ mounted /\ shown' = Base /\ queue' = <<>>
      /\ mounted' = mounted /\ submitted' = submitted /\ raced' = raced
  BY DEF Render, Base
<1>2. ~EndQueued'
  BY <1>1, EndsOfQueues
<1>3. Decided(Base, TRUE, FALSE, submitted, raced)
  <2>1. CASE OnlyTicks
    <3>1. Decided(shown, TRUE, FALSE, submitted, raced)
      BY <1>1, <2>1, QueueKinds DEF Outcomes, Decided
    <3> QED BY <2>1, <3>1, BaseFields, Alike
  <2>2. CASE EndQueued
    <3>1. Decided(shown, TRUE, TRUE, submitted, raced)
      BY <1>1, <2>2 DEF Outcomes, Decided
    <3> QED BY <2>2, <3>1, BaseFields, Shows
  <2>3. CASE StartQueued
    <3> DEFINE e == EndQueued
    <3>1. Decided(shown, mounted, e, submitted, raced)
      BY DEF Outcomes
    <3>2. /\ Base \in Screen /\ shown \in Screen /\ ~Base.fin /\ Base.game = shown.game + 1
          /\ shown.game \in Nat
      BY <2>3, BaseFields DEF Machine, Screen
    <3>3. Base.game >= shown.game /\ Base.game # shown.game
      BY <3>2
    <3>4. Few(submitted, shown.game, raced)
      BY <3>2 DEF Outcomes, Decided
    <3> HIDE DEF e
    <3> QED BY <3>1, <3>2, <3>3, <3>4, NotGrown, Moved
  <2> QED BY <1>1, <2>1, <2>2, <2>3, ExpiredSomewhere
<1>4. Decided(shown', mounted', EndQueued', submitted', raced')
  BY <1>1, <1>2, <1>3 DEF Decided
<1> QED BY <1>4 DEF Outcomes

\* The effect.
LEMMA EffectOutcomes == ASSUME Machine, Outcomes, RunEffect PROVE Outcomes'
<1>1. /\ effect # NoEffect /\ effect = shown /\ mounted /\ OnlyTicks /\ shown \in Screen
      /\ submitted \in Seq(Result) /\ ~(shown.active /\ shown.fin)
  BY DEF RunEffect, Machine, Shape
<1>2. /\ queue' = queue \o ExpiryUpdates(shown)
      /\ submitted' = submitted \o ExpiryResult(shown)
      /\ mounted' = mounted /\ shown' = shown /\ raced' = raced
  BY <1>1 DEF RunEffect
<1>3. CASE Expires(shown)
  <2> DEFINE r == Submission(shown, "timer")
             e == EndQueued
  <2>1. queue' = Append(queue, FinishUpdate)
    BY <1>1, <1>2, <1>3, AppendIsConcat DEF ExpiryUpdates, OnlyTicks, TickSeq
  <2>2. EndQueued'
    BY <1>1, <2>1 DEF EndQueued, OnlyTicks
  <2>3. /\ r \in Result /\ r.game = shown.game /\ r.by = "timer" /\ Same(r, shown)
    BY <1>1, SubmissionTyped DEF Same
  <2>4. submitted' = Append(submitted, r)
    <3>1. submitted' = submitted \o <<r>>
      BY <1>2, <1>3 DEF ExpiryResult
    <3> HIDE DEF r
    <3> QED BY <1>1, <2>3, <3>1, AppendIsConcat
  <2>5. Of(submitted, shown.game) = {}
    BY <1>1, <1>3, ResultsWhenRaced DEF Pend
  <2>6. e \in BOOLEAN /\ TRUE \in BOOLEAN /\ Decided(shown, mounted, e, submitted, raced) /\ ~shown.fin
    BY <1>1, <1>3 DEF Outcomes, EndQueued, Expires
  <2> HIDE DEF r, e
  <2>7. Decided(shown, TRUE, TRUE, Append(submitted, r), raced)
    BY <1>1, <2>3, <2>5, <2>6, Ends
  <2>8. Decided(shown', mounted', EndQueued', submitted', raced')
    BY <1>1, <1>2, <2>2, <2>4, <2>7 DEF Decided
  <2> QED BY <2>8 DEF Outcomes
<1>4. CASE ~Expires(shown)
  <2>1. queue' = queue /\ submitted' = submitted
    BY <1>1, <1>2, <1>4, ConcatEmptySeq DEF ExpiryUpdates, ExpiryResult, OnlyTicks, TickSeq
  <2> QED BY <1>2, <2>1 DEF Outcomes, EndQueued
<1> QED BY <1>3, <1>4

\* The interval's callback.
LEMMA TickOutcomes == ASSUME Machine, Outcomes, Tick PROVE Outcomes'
<1>1. /\ interval /\ queue' = Append(queue, TickUpdate)
      /\ mounted' = mounted /\ shown' = shown /\ submitted' = submitted /\ raced' = raced
  BY DEF Tick
<1>2. OnlyTicks
  BY <1>1 DEF Machine, Shape, Runs, Expires
<1>3. queue' \in TickSeq
  BY <1>1, <1>2, AppendProperties DEF OnlyTicks, TickSeq
<1>4. ~EndQueued /\ ~EndQueued'
  BY <1>2, <1>3, EndsOfQueues, QueueKinds
<1>5. Decided(shown', mounted', EndQueued', submitted', raced')
  BY <1>1, <1>4 DEF Outcomes, Decided
<1> QED BY <1>5 DEF Outcomes

\* Leaving: the results stay as few.
LEMMA LeaveOutcomes == ASSUME Machine, Outcomes, Leave PROVE Outcomes'
<1>1. /\ mounted /\ mounted' = FALSE /\ shown' = shown
      /\ submitted' = submitted \o (IF effect = NoEffect THEN <<>> ELSE ExpiryResult(effect))
      /\ raced \subseteq raced'
  BY DEF Leave, MarkRace
<1>2. /\ shown \in Screen /\ submitted \in Seq(Result) /\ (effect # NoEffect => effect = shown)
      /\ shown.game \in Nat
  BY DEF Machine, Screen
<1> DEFINE r == Submission(shown, "timer")
           g == shown.game
           R == raced'
<1>3. r \in Result /\ r.game = g
  BY <1>2, SubmissionTyped
<1>4. /\ Pend => submitted' = Append(submitted, r)
      /\ ~Pend => submitted' = submitted
  <2>1. submitted' = submitted \o (IF Pend THEN <<r>> ELSE <<>>)
    BY <1>1, <1>2 DEF Pend, ExpiryResult
  <2> HIDE DEF r
  <2> QED BY <1>2, <1>3, <2>1, ConcatEmptySeq, AppendIsConcat
<1>5. Few(submitted, g, R)
  <2>1. Few(submitted, g, raced)
    BY <1>2 DEF Outcomes, Decided
  <2> QED BY <1>1, <2>1 DEF Few
<1>6. Pend => Of(submitted, g) = {}
  BY <1>1, ResultsWhenRaced
<1> HIDE DEF r, g, R
<1>7. Grew(submitted, submitted', g)
  <2>1. Grew(submitted, Append(submitted, r), g)
    BY <1>2, <1>3, ResultAppended DEF Adds
  <2>2. Grew(submitted, submitted, g)
    BY NotGrown
  <2> QED BY <1>4, <2>1, <2>2
<1>8. Few(submitted', g, R)
  BY <1>2, <1>3, <1>4, <1>5, <1>6, FewMore
<1> DEFINE z == submitted'
<1>9. (\A k \in Nat : k > g => Of(submitted, k) = {}) /\ \A k \in Nat : Few(submitted, k, raced)
  BY DEF Outcomes, Decided, g
<1>10. \A k \in Nat : k > g => Of(z, k) = {}
  <2> SUFFICES ASSUME NEW k \in Nat, k > g PROVE Of(z, k) = {}
    OBVIOUS
  <2>1. k # g
    BY <1>2 DEF g
  <2> QED BY <1>7, <1>9, <2>1 DEF Grew
<1>11. \A k \in Nat : Few(z, k, R)
  <2>1. raced \subseteq R
    BY <1>1 DEF R
  <2> HIDE DEF z
  <2>2. Grew(submitted, z, g) /\ Few(z, g, R)
    BY <1>7, <1>8 DEF z
  <2> QED BY <1>9, <2>1, <2>2, FewOthers
<1>12. Decided(shown', mounted', EndQueued', submitted', raced')
  BY <1>1, <1>10, <1>11 DEF Decided, g, R
<1> QED BY <1>12 DEF Outcomes

\* Opening the arena again.
LEMMA OpenOutcomes == ASSUME Machine, Outcomes, Open PROVE Outcomes'
<1>1. PICK d \in Durations : shown' = Mounted(shown.game + 1, d) /\ queue' = <<StartUpdate(d)>>
  BY DEF Open
<1>2. ~mounted /\ mounted' = TRUE /\ submitted' = submitted /\ raced' = raced
  BY DEF Open
<1>3. shown \in Screen /\ shown.game \in Nat /\ shown.game + 1 \in Nat
  BY DEF Machine, Screen
<1> DEFINE t == Mounted(shown.game + 1, d)
           e == EndQueued
<1>4. t \in Screen /\ ~t.fin /\ t.game >= shown.game /\ t.game # shown.game
  BY <1>3, MountedTyped
<1>5. Decided(shown, mounted, e, submitted, raced) /\ Few(submitted, shown.game, raced)
  BY <1>3 DEF Outcomes, Decided
<1> HIDE DEF t, e
<1>6. Decided(t, TRUE, FALSE, submitted, raced)
  BY <1>3, <1>4, <1>5, NotGrown, Moved
<1>7. ~EndQueued'
  BY <1>1, EndsOfQueues
<1>8. Decided(shown', mounted', EndQueued', submitted', raced')
  BY <1>1, <1>2, <1>6, <1>7 DEF Decided, t
<1> QED BY <1>8 DEF Outcomes

\* At first there are no results.
LEMMA OutcomesInit == Init => Outcomes
<1> SUFFICES ASSUME Init PROVE Outcomes
  OBVIOUS
<1>1. submitted = <<>> /\ \A g : Of(<<>>, g) = {}
  BY DEF Init, Of
<1>2. PICK d \in Durations : shown = Mounted(0, d) /\ queue = <<StartUpdate(d)>>
  BY DEF Init
<1>3. ~shown.fin
  BY <1>2, MountedTyped
<1>4. ~EndQueued
  BY <1>2, QueueKinds DEF StartQueued
<1> QED BY <1>1, <1>3, <1>4 DEF Outcomes, Decided, Few

\* Every step keeps the outcomes.
LEMMA OutcomesStep == Machine /\ Outcomes /\ [Next]_vars => Outcomes'
<1> SUFFICES ASSUME Machine, Outcomes, [Next]_vars PROVE Outcomes'
  OBVIOUS
<1>1. CASE UNCHANGED vars
  BY <1>1 DEF vars, Outcomes, EndQueued
<1> QED BY <1>1, ChangeOutcomes, EscapeOutcomes, RestartOutcomes, ChooseOutcomes, RenderOutcomes,
           EffectOutcomes, TickOutcomes, LeaveOutcomes, OpenOutcomes DEF Next

-----------------------------------------------------------------------------
(* Results: the theorems.                                                  *)

\* How many results few results are.
LEMMA FewResults ==
  /\ Cardinality({}) = 0
  /\ \A i : Cardinality({i}) = 1
  /\ \A i, j : i # j => Cardinality({i, j}) = 2
<1>1. Cardinality({}) = 0 /\ \A i : Cardinality({i}) = 1 /\ IsFiniteSet({i})
  BY FS_EmptySet, FS_Singleton
<1>2. ASSUME NEW i, NEW j, i # j PROVE Cardinality({i, j}) = 2
  <2>1. {i, j} = {i} \union {j} /\ j \notin {i}
    BY <1>2
  <2>2. Cardinality({i} \union {j}) = Cardinality({i}) + 1
    BY <1>1, <2>1, FS_AddElement
  <2> QED BY <1>1, <2>1, <2>2
<1> QED BY <1>1, <1>2

\* Results(g) is Of(submitted, g), and the end is queued when it is in the queue.
LEMMA InTheirTerms ==
  ASSUME Machine
  PROVE  /\ \A g : Results(g) = Of(submitted, g)
         /\ EndQueued <=> FinishUpdate \in ToSet(queue)
         /\ shown.game \in Nat
BY QueueKinds DEF Results, Of, Machine, Shape, Screen

\* Both invariants hold in every behaviour.
LEMMA ArenaInvariant == Spec => [](Machine /\ Outcomes)
BY MachineInit, MachineStep, OutcomesInit, OutcomesStep, PTL DEF Spec

\* A game on screen has one result once it is over and none before, unless a
\* key or a click came between an expiry, or a start, and its render.
THEOREM OneResultEach == Spec => []OneResult
<1>1. Machine /\ Outcomes => OneResult
  <2> SUFFICES ASSUME Machine, Outcomes, mounted, shown.game \notin raced
               PROVE  Cardinality(Of(submitted, shown.game)) =
                        IF shown.fin \/ EndQueued THEN 1 ELSE 0
    BY InTheirTerms DEF OneResult
  <2>1. CASE shown.fin \/ EndQueued
    <3>1. \E i : Of(submitted, shown.game) = {i}
      BY <2>1 DEF Outcomes, Decided
    <3> QED BY <2>1, <3>1, FewResults
  <2>2. CASE ~shown.fin /\ ~EndQueued
    <3>1. Of(submitted, shown.game) = {}
      BY <2>2 DEF Outcomes, Decided
    <3> QED BY <2>2, <3>1, FewResults
  <2> QED BY <2>1, <2>2
<1> QED BY <1>1, ArenaInvariant, PTL

\* A game has two results at most, and two only in such a race and one of
\* them by the clock.
THEOREM TwoAtMost == Spec => []AtMostTwo
<1>1. Machine /\ Outcomes => AtMostTwo
  <2> SUFFICES ASSUME Machine, Outcomes, NEW g \in 0..MaxGames
               PROVE  /\ Cardinality(Of(submitted, g)) <= (IF g \in raced THEN 2 ELSE 1)
                      /\ Cardinality(Of(submitted, g)) = 2 =>
                           \E i \in Of(submitted, g) : submitted[i].by = "timer"
    BY InTheirTerms DEF AtMostTwo
  <2>1. Few(submitted, g, raced)
    BY DEF Outcomes, Decided
  <2>2. CASE Of(submitted, g) = {}
    BY <2>2, FewResults
  <2>3. CASE \E i : Of(submitted, g) = {i}
    <3>1. Cardinality(Of(submitted, g)) = 1
      BY <2>3, FewResults
    <3> QED BY <3>1
  <2>4. CASE g \in raced /\ \E i, j : /\ i # j /\ Of(submitted, g) = {i, j}
                                      /\ submitted[i].by = "timer"
    <3>1. PICK i, j : i # j /\ Of(submitted, g) = {i, j} /\ submitted[i].by = "timer"
      BY <2>4
    <3>2. Cardinality({i, j}) = 2
      BY <3>1, FewResults
    <3>3. Cardinality(Of(submitted, g)) = 2 /\ i \in Of(submitted, g)
      BY <3>1, <3>2
    <3> QED BY <2>4, <3>1, <3>3
  <2> QED BY <2>1, <2>2, <2>3, <2>4 DEF Few
<1> QED BY <1>1, ArenaInvariant, PTL

\* What was submitted for a game that Escape or the clock ended is what the
\* results window shows.
THEOREM ShownIsSubmitted == Spec => []SubmittedIsShown
<1>1. Machine /\ Outcomes => SubmittedIsShown
  <2> SUFFICES ASSUME Machine, Outcomes, mounted, shown.fin, shown.game \notin raced,
                      NEW i \in DOMAIN submitted, submitted[i].game = shown.game,
                      submitted[i].by # "text"
               PROVE  submitted[i].stats = shown.stats /\ submitted[i].errs = shown.errs
    BY DEF SubmittedIsShown
  <2>1. i \in Of(submitted, shown.game)
    BY DEF Of
  <2> QED BY <2>1 DEF Outcomes, Decided, Same
<1> QED BY <1>1, ArenaInvariant, PTL

-----------------------------------------------------------------------------
(* The clock and the counters.                                             *)

\* How many ticks and starts a queue holds.
Kinds(q, op) == {i \in DOMAIN q : q[i].op = op}

\* How many updates of a kind each kind of queue holds.
LEMMA CountsOf ==
  ASSUME NEW q
  PROVE  /\ q \in TickSeq => /\ Len(q) \in Nat /\ Cardinality(Kinds(q, "tick")) = Len(q)
                             /\ Cardinality(Kinds(q, "start")) = 0
         /\ \A p \in TickSeq : q = Append(p, FinishUpdate) =>
              /\ Len(p) \in Nat /\ Cardinality(Kinds(q, "tick")) = Len(p)
              /\ Cardinality(Kinds(q, "start")) = 0
         /\ \A d \in Durations : q = <<StartUpdate(d)>> =>
              Cardinality(Kinds(q, "tick")) = 0 /\ Cardinality(Kinds(q, "start")) = 1
<1>1. \A n \in Nat : Cardinality(1..n) = n
  BY FS_Interval
<1>2. ASSUME q \in TickSeq
      PROVE  /\ Len(q) \in Nat /\ Kinds(q, "tick") = 1..Len(q) /\ Kinds(q, "start") = {}
  <2>1. /\ Len(q) \in Nat /\ DOMAIN q = 1..Len(q) /\ \A i \in DOMAIN q : q[i] = TickUpdate
    BY <1>2, KindsOf, LenProperties DEF TickSeq
  <2> QED BY <2>1 DEF Kinds, TickUpdate
<1>3. ASSUME NEW p \in TickSeq, q = Append(p, FinishUpdate)
      PROVE  Len(p) \in Nat /\ Kinds(q, "tick") = 1..Len(p) /\ Kinds(q, "start") = {}
  <2>1. p \in Seq({TickUpdate, FinishUpdate}) /\ FinishUpdate \in {TickUpdate, FinishUpdate}
    BY SeqMonotonic DEF TickSeq
  <2> DEFINE n == Len(p)
             m == n + 1
  <2>2. /\ n \in Nat /\ DOMAIN q = 1..m /\ q[m] = FinishUpdate
        /\ \A i \in 1..n : q[i] = p[i]
    BY <1>3, <2>1, AppendProperties, LenProperties
  <2>3. \A i \in 1..n : p[i] = TickUpdate
    BY KindsOf, LenProperties DEF TickSeq
  <2>4. \A i : i \in 1..m <=> i \in 1..n \/ i = m
    BY <2>2
  <2> HIDE DEF n, m
  <2>5. \A i \in DOMAIN q : \/ i \in 1..n /\ q[i].op = "tick"
                            \/ i = m /\ q[i].op = "finish"
    <3>1. TickUpdate.op = "tick" /\ FinishUpdate.op = "finish"
      BY DEF TickUpdate, FinishUpdate
    <3> SUFFICES ASSUME NEW i \in DOMAIN q
                 PROVE  \/ i \in 1..n /\ q[i].op = "tick"
                        \/ i = m /\ q[i].op = "finish"
      OBVIOUS
    <3>2. CASE i \in 1..n
      BY <2>2, <2>3, <3>1, <3>2
    <3>3. CASE i = m
      BY <2>2, <3>1, <3>3
    <3> QED BY <2>2, <2>4, <3>2, <3>3
  <2>6. \A i \in 1..n : i \in DOMAIN q /\ q[i].op = "tick"
    BY <2>2, <2>3, <2>4 DEF TickUpdate
  <2>7. Kinds(q, "tick") = 1..n
    BY <2>2, <2>5, <2>6 DEF Kinds
  <2>8. Kinds(q, "start") = {}
    BY <2>5 DEF Kinds
  <2> QED BY <2>2, <2>7, <2>8 DEF n
<1>4. ASSUME NEW d \in Durations, q = <<StartUpdate(d)>>
      PROVE  Kinds(q, "tick") = {} /\ Kinds(q, "start") = {1}
  BY <1>4 DEF Kinds, StartUpdate
<1> QED BY <1>1, <1>2, <1>3, <1>4, FewResults

\* The same of the queue of the arena.
LEMMA Counts ==
  /\ OnlyTicks => Queued("tick") = Len(queue) /\ Queued("start") = 0
  /\ \A p \in TickSeq : queue = Append(p, FinishUpdate) =>
       Queued("tick") = Len(p) /\ Queued("start") = 0
  /\ \A d \in Durations : queue = <<StartUpdate(d)>> => Queued("tick") = 0 /\ Queued("start") = 1
  /\ Machine => Queued("tick") \in Nat /\ Queued("start") \in Nat
<1>1. \A op : Queued(op) = Cardinality(Kinds(queue, op))
  BY DEF Queued, Kinds
<1> QED BY <1>1, CountsOf DEF Machine, Shape, OnlyTicks, EndQueued, StartQueued

\* The same of the queue after a step.
LEMMA CountsAfter ==
  /\ queue' \in TickSeq => Queued("tick")' = Len(queue') /\ Queued("start")' = 0
  /\ \A p \in TickSeq : queue' = Append(p, FinishUpdate) =>
       Queued("tick")' = Len(p) /\ Queued("start")' = 0
  /\ queue' = <<>> => Queued("tick")' = 0 /\ Queued("start")' = 0
  /\ queue' = <<FinishUpdate>> => Queued("tick")' = 0 /\ Queued("start")' = 0
  /\ \A d \in Durations : queue' = <<StartUpdate(d)>> => Queued("tick")' = 0 /\ Queued("start")' = 1
<1>1. Queued("tick")' = Cardinality(Kinds(queue', "tick"))
      /\ Queued("start")' = Cardinality(Kinds(queue', "start"))
  BY DEF Queued, Kinds
<1>2. <<>> \in TickSeq /\ <<FinishUpdate>> = Append(<<>>, FinishUpdate) /\ Len(<<>>) = 0
  BY EmptySeq DEF TickSeq
<1> QED BY <1>1, <1>2, CountsOf

\* What is rendered from the queue stays within the bounds.
LEMMA BaseBounds ==
  ASSUME Machine, Bounds, mounted
  PROVE  /\ Base.tl >= -2 * (Lag - 1) /\ \E d \in Durations : Base.tl <= d
         /\ Base.game = shown.game + Queued("start") /\ Base.len <= TextLen + 1
         /\ Base.tl \in Int /\ Base.game \in Nat /\ shown.game \in Nat
         /\ OnlyTicks => Base.tl = shown.tl - Queued("tick")
<1>1. shown \in Screen /\ Base \in Screen
  BY BaseFields DEF Machine
<1>2. /\ shown.tl \in Int /\ shown.game \in Nat /\ Base.tl \in Int /\ Base.game \in Nat
      /\ Queued("tick") \in Nat /\ Queued("start") \in Nat /\ Lag \in Nat /\ TextLen \in Nat
  BY <1>1, Counts, ArenaAssumption DEF Screen, ArenaAssumption
<1>3. ASSUME OnlyTicks
      PROVE  /\ Base.tl = shown.tl - Queued("tick") /\ Base.game = shown.game + Queued("start")
             /\ Base.len = shown.len
  <2>1. Len(queue) \in Int /\ Base = Ticked(Len(queue)) /\ Len(queue) = Queued("tick")
    BY <1>3, QueueRendered, Counts DEF Base
  <2>2. /\ Base.tl = shown.tl - Len(queue) /\ Base.game = shown.game /\ Base.len = shown.len
    BY <1>1, <2>1, TickedFields DEF Ticked
  <2>3. Queued("start") = 0
    BY <1>3, Counts
  <2> QED BY <1>2, <2>1, <2>2, <2>3
<1>4. ASSUME NEW p \in TickSeq, queue = Append(p, FinishUpdate)
      PROVE  /\ Base.tl = shown.tl - Queued("tick") /\ Base.game = shown.game + Queued("start")
             /\ Base.len = shown.len
  <2>1. Len(p) \in Int /\ Base = Finished(Ticked(Len(p))) /\ Len(p) = Queued("tick")
    BY <1>4, QueueRendered, Counts DEF Base
  <2>2. /\ Ticked(Len(p)) \in Screen /\ Ticked(Len(p)).tl = shown.tl - Len(p)
        /\ Ticked(Len(p)).game = shown.game /\ Ticked(Len(p)).len = shown.len
    BY <1>1, <2>1, TickedFields DEF Ticked
  <2>3. Queued("start") = 0
    BY <1>4, Counts
  <2>4. Base.tl = shown.tl - Len(p) /\ Base.game = shown.game /\ Base.len = shown.len
    BY <2>1, <2>2, FinishedFields
  <2> QED BY <1>2, <2>1, <2>3, <2>4
<1>5. ASSUME NEW d \in Durations, queue = <<StartUpdate(d)>>
      PROVE  Base.tl = d /\ Base.game = shown.game + Queued("start") /\ Base.len = 0
  <2>1. Base = Started(shown, d)
    BY <1>5, QueueRendered DEF Base
  <2>2. Queued("start") = 1
    BY <1>5, Counts
  <2> QED BY <1>1, <2>1, <2>2, StartedFields
<1>6. ASSUME Base.tl = shown.tl - Queued("tick"), Base.game = shown.game + Queued("start"),
             Base.len = shown.len
      PROVE  /\ Base.tl >= -2 * (Lag - 1) /\ \E d \in Durations : Base.tl <= d
             /\ Base.len <= TextLen + 1
  <2>1. PICK d \in Durations : shown.tl <= d
    BY DEF Bounds
  <2>2. d \in Int
    BY DurationNumbers
  <2>3. Base.tl <= d
    BY <1>2, <1>6, <2>1, <2>2
  <2>4. Base.tl >= -2 * (Lag - 1)
    BY <1>6 DEF Bounds
  <2>5. Base.len <= TextLen + 1
    BY <1>6 DEF Bounds
  <2> QED BY <2>3, <2>4, <2>5
<1>7. ASSUME NEW d \in Durations, Base.tl = d, Base.len = 0
      PROVE  /\ Base.tl >= -2 * (Lag - 1) /\ \E c \in Durations : Base.tl <= c
             /\ Base.len <= TextLen + 1
  <2>1. d \in Int /\ d > 0 /\ Lag >= 1
    BY DurationNumbers, ArenaAssumption DEF ArenaAssumption
  <2>2. d >= -2 * (Lag - 1) /\ d <= d
    BY <1>2, <2>1
  <2>3. 0 <= TextLen + 1
    BY <1>2
  <2>4. Base.tl >= -2 * (Lag - 1) /\ Base.tl <= d
    BY <1>7, <2>2
  <2>5. Base.len <= TextLen + 1
    BY <1>7, <2>3
  <2> QED BY <2>4, <2>5
<1>8. CASE OnlyTicks
  BY <1>2, <1>3, <1>6, <1>8
<1>9. CASE EndQueued
  <2>1. PICK p \in TickSeq : queue = Append(p, FinishUpdate)
    BY <1>9 DEF EndQueued
  <2> QED BY <1>2, <1>4, <1>6, <1>9, <2>1, QueueKinds
<1>10. CASE StartQueued
  <2>1. PICK d \in Durations : queue = <<StartUpdate(d)>>
    BY <1>10 DEF StartQueued
  <2> QED BY <1>2, <1>5, <1>7, <1>10, <2>1, QueueKinds
<1> QED BY <1>8, <1>9, <1>10, ExpiredSomewhere

\* The numbers in these bounds.
LEMMA Numbers ==
  ASSUME Machine, Bounds
  PROVE  /\ Lag \in Int /\ Lag >= 1 /\ TextLen \in Nat /\ MaxGames \in Nat /\ MaxGames >= 1
         /\ shown.game \in Nat /\ shown.game <= MaxGames /\ shown.tl \in Int /\ shown.len \in Nat
         /\ Queued("tick") \in Nat /\ Queued("start") \in Nat
<1>1. /\ Lag \in Int /\ Lag >= 1 /\ TextLen \in Nat /\ MaxGames \in Nat /\ MaxGames >= 1
  BY ArenaAssumption DEF ArenaAssumption
<1>2. shown.game \in Nat /\ shown.tl \in Int /\ shown.len \in Nat
  BY DEF Machine, Screen
<1>3. Queued("tick") \in Nat /\ Queued("start") \in Nat
  BY Counts
<1>4. shown.game + Queued("start") <= MaxGames
  BY DEF Bounds
<1> QED BY <1>1, <1>2, <1>3, <1>4

\* A result of a game that is within the bounds.
LEMMA BoundedSubmission ==
  ASSUME NEW s \in Screen, s.game <= MaxGames, NEW by \in {"timer", "text", "escape"}
  PROVE  <<Submission(s, by)>> \in Seq(BoundedResult)
<1>1. Submission(s, by) \in BoundedResult
  BY SubmissionTyped DEF BoundedResult
<1> QED BY <1>1

\* The game on the screen and the next one are among the games.
LEMMA RacedBounds ==
  ASSUME Machine, Bounds
  PROVE  raced \union {shown.game, shown.game + 1} \subseteq 0..(MaxGames + 1)
<1>1. shown.game \in 0..(MaxGames + 1) /\ shown.game + 1 \in 0..(MaxGames + 1)
  BY Numbers
<1> QED BY <1>1 DEF Bounds

\* A handler keeps the bounds if the screen after it is within them.
LEMMA DiscreteBounds ==
  ASSUME Machine, Bounds, NEW u \in Update, NEW by \in {"timer", "text", "escape"},
         NEW results \in {<<>>, <<Submission(shown, by)>>}, NEW starts,
         Discrete(<<u>>, results, starts),
         \/ starts = <<>> /\ After(u).game <= MaxGames
         \/ /\ \E d \in Durations : starts = <<StartUpdate(d)>>
            /\ ~Rings(u) /\ After(u).game + 1 <= MaxGames,
         After(u).tl >= -2 * (Lag - 1), \E d \in Durations : After(u).tl <= d,
         After(u).len <= TextLen + 1
  PROVE  Bounds'
<1>1. /\ shown' = After(u) /\ After(u) \in Screen /\ effect' = NoEffect
      /\ queue' = starts \o (IF Rings(u) THEN <<FinishUpdate>> ELSE <<>>)
      /\ submitted' = submitted \o results
           \o (IF Pend THEN <<Submission(shown, "timer")>> ELSE <<>>)
           \o (IF Rings(u) THEN <<Submission(After(u), "timer")>> ELSE <<>>)
      /\ raced' = IF Unrendered THEN raced \union {shown.game, shown.game + 1} ELSE raced
  BY DiscreteSays
<1>2. Queued("tick")' = 0 /\ shown'.game + Queued("start")' <= MaxGames
  <2>1. After(u).game \in Nat /\ MaxGames \in Nat
    BY <1>1, Numbers DEF Screen
  <2>2. CASE starts = <<>> /\ After(u).game <= MaxGames
    <3>1. queue' = <<>> \/ queue' = <<FinishUpdate>>
      BY <1>1, <2>2
    <3>2. Queued("tick")' = 0 /\ Queued("start")' = 0
      BY <3>1, CountsAfter
    <3> QED BY <1>1, <2>1, <2>2, <3>2
  <2>3. ASSUME NEW d \in Durations, starts = <<StartUpdate(d)>>, ~Rings(u),
               After(u).game + 1 <= MaxGames
        PROVE  Queued("tick")' = 0 /\ shown'.game + Queued("start")' <= MaxGames
    <3>1. queue' = <<StartUpdate(d)>>
      BY <1>1, <2>3
    <3>2. Queued("tick")' = 0 /\ Queued("start")' = 1
      BY <3>1, CountsAfter
    <3> QED BY <1>1, <2>3, <3>2
  <2> QED BY <2>2, <2>3
<1>3. submitted' \in Seq(BoundedResult)
  <2> DEFINE a == IF Pend THEN <<Submission(shown, "timer")>> ELSE <<>>
             b == IF Rings(u) THEN <<Submission(After(u), "timer")>> ELSE <<>>
  <2>1. After(u).game <= MaxGames
    <3>1. After(u).game \in Nat /\ MaxGames \in Nat
      BY <1>1, Numbers DEF Screen
    <3> QED BY <3>1
  <2>2. shown \in Screen /\ shown.game <= MaxGames
    BY Numbers DEF Machine
  <2>3. results \in Seq(BoundedResult)
    BY <2>2, BoundedSubmission, EmptySeq
  <2>4. a \in Seq(BoundedResult)
    BY <2>2, BoundedSubmission, EmptySeq
  <2>5. b \in Seq(BoundedResult)
    BY <1>1, <2>1, BoundedSubmission, EmptySeq
  <2>6. submitted \in Seq(BoundedResult) /\ submitted' = ((submitted \o results) \o a) \o b
    BY <1>1 DEF Bounds
  <2> HIDE DEF a, b
  <2>7. submitted \o results \in Seq(BoundedResult)
    BY <2>3, <2>6, ConcatProperties
  <2>8. (submitted \o results) \o a \in Seq(BoundedResult)
    BY <2>4, <2>7, ConcatProperties
  <2> QED BY <2>5, <2>6, <2>8, ConcatProperties
<1>4. raced' \subseteq 0..(MaxGames + 1)
  <2>1. raced \subseteq 0..(MaxGames + 1)
    BY DEF Bounds
  <2> QED BY <1>1, <2>1, RacedBounds
<1>5. /\ shown'.tl >= -2 * (Lag - 1) /\ \E d \in Durations : shown'.tl <= d
      /\ shown'.len <= TextLen + 1 /\ shown'.tl \in Int /\ Lag \in Int /\ Lag >= 1
  BY <1>1, Numbers DEF Screen
<1>6. shown'.tl - Queued("tick")' >= -2 * (Lag - 1)
  BY <1>2, <1>5
<1>7. Ticks' <= Lag
  BY <1>1, <1>2, <1>5 DEF Ticks
<1> QED BY <1>1, <1>2, <1>3, <1>4, <1>5, <1>6, <1>7 DEF Bounds

\* handleChange keeps the bounds.
LEMMA ChangeBounds ==
  ASSUME Machine, Bounds, NEW n \in 0..(TextLen + 1), NEW wrong \in BOOLEAN, Change(n, wrong)
  PROVE  Bounds'
<1> DEFINE u == KeyUpdate(n, wrong)
           results == IF n >= shown.text THEN <<Submission(shown, "text")>> ELSE <<>>
<1>1. u \in Update /\ ~shown.fin /\ mounted /\ Discrete(<<u>>, results, <<>>)
  BY KeyTyped DEF Change, Discrete
<1>2. results \in {<<>>, <<Submission(shown, "text")>>}
  OBVIOUS
<1>3. After(u).game = Base.game /\ After(u).tl = Base.tl /\ After(u).len = n
  BY <1>1, ChangeFields
<1>4. /\ Base.tl >= -2 * (Lag - 1) /\ \E d \in Durations : Base.tl <= d
      /\ Base.game <= MaxGames
  BY <1>1, BaseBounds DEF Bounds
<1>5. n <= TextLen + 1
  BY Numbers
<1> HIDE DEF u, results
<1> QED BY <1>1, <1>2, <1>3, <1>4, <1>5, DiscreteBounds

\* Escape keeps them.
LEMMA EscapeBounds == ASSUME Machine, Bounds, Escape PROVE Bounds'
<1> DEFINE results == <<Submission(shown, "escape")>>
<1>1. FinishUpdate \in Update /\ Discrete(<<FinishUpdate>>, results, <<>>) /\ mounted
  BY UpdateKinds DEF Escape, Discrete
<1>2. results \in {<<>>, <<Submission(shown, "escape")>>}
  OBVIOUS
<1>3. /\ After(FinishUpdate).game = Base.game /\ After(FinishUpdate).tl = Base.tl
      /\ After(FinishUpdate).len = Base.len
  BY ClickFields
<1>4. /\ Base.tl >= -2 * (Lag - 1) /\ \E d \in Durations : Base.tl <= d
      /\ Base.game <= MaxGames /\ Base.len <= TextLen + 1
  BY <1>1, BaseBounds DEF Bounds
<1> HIDE DEF results
<1> QED BY <1>1, <1>2, <1>3, <1>4, DiscreteBounds

\* A restart keeps them: another game is still to come.
LEMMA RestartBounds == ASSUME Machine, Bounds, Restart PROVE Bounds'
<1> DEFINE u == StartUpdate(shown.dur)
<1>1. u \in Update /\ Discrete(<<u>>, <<>>, <<>>) /\ mounted /\ MoreGames /\ shown.dur \in Durations
  BY UpdateKinds DEF Restart, Machine, Screen, Discrete
<1>2. <<>> \in {<<>>, <<Submission(shown, "timer")>>}
  OBVIOUS
<1>3. After(u).game = Base.game + 1 /\ After(u).tl = shown.dur /\ After(u).len = 0
  BY ClickFields
<1>4. After(u).game <= MaxGames
  <2>1. Base.game = shown.game + Queued("start") /\ shown.game + Queued("start") < MaxGames
    BY <1>1, BaseBounds DEF MoreGames
  <2> QED BY <1>3, <2>1, Numbers
<1>5. /\ After(u).tl >= -2 * (Lag - 1) /\ \E d \in Durations : After(u).tl <= d
      /\ After(u).len <= TextLen + 1
  <2>1. shown.dur \in Int /\ shown.dur > 0
    BY <1>1, DurationNumbers
  <2>2. shown.dur >= -2 * (Lag - 1) /\ shown.dur <= shown.dur /\ 0 <= TextLen + 1
    BY <2>1, Numbers
  <2> QED BY <1>1, <1>3, <2>2
<1> HIDE DEF u
<1> QED BY <1>1, <1>2, <1>4, <1>5, DiscreteBounds

\* A choice keeps them: its start is queued, and no effect ends a game.
LEMMA ChooseBounds == ASSUME Machine, Bounds, NEW d \in Durations, Choose(d) PROVE Bounds'
<1> DEFINE u == [op |-> "choose", dur |-> d]
           starts == <<StartUpdate(d)>>
<1>1. /\ u \in Update /\ Discrete(<<u>>, <<>>, starts) /\ mounted /\ ~shown.active /\ ~shown.fin
      /\ MoreGames
  BY UpdateKinds DEF Choose, Discrete
<1>2. ~Pend /\ ~EndQueued
  BY <1>1, ExpiredSomewhere
<1>3. ~Base.active
  BY <1>1, <1>2, BaseFields, ExpiredSomewhere
<1>4. ~After(u).active /\ After(u).game = Base.game /\ After(u).tl = Base.tl /\ After(u).len = Base.len
  BY <1>2, <1>3, ClickFields
<1>5. /\ Base.tl >= -2 * (Lag - 1) /\ \E e \in Durations : Base.tl <= e
      /\ Base.game = shown.game + Queued("start") /\ Base.len <= TextLen + 1 /\ Base.game \in Nat
  BY <1>1, BaseBounds
<1>6. After(u).game + 1 <= MaxGames
  <2>1. shown.game + Queued("start") < MaxGames
    BY <1>1 DEF MoreGames
  <2> QED BY <1>4, <1>5, <2>1, Numbers
<1>7. ~Rings(u)
  BY <1>4 DEF Rings, Expires
<1>8. /\ \E e \in Durations : starts = <<StartUpdate(e)>>
      /\ <<>> \in {<<>>, <<Submission(shown, "timer")>>}
  OBVIOUS
<1> HIDE DEF u, starts
<1> QED BY <1>1, <1>4, <1>5, <1>6, <1>7, <1>8, DiscreteBounds

\* A render keeps them: as long as the clock runs it was above 0 when the
\* ticks were queued, and these are at most Lag.
LEMMA RenderBounds == ASSUME Machine, Bounds, Render PROVE Bounds'
<1>1. /\ mounted /\ effect = NoEffect /\ shown' = Base /\ queue' = <<>>
      /\ effect' = (IF DepsChanged(shown, Base) THEN Base ELSE NoEffect)
      /\ interval' = interval /\ submitted' = submitted /\ raced' = raced
  BY DEF Render, Base
<1>2. /\ Base.tl >= -2 * (Lag - 1) /\ \E d \in Durations : Base.tl <= d
      /\ Base.game <= MaxGames /\ Base.len <= TextLen + 1 /\ Base.tl \in Int /\ Base.game \in Nat
      /\ OnlyTicks => Base.tl = shown.tl - Queued("tick")
  BY <1>1, BaseBounds DEF Bounds
<1>3. Queued("tick")' = 0 /\ Queued("start")' = 0
  BY <1>1, CountsAfter
<1>4. interval => Base.tl >= 1 - Lag
  <2> SUFFICES ASSUME interval PROVE Base.tl >= 1 - Lag
    OBVIOUS
  <2>1. shown.active /\ shown.tl > 0 /\ ~EndQueued /\ ~StartQueued
    BY <1>1, ExpiredSomewhere DEF Machine, Runs, Expires
  <2>2. Base.tl = shown.tl - Queued("tick")
    BY <1>1, <1>2, <2>1, ExpiredSomewhere
  <2>3. Queued("tick") + 0 <= Lag
    BY <1>1 DEF Bounds, Ticks
  <2> QED BY <2>1, <2>2, <2>3, Numbers
<1>5. /\ Ticks' <= Lag /\ shown'.tl - Queued("tick")' >= -2 * (Lag - 1)
      /\ shown'.game + Queued("start")' <= MaxGames
  <2>1. Ticks' \in {0, 1}
    BY <1>3 DEF Ticks
  <2> QED BY <1>1, <1>2, <1>3, <2>1, Numbers
<1> QED BY <1>1, <1>2, <1>4, <1>5 DEF Bounds

\* The effect keeps them.
LEMMA EffectBounds == ASSUME Machine, Bounds, RunEffect PROVE Bounds'
<1>1. /\ effect # NoEffect /\ effect = shown /\ OnlyTicks /\ shown \in Screen
      /\ effect' = NoEffect /\ shown' = shown /\ raced' = raced
      /\ queue' = queue \o ExpiryUpdates(shown) /\ submitted' = submitted \o ExpiryResult(shown)
  BY DEF RunEffect, Machine, Shape
<1>2. submitted' \in Seq(BoundedResult)
  <2>1. ExpiryResult(shown) \in Seq(BoundedResult)
    BY <1>1, BoundedSubmission, EmptySeq, Numbers DEF ExpiryResult
  <2> QED BY <1>1, <2>1, ConcatProperties DEF Bounds
<1>3. Queued("tick")' = Queued("tick") /\ Queued("start")' = Queued("start")
  <2>1. queue \in TickSeq /\ Queued("tick") = Len(queue) /\ Queued("start") = 0
    BY <1>1, Counts DEF OnlyTicks
  <2>2. CASE Expires(shown)
    <3>1. queue' = Append(queue, FinishUpdate)
      BY <1>1, <2>1, <2>2, AppendIsConcat DEF ExpiryUpdates, TickSeq
    <3> QED BY <2>1, <3>1, CountsAfter
  <2>3. CASE ~Expires(shown)
    <3>1. queue' = queue
      BY <1>1, <2>1, <2>3, ConcatEmptySeq DEF ExpiryUpdates, TickSeq
    <3> QED BY <2>1, <3>1, CountsAfter
  <2> QED BY <2>2, <2>3
<1>4. Ticks' <= Lag
  <2>1. Ticks = Queued("tick") + 1 /\ Ticks' = Queued("tick") + 0
    BY <1>1, <1>3 DEF Ticks
  <2>2. Ticks <= Lag
    BY DEF Bounds
  <2> QED BY <2>1, <2>2, Numbers
<1> QED BY <1>1, <1>2, <1>3, <1>4 DEF Bounds

\* A tick keeps them: at most Lag are counted, and they are counted from a
\* clock above 0, or from one that is Lag - 1 below it with an effect to come.
LEMMA TickBounds == ASSUME Machine, Bounds, Tick PROVE Bounds'
<1>1. /\ interval /\ Ticks < Lag /\ queue' = Append(queue, TickUpdate)
      /\ shown' = shown /\ effect' = effect /\ interval' = interval
      /\ submitted' = submitted /\ raced' = raced
  BY DEF Tick
<1>2. OnlyTicks
  BY <1>1 DEF Machine, Shape, Runs, Expires
<1>3. /\ queue' \in TickSeq /\ Len(queue') = Len(queue) + 1
      /\ Queued("tick") = Len(queue) /\ Queued("start") = 0
  BY <1>1, <1>2, Counts, AppendProperties DEF OnlyTicks, TickSeq
<1>4. Queued("tick")' = Queued("tick") + 1 /\ Queued("start")' = Queued("start")
  BY <1>3, CountsAfter
<1>5. CASE effect = NoEffect
  <2>1. Ticks = Queued("tick") + 0 /\ Ticks' = Queued("tick") + 1 + 0
    BY <1>1, <1>4, <1>5 DEF Ticks
  <2>2. shown.tl >= 1
    BY <1>1, <1>5 DEF Machine, Screen, Runs
  <2>3. Ticks' <= Lag /\ shown.tl - (Queued("tick") + 1) >= -2 * (Lag - 1)
    BY <1>1, <2>1, <2>2, Numbers
  <2> QED BY <1>1, <1>4, <2>3 DEF Bounds
<1>6. CASE effect # NoEffect
  <2>1. Ticks = Queued("tick") + 1 /\ Ticks' = Queued("tick") + 1 + 1
    BY <1>1, <1>4, <1>6 DEF Ticks
  <2>2. shown.tl >= 1 - Lag
    BY <1>1, <1>6 DEF Bounds
  <2>3. Ticks' <= Lag /\ shown.tl - (Queued("tick") + 1) >= -2 * (Lag - 1)
    BY <1>1, <2>1, <2>2, Numbers
  <2> QED BY <1>1, <1>4, <2>3 DEF Bounds
<1> QED BY <1>5, <1>6

\* Leaving the arena keeps them.
LEMMA LeaveBounds == ASSUME Machine, Bounds, Leave PROVE Bounds'
<1>1. /\ effect' = NoEffect /\ queue' = <<>> /\ interval' = FALSE /\ shown' = shown
      /\ submitted' = submitted \o (IF effect = NoEffect THEN <<>> ELSE ExpiryResult(effect))
      /\ raced' = IF Unrendered THEN raced \union {shown.game, shown.game + 1} ELSE raced
  BY DEF Leave, MarkRace
<1>2. submitted' \in Seq(BoundedResult)
  <2> DEFINE late == IF effect = NoEffect THEN <<>> ELSE ExpiryResult(effect)
  <2>1. shown \in Screen /\ shown.game <= MaxGames /\ (effect # NoEffect => effect = shown)
    BY Numbers DEF Machine
  <2>2. late \in Seq(BoundedResult)
    BY <2>1, BoundedSubmission, EmptySeq DEF ExpiryResult
  <2>3. submitted \in Seq(BoundedResult) /\ submitted' = submitted \o late
    BY <1>1 DEF Bounds
  <2> HIDE DEF late
  <2> QED BY <2>2, <2>3, ConcatProperties
<1>3. raced' \subseteq 0..(MaxGames + 1)
  <2>1. raced \subseteq 0..(MaxGames + 1)
    BY DEF Bounds
  <2> QED BY <1>1, <2>1, RacedBounds
<1>4. Queued("tick")' = 0 /\ Queued("start")' = 0
  BY <1>1, CountsAfter
<1>5. Ticks' = 0
  BY <1>1, <1>4 DEF Ticks
<1>6. /\ Ticks' <= Lag /\ shown.tl - Queued("tick")' >= -2 * (Lag - 1)
      /\ shown.game + Queued("start")' <= MaxGames
  <2>1. shown.tl >= -2 * (Lag - 1)
    BY DEF Bounds
  <2> QED BY <1>4, <1>5, <2>1, Numbers
<1> QED BY <1>1, <1>2, <1>3, <1>6 DEF Bounds

\* A newly mounted arena with its start queued is within the bounds.
LEMMA MountedBounds ==
  ASSUME NEW g \in Nat, g + 1 <= MaxGames, NEW d \in Durations,
         shown' = Mounted(g, d), queue' = <<StartUpdate(d)>>, effect' = NoEffect,
         submitted' \in Seq(BoundedResult), raced' \subseteq 0..(MaxGames + 1)
  PROVE  Bounds'
<1>1. shown'.game = g /\ shown'.tl = d /\ shown'.len = 0 /\ d \in Int /\ d > 0
  BY MountedTyped, DurationNumbers
<1>2. Queued("tick")' = 0 /\ Queued("start")' = 1
  BY CountsAfter
<1>3. Ticks' = 0
  BY <1>2 DEF Ticks
<1>4. Lag \in Int /\ Lag >= 1 /\ TextLen \in Nat
  BY ArenaAssumption DEF ArenaAssumption
<1>5. /\ shown'.tl >= -2 * (Lag - 1) /\ shown'.tl <= d
      /\ shown'.tl - Queued("tick")' >= -2 * (Lag - 1) /\ Ticks' <= Lag
      /\ shown'.len <= TextLen + 1
  BY <1>1, <1>2, <1>3, <1>4
<1>6. shown'.game + Queued("start")' <= MaxGames
  BY <1>1, <1>2
<1> QED BY <1>5, <1>6 DEF Bounds

\* Opening the arena keeps them.
LEMMA OpenBounds == ASSUME Machine, Bounds, Open PROVE Bounds'
<1>1. PICK d \in Durations : shown' = Mounted(shown.game + 1, d) /\ queue' = <<StartUpdate(d)>>
  BY DEF Open
<1>2. /\ ~mounted /\ shown.game + 2 <= MaxGames /\ effect' = effect
      /\ submitted' = submitted /\ raced' = raced
  BY DEF Open
<1>3. effect' = NoEffect
  BY <1>2 DEF Machine
<1> DEFINE g == shown.game + 1
<1>4. g \in Nat /\ g + 1 <= MaxGames
  BY <1>2, Numbers
<1>5. shown' = Mounted(g, d)
  BY <1>1
<1> HIDE DEF g
<1> QED BY <1>1, <1>2, <1>3, <1>4, <1>5, MountedBounds DEF Bounds

\* The arena starts within the bounds.
LEMMA BoundsInit == Init => Bounds
<1> SUFFICES ASSUME Init PROVE Bounds
  OBVIOUS
<1>1. PICK d \in Durations : shown = Mounted(0, d) /\ queue = <<StartUpdate(d)>>
  BY DEF Init
<1>2. shown.game = 0 /\ shown.tl = d /\ shown.len = 0 /\ d \in Int /\ d > 0
  BY <1>1, MountedTyped, DurationNumbers
<1>3. Queued("tick") = 0 /\ Queued("start") = 1
  BY <1>1, Counts
<1>4. effect = NoEffect /\ submitted \in Seq(BoundedResult) /\ raced \subseteq 0..(MaxGames + 1)
  BY EmptySeq DEF Init
<1>5. Ticks = 0
  BY <1>3, <1>4 DEF Ticks
<1>6. /\ Lag \in Int /\ Lag >= 1 /\ TextLen \in Nat /\ MaxGames \in Nat /\ MaxGames >= 1
  BY ArenaAssumption DEF ArenaAssumption
<1>7. /\ shown.tl >= -2 * (Lag - 1) /\ shown.tl <= d
      /\ shown.tl - Queued("tick") >= -2 * (Lag - 1) /\ Ticks <= Lag
      /\ shown.len <= TextLen + 1 /\ shown.game + Queued("start") <= MaxGames
  BY <1>2, <1>3, <1>5, <1>6
<1> QED BY <1>4, <1>7 DEF Bounds

\* Every step keeps them.
LEMMA BoundsStep == Machine /\ Bounds /\ [Next]_vars => Bounds'
<1> SUFFICES ASSUME Machine, Bounds, [Next]_vars PROVE Bounds'
  OBVIOUS
<1>1. CASE Next
  BY <1>1, TickBounds, RenderBounds, EffectBounds, ChangeBounds, EscapeBounds, RestartBounds,
     LeaveBounds, OpenBounds, ChooseBounds DEF Next
<1>2. CASE UNCHANGED vars
  BY <1>2 DEF vars, Bounds, Ticks, Queued
<1> QED BY <1>1, <1>2

\* TypeOK: the clock is never more than twice Lag - 1 below 0, and never below
\* 0 where a render is over before the next second; no game is counted beyond
\* the last one, in the arena or among the results (TypingArena.tsx:63-83).
THEOREM ArenaTypes == Spec => []TypeOK
<1>1. Init => Machine /\ Bounds
  BY MachineInit, BoundsInit
<1>2. Machine /\ Bounds /\ [Next]_vars => (Machine /\ Bounds)'
  BY MachineStep, BoundsStep
<1>3. Machine /\ Bounds => TypeOK
  <2> SUFFICES ASSUME Machine, Bounds PROVE TypeOK
    OBVIOUS
  <2>1. shown.game \in 0..MaxGames /\ shown.len \in 0..(TextLen + 1)
    <3>1. shown.len <= TextLen + 1
      BY DEF Bounds
    <3> QED BY <3>1, Numbers
  <2>2. \A i \in DOMAIN submitted : submitted[i].game \in 0..MaxGames
    <3> SUFFICES ASSUME NEW i \in DOMAIN submitted PROVE submitted[i].game \in 0..MaxGames
      OBVIOUS
    <3>1. submitted[i] \in BoundedResult
      BY LenProperties, ElementOfSeq DEF Bounds
    <3>2. submitted[i].game \in Nat /\ submitted[i].game <= MaxGames
      BY <3>1 DEF BoundedResult, Result
    <3> QED BY <3>2, Numbers
  <2>3. /\ shown.dur \in Durations /\ shown.text \in {0, TextLen}
        /\ shown.active \in BOOLEAN /\ shown.fin \in BOOLEAN
    BY DEF Machine, Screen
  <2>4. /\ mounted \in BOOLEAN /\ interval \in BOOLEAN /\ ~(shown.active /\ shown.fin)
    BY DEF Machine
  <2>5. /\ shown.tl >= -2 * (Lag - 1) /\ \E d \in Durations : shown.tl <= d
        /\ raced \subseteq 0..(MaxGames + 1)
    BY DEF Bounds
  <2> QED BY <2>1, <2>2, <2>3, <2>4, <2>5 DEF TypeOK
<1> QED BY <1>1, <1>2, <1>3, PTL DEF Spec

=============================================================================
