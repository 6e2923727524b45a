---------------------------- MODULE TypingArena -----------------------------
(***************************************************************************)
(* The typing game (TypingArena.tsx) as React 19 runs it.  A handler and   *)
(* an effect read the state of the render they were created in; what they  *)
(* set is queued, and a later render applies the queue in order.           *)
(*                                                                         *)
(* After a key or a click everything queued is rendered at once, and the   *)
(* effects of that render run at once.  What a timer or an effect sets is  *)
(* rendered in a task of its own, and the effects of that render run in    *)
(* yet another task: keys and clicks may come in between.  A pending       *)
(* effect runs before the next render, so at most one is pending.          *)
(*                                                                         *)
(* The typed text is its length, and a result is the three numbers that    *)
(* wpm, raw_wpm and accuracy are computed from.  Key intervals, bad keys   *)
(* and the advice drawn from them are left out.                            *)
(***************************************************************************)
EXTENDS Integers, Sequences, FiniteSets, SequencesExt

CONSTANTS
  Durations,  \* the choices of game length, in seconds (15, 30, 60)
  TextLen,    \* length of a generated text
  Lag,        \* interval callbacks that may run before the first one's render is over
  MaxErrors,  \* bound: wrong characters in a game
  MaxGames    \* bound: calls of startGame and visits to the arena

ASSUME ArenaAssumption ==
  /\ Durations \subseteq Nat \ {0} /\ Durations # {}
  /\ TextLen \in Nat \ {0} /\ Lag \in Nat \ {0} /\ MaxErrors \in Nat
  /\ MaxGames \in Nat \ {0}

VARIABLES
  mounted,    \* is the arena the view shown?
  shown,      \* the state of the last render
  queue,      \* updates set since, in order
  effect,     \* the render whose timer effect has still to run, if any
  interval,   \* is a setInterval running?
  submitted,  \* history: the results passed to onComplete
  raced       \* history: games touched while their start or end was unrendered

vars == <<mounted, shown, queue, effect, interval, submitted, raced>>

NoStats == [len |-> 0, errs |-> 0, at |-> 0]
NoEffect == [none |-> TRUE]

\* useState's initial values: the text is empty until startGame runs.
Mounted(g, d) ==
  [game |-> g, dur |-> d, tl |-> d, text |-> 0, active |-> FALSE, fin |-> FALSE,
   len |-> 0, errs |-> 0, stats |-> NoStats]

StartUpdate(d) == [op |-> "start", dur |-> d]
TickUpdate == [op |-> "tick"]
FinishUpdate == [op |-> "finish"]

\* How many updates of a kind are queued.
Queued(op) == Cardinality({i \in DOMAIN queue : queue[i].op = op})

\* The mount's effect has called startGame.
Init ==
  /\ mounted = TRUE
  /\ \E d \in Durations : shown = Mounted(0, d) /\ queue = <<StartUpdate(d)>>
  /\ effect = NoEffect /\ interval = FALSE
  /\ submitted = <<>> /\ raced = {}

-----------------------------------------------------------------------------
(* Updates.                                                                *)

\* startGame's setters; game is the model's own count.
Started(s, d) ==
  [s EXCEPT !.game = @ + 1, !.tl = d, !.text = TextLen, !.active = FALSE, !.fin = FALSE,
            !.len = 0, !.errs = 0, !.stats = NoStats]

FinishedStillActive(s) == [s EXCEPT !.fin = TRUE]

Finished(s) == [s EXCEPT !.active = FALSE, !.fin = TRUE]

\* handleChange's setters; u.full says that it went on to finishGame.
Typed(s, u) ==
  LET t == [s EXCEPT !.active = @ \/ u.first, !.errs = @ + u.err, !.len = u.len, !.stats = u.stats]
  IN IF u.full THEN Finished(t) ELSE t

Apply(s, u) ==
  CASE u.op = "tick" -> [s EXCEPT !.tl = @ - 1]
    [] u.op = "start" -> Started(s, u.dur)
    [] u.op = "finish" -> Finished(s)
    [] u.op = "choose" -> [s EXCEPT !.dur = u.dur]
    [] u.op = "key" -> Typed(s, u)

Rendered(s, q) == FoldLeft(Apply, s, q)

\* What finishGame passes to onComplete when it runs in the closure of render s.
Submission(s, by) ==
  [game |-> s.game, stats |-> s.stats, errs |-> s.errs, elapsed |-> s.dur - s.tl, by |-> by]

-----------------------------------------------------------------------------
(* The timer effect, with dependencies [isActive, timeLeft].               *)

DepsTimeOnly(s, t) == s.tl # t.tl
DepsChanged(s, t) == s.active # t.active \/ s.tl # t.tl

RunsAtZero(s) == s.active /\ s.tl >= 0
Runs(s) == s.active /\ s.tl > 0

ExpiresBelowZero(s) == ~Runs(s) /\ s.active /\ s.tl < 0
Expires(s) == ~Runs(s) /\ s.active /\ s.tl = 0
ExpiryUpdates(s) == IF Expires(s) THEN <<FinishUpdate>> ELSE <<>>
ExpiryResult(s) == IF Expires(s) THEN <<Submission(s, "timer")>> ELSE <<>>

\* The effects of a key's or a click's render run with it; the rest wait.
RunEffect ==
  /\ effect # NoEffect
  /\ interval' = Runs(effect)
  /\ queue' = queue \o ExpiryUpdates(effect)
  /\ submitted' = submitted \o ExpiryResult(effect)
  /\ effect' = NoEffect
  /\ UNCHANGED <<mounted, shown, raced>>

\* Callbacks whose tick is not on screen yet, or whose effects have not run.
Ticks == Queued("tick") + (IF effect = NoEffect THEN 0 ELSE 1)

\* The interval's callback: setTimeLeft(prev => prev - 1).  It comes once a
\* second, which is Lag times as long as a render and its effects may take.
Tick ==
  /\ interval
  /\ Ticks < Lag
  /\ queue' = Append(queue, TickUpdate)
  /\ UNCHANGED <<mounted, shown, effect, interval, submitted, raced>>

\* The task that renders what timers and effects have set.
Render ==
  /\ mounted /\ effect = NoEffect /\ queue # <<>>
  /\ shown' = Rendered(shown, queue)
  /\ queue' = <<>>
  /\ effect' = IF DepsChanged(shown, shown') THEN shown' ELSE NoEffect
  /\ UNCHANGED <<mounted, interval, submitted, raced>>

-----------------------------------------------------------------------------
(* Keys and clicks.                                                        *)

\* A game's start or end has been set and is not yet on the screen.
Unrendered ==
  \/ effect # NoEffect /\ Expires(effect)
  \/ \E i \in DOMAIN queue : queue[i].op \in {"start", "finish"}

MarkRace == raced' = IF Unrendered THEN raced \union {shown.game, shown.game + 1} ELSE raced

\* A handler sets updates and submits results, both computed from the render
\* on screen.  A pending effect runs next, then everything is rendered, and
\* then that render's effects run.
Discrete(updates, results, starts) ==
  LET late == IF effect = NoEffect THEN <<>> ELSE ExpiryUpdates(effect)
      s == Rendered(shown, queue \o updates \o late)
      again == DepsChanged(shown, s)
  IN /\ mounted
     /\ shown' = s
     /\ effect' = NoEffect
     /\ queue' = starts \o (IF again THEN ExpiryUpdates(s) ELSE <<>>)
     /\ submitted' = submitted \o results
          \o (IF effect = NoEffect THEN <<>> ELSE ExpiryResult(effect))
          \o (IF again THEN ExpiryResult(s) ELSE <<>>)
     /\ interval' = IF again THEN Runs(s)
                    ELSE IF effect # NoEffect THEN Runs(effect) ELSE interval
     /\ MarkRace
     /\ UNCHANGED mounted

KeyUpdate(n, wrong) ==
  [op |-> "key", len |-> n, first |-> ~shown.active,
   err |-> IF n > shown.len /\ wrong THEN 1 ELSE 0,
   stats |-> [len |-> n, errs |-> shown.errs, at |-> shown.dur - shown.tl],
   full |-> n >= shown.text]

ChangeUnguarded(n, wrong) ==
  /\ wrong => shown.errs < MaxErrors
  /\ Discrete(<<KeyUpdate(n, wrong)>>,
              IF n >= shown.text THEN <<Submission(shown, "text")>> ELSE <<>>, <<>>)

\* handleChange: the input now holds n characters, the last one right or wrong.
Change(n, wrong) ==
  /\ ~shown.fin
  /\ wrong => shown.errs < MaxErrors
  /\ Discrete(<<KeyUpdate(n, wrong)>>,
              IF n >= shown.text THEN <<Submission(shown, "text")>> ELSE <<>>, <<>>)

\* handleKeyDown: Escape ends an active game.
Escape ==
  /\ shown.active
  /\ Discrete(<<FinishUpdate>>, <<Submission(shown, "escape")>>, <<>>)

MoreGames == shown.game + Queued("start") < MaxGames

\* Tab, or the restart button of the results: startGame in the handler.
Restart ==
  /\ MoreGames
  /\ Discrete(<<StartUpdate(shown.dur)>>, <<>>, <<>>)

\* A duration or difficulty button, on screen before a game: the changed
\* startGame is called by its effect, so the new game waits for a render.
Choose(d) ==
  /\ ~shown.active /\ ~shown.fin /\ MoreGames
  /\ Discrete(<<[op |-> "choose", dur |-> d]>>, <<>>, <<StartUpdate(d)>>)

\* The view changes: a pending effect still runs, the cleanup stops the timer.
Leave ==
  /\ mounted
  /\ mounted' = FALSE
  /\ submitted' = submitted \o (IF effect = NoEffect THEN <<>> ELSE ExpiryResult(effect))
  /\ effect' = NoEffect /\ queue' = <<>> /\ interval' = FALSE
  /\ MarkRace
  /\ UNCHANGED shown

\* The arena is shown again, with the default duration.
Open ==
  /\ ~mounted
  /\ shown.game + 2 <= MaxGames
  /\ mounted' = TRUE
  /\ \E d \in Durations :
       /\ shown' = Mounted(shown.game + 1, d)
       /\ queue' = <<StartUpdate(d)>>
  /\ UNCHANGED <<effect, interval, submitted, raced>>

Next ==
  \/ Tick \/ Render \/ RunEffect
  \/ \E n \in 0..(TextLen + 1), wrong \in BOOLEAN : Change(n, wrong)
  \/ Escape \/ Restart \/ Leave \/ Open
  \/ \E d \in Durations : Choose(d)

Spec == Init /\ [][Next]_vars

\* The browser's event loop runs timers and React's tasks; the player owes nothing.
FairSpec == Spec /\ WF_vars(Tick) /\ WF_vars(Render) /\ WF_vars(RunEffect)

-----------------------------------------------------------------------------
(* Properties.                                                             *)

\* Types; the clock stays between 0 and the game's length if a render is over
\* before the next callback, and is at most twice Lag - 1 below 0 otherwise.
TypeOK ==
  /\ mounted \in BOOLEAN /\ interval \in BOOLEAN
  /\ shown.game \in 0..MaxGames /\ shown.dur \in Durations
  /\ shown.text \in {0, TextLen} /\ shown.len \in 0..(TextLen + 1)
  /\ shown.active \in BOOLEAN /\ shown.fin \in BOOLEAN /\ ~(shown.active /\ shown.fin)
  /\ shown.tl >= -2 * (Lag - 1) /\ \E d \in Durations : shown.tl <= d
  /\ \A i \in DOMAIN submitted : submitted[i].game \in 0..MaxGames
  /\ raced \subseteq 0..(MaxGames + 1)

Results(g) == {i \in DOMAIN submitted : submitted[i].game = g}

\* A game on screen has one result once it is over and none before: ending by
\* the clock, by Escape and by the text do not overlap, and a game that was
\* restarted or left is not submitted.  The exception is a key or a click in
\* the moment between an expiry, or a start, and its render.
OneResult ==
  (mounted /\ shown.game \notin raced) =>
    Cardinality(Results(shown.game)) =
      IF shown.fin \/ FinishUpdate \in ToSet(queue) THEN 1 ELSE 0

\* Even in that moment the harm is bounded: a game has two results at most,
\* one of them by the clock, and only when a key or a click came before the
\* render of its end.
AtMostTwo ==
  \A g \in 0..MaxGames :
    /\ Cardinality(Results(g)) <= (IF g \in raced THEN 2 ELSE 1)
    /\ Cardinality(Results(g)) = 2 => \E i \in Results(g) : submitted[i].by = "timer"

\* What was submitted for a game that Escape or the clock ended is what the
\* results window shows, for as long as it shows it.
SubmittedIsShown ==
  (mounted /\ shown.fin /\ shown.game \notin raced) =>
    \A i \in DOMAIN submitted :
      (submitted[i].game = shown.game /\ submitted[i].by # "text") =>
        submitted[i].stats = shown.stats /\ submitted[i].errs = shown.errs

\* When React is idle the interval runs exactly while a game with time left
\* is on screen: no game without its clock, no clock left behind.
ClockRunsWithGame ==
  (queue = <<>> /\ effect = NoEffect) =>
    (interval <=> mounted /\ shown.active /\ shown.tl > 0)

\* Whatever is typed, a game comes to an end.
GameEnds == (mounted /\ shown.active) ~> ~(mounted /\ shown.active)

\* The submitted numbers are the game's final ones: models/events.go:40 calls
\* a MatchResult "the final stats of a completed game".  finishGame, called
\* by handleChange on the last character, reads the render before it.
FinalStats ==
  (mounted /\ shown.fin /\ shown.game \notin raced) =>
    \A i \in DOMAIN submitted :
      submitted[i].game = shown.game => submitted[i].stats = shown.stats

=============================================================================
