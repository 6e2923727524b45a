# TypeMaster in TLA+

A verification project for TypeMaster, a typing game with a Go backend
(`src/backend`) and a React frontend (`src/frontend`). Modules, TLC
configurations and proofs stand beside this file; `PROJECT.json` maps every
definition to the lines it models.

    tlc -workers 2 -config MCHub_safety.cfg MCHub     # any run of the table below
    tlapm RecordsProofs.tla                           # the proofs, module by module:
                                                      # HubProofs, KeepaliveProofs, RecordsProofs,
                                                      # HistoryProofs, ArenaProofs, PlayProofs,
                                                      # and what they share, Induction and FoldLaws

## 1. The system

A browser plays in its own page (`TypingArena.tsx`) and talks to one backend
process over a websocket. Every message it sends (`join_lobby`,
`typing_update`, `game_end`, ...) is first handled (`HandleEvent`: Postgres and
Redis are written) and then broadcast to every connection, its sender
included. A profile page reads the player's matches back over HTTP.

| Component | State | Operations | Talks to |
|---|---|---|---|
| Hub (`hub.go`) | set of clients; channels `register`, `unregister`, `broadcast` | select loop, fan-out, eviction, goroutine that forwards Redis messages | connections through their `send` channels |
| Connection (`client.go`) | websocket, `send` (256), two goroutines | `ServeWs`, `readPump`, `writePump` | hub, handlers, peer |
| Handlers and repositories (`websocket_handlers.go`, `match_repo.go`, `user_repo.go`, `redis_cache.go`) | tables `users`, `matches`; sorted set `leaderboard:global` | `CreateGuest`, `CreateMatch`, `GetUser`, `UpdateLeaderboard` | Postgres, Redis |
| Typing game (`TypingArena.tsx`) | React state, interval, refs | `startGame`, timer effect, `handleChange`, `handleKeyDown`, `finishGame` | App (`onComplete`, `onProgress`) |
| Profile (`ProfilePage.tsx`, `gamification.ts`, `handleGetHistory`) | history, loading, requests in flight | `fetchHistory`, averages, level, achievements | Postgres through HTTP |
| App and hook (`App.tsx`, `useWebSocket.ts`, `auth.ts`, `FooterStatus.tsx`) | socket, connected, health, view; profile in localStorage | connect, join effect, `handleGameComplete`, `sendMessage`, `getOrCreateProfile` | websocket, `/health`, pages |
| Keepalive (`client.go`) | read deadline, ping ticker, write deadline | ping, pong handler | peer, stores (they hold up `readPump`) |
| Rest: words, landing page, routes, startup, migrations, deployment, test client | | | |

What is hard here, and what must be right:

* **Hub and connections.** Three kinds of goroutines, unbuffered channels, two
  places that close a channel. No panic, nobody waits for ever, a slow peer is
  cut off without harm to others, events arrive in order without gaps,
  connections are torn down completely.
* **Handlers.** Three calls to two stores without a transaction, several
  handlers at once, failed calls that may have taken effect, a process that
  exits without waiting for them. Redis must not show what Postgres does not
  have; a match is saved once.
* **Typing game.** Handlers and effects run with the state of an older render;
  clock, keys and buttons end or restart a game in the same moment. One result
  per finished game, the right numbers, a clock exactly while a game runs.
* **Profile.** Overlapping requests, answers out of order, a page closed
  meanwhile. What is shown is one moment's history; achievements unlock on time.
* **App and hook.** Messages sent while the socket is not open are lost, and so
  is what is on its way when a connection ends; a page never connects again;
  the join is an effect and must come before the game's end; StrictMode mounts
  twice. What the page shows must be true, and nothing may be lost unnoticed.
* **Keepalive.** Three periods, and pumps that are both late at times, by writes
  and handlers that block: a peer that answers must not be dropped before the
  margin between the periods is used up, and one that is gone must be noticed.

`PROJECT.json` lists each hazard at its line with the properties that cover it.

## 2. The modules

| Module | Content |
|---|---|
| `Feed` | abstract: numbered events, each connection is shown a gap-free run of them until it is cut off |
| `Hub` | the hub and the goroutines of every connection, one action per step between two channel or connection operations; implements `Feed` |
| `Records` | the handlers of several connections over one Postgres and one Redis, a step per call; failures and restarts |
| `TypingArena` | the typing game under React's render and effect queues |
| `History` | the profile page, its requests and the query behind them; levels and achievements |
| `Ledger` | abstract: a game is entered once or given up, scores are entries, a game is heard of when it is decided; `Records` implements it |
| `Session` | one browser: page, socket, profile, footer |
| `Play` | the composition of `Session` and `Records` over connections that break |
| `Keepalive` | the timing of one connection on a clock of seconds |
| `Rhythm` | the key intervals of a game and the consistency computed and sent |
| `HubProofs`, `KeepaliveProofs`, `RecordsProofs`, `HistoryProofs`, `ArenaProofs`, `PlayProofs` | theorems about `Hub`, `Keepalive`, `Records`, `History`, `TypingArena` and `Play` with their proofs |
| `Induction` | lemmas for these: least and greatest elements, induction over numbers and sequences |
| `FoldLaws` | lemmas for these: the laws of `FoldLeft` for any operator |
| `MCHub`, `MCRecords`, `MCTypingArena`, `MCHistory`, `MCPlay`, `MCKeepalive`, `MCRhythm` | constants and symmetry for TLC |

The modules meet at named actions. `Records` is what happens inside
`Hub!HandleEvent`, between `ReadMessage` and `HubBroadcast`; its `Announce` is
that broadcast. `Play` joins the page's `SendMessage` to `Records!Receive`.
`TypingArena`'s `submitted` are `Session`'s finished games, and
`History!SaveMatch` is `Records!CreateMatch`; these two pairs are checked
separately, and so is `Hub`. `Keepalive` says when the `ReadError` and
`WriteError` that `Hub` allows at any time may come to a peer that is alive.
No property of one module needs more of another than the assumption written at
the place (`HandleEvent` returns; the hub serves).

**Hub.** A rendezvous on an unbuffered channel is one action of both sides
(`HubRegister`, `HubUnregister`, `HubBroadcast`, `HubBroadcastRedis`). The
fan-out over the map is one `HubDeliver` per connection in any order, and the
hub is not at its select meanwhile (`todo`). A message is the number of its
broadcast. `writePump` is `WriterTake`, `WriterOpen` (reads `len(send)`),
`WriterDrain`, `WriterFlush`, and returns through `WriteError` or
`WriterClosed`. A read may fail in any state of the connection, a write or a
ping too: peers, deadlines and size limits are that nondeterminism. What is
abstracted: payloads, the ping ticker's time, and the close frame.

**Records.** `pc[s]` is where connection `s` stands in its handler. A call is
one action with its normal outcomes (done, or refused by a constraint);
`CallFails` is the failed call, which may or may not have taken effect,
`RankRetried` the `ZADD` that go-redis, at its defaults, sends a second time
because the first reply was lost, and `Restart` ends every handler at once. A
match is refused by its foreign key, or because a number does not fit its
column (an accuracy below -999.99, for one); the numbers themselves are left
out, so that `CreateMatch` chooses. A command that reaches a store only after
its caller has given it up is not modelled. The user name of a join may be any name:
names are drawn at random by browsers and may coincide, or be missing.
`LedgerView` reads a `Ledger` out of this state: a game is open while its
handler is `"saving"`, the entries are the table `matches`, the scores are the
sorted set by user, and heard is what has been announced. `CreateMatch` maps to
`Enter`, its refusals and failures to `Abandon`, `UpdateLeaderboard` to
`Score`, and every other call to a stutter.

**Session and Play.** `shown` is App's last render, `queue` the state updates
set since, `due` a render whose join effect has not run. Callbacks of a socket
queue an update; `Render` and `JoinEffect` are later tasks. After a click React
renders at once; the model lets events come in before, which adds behaviours
and removes none. Every render reads the profile (`GetOrCreateProfile`), which
`ClearProfile` may remove at any time, so that the page goes on under a new
identity; names may coincide, and which unused uuid is drawn makes no
difference. `up` holds the messages on their way, `down` the connections that
have ended at the server or on the way: what is sent on one of these is lost.
`Play` adds the server's end: `dropped` keeps why a match was given up ("no
join", "no row", "numbers" or "failed"; `RefusalsExplained` speaks of the first
two, the refusals of the foreign key), `Establish` is the upgrade, `ReadOversize` the
read limit, `Break` a lost network or an eviction, `Restart` the process. Of
`/health` only the good answer matters, since the others leave the footer as it
was. The `typing_update`s of `handleProgress` are left out: no store and no page keeps
anything of them.

`Records` chooses the user of a connection and the guest name of a user by two
constants; `Play`, whose messages bring both, passes any (`ServerIsRecords`
proves that the assumption of `Records` holds of what it passes).

**Keepalive.** Deadline, ticker and delays are seconds that `Tick` counts, and
`Tick` waits for whatever must happen first. Both pumps may be late by any
time. `writePump` writes one thing at a time: a write to a slow peer blocks
until it is `Written` or fails after `writeWait`, messages may follow one
another without end, and a tick waits meanwhile in the ticker's channel, which
holds one. `readPump` is away for up to `Handling` in `HandleEvent`, as often as
messages are there, and a pong arrives within `RoundTrip`. A read that begins
after the deadline fails even if the pong has arrived, except that a pong which
came in one piece with the message before it is read from the buffer. Nothing
is assumed but `0 < pingPeriod < pongWait`.

A live peer can be dropped in this model, and is in the code: a database call
under `context.Background()` has no limit, and a write may block for ten
seconds where the periods leave six. What `ResponsiveKept` promises is when: only
after a write that blocked for the whole `writeWait`, or when the pong of one
ping is unread (`overdue`) for `pongWait - pingPeriod`. The second is what
happens when a write takes more than six of its ten seconds around a tick: it
does not fail, but its ping goes out too late. Code that did not renew the
deadline, or renewed it by less, would drop an idle peer sooner; delays before
the ping in question, however many, do not add up.

**Rhythm.** Pauses are tenths of a second; the rounded coefficient of variation
is computed from sums of squares without a root.

**TypingArena.** `shown` is the last render, `queue` the state updates set
since, `effect` a render whose timer effect has not run. Handlers compute
updates and results from `shown`, as closures do. After a key or a click React
renders and runs effects at once (`Discrete`); after a timer or an effect the
render and its effects are tasks of their own (`Render`, `RunEffect`), and keys
may come between. This is React 19's behaviour as the code uses it, not code of
the repository. `raced` marks the games touched in the moment between the end
(or start) of a game and its render; two properties exempt them, see
section 6. `AtMostTwo` bounds what can go wrong in these. `Lag = 1` says that a render
takes less than a second.

**History.** `requests` holds every unanswered or undelivered request, with
the number of rows at the moment it was made and answered; they are delivered
in any order. `HandleGetHistoryCut` is the query that breaks off, whose rows so
far are taken for all, since `rows.Err` is not asked.

## 3. The runs

| Run | Question | Answer |
|---|---|---|
| `hub_safety` | types and memory bounds, `NoPanic`, `OpenIffMember`, `DrainNeverBlocks`, `InOrderNoGaps`, refinement `ImplementsFeed` | hold, 1.3 million states |
| `hub_live` | `TornDown`, `Delivered`, `HubServesAll`, and no deadlock | hold, 23 thousand states |
| `hub_frames` | does each frame carry one event? | **no** |
| `records` | `LeaderboardBacked`, `SavedOnceInOrder`, `LeaderboardCurrent`, `RowsKept`, refinement `ImplementsLedger` | hold, 2.6 million states up to symmetry |
| `records_guest` | does a handled join leave a registered guest? | **no** |
| `typing_arena` | `OneResult`, `AtMostTwo`, `SubmittedIsShown`, `ClockRunsWithGame`, `GameEnds` | hold, 450 thousand states |
| `typing_final_stats` | are the submitted numbers the final ones? | **no** |
| `history` | `ShownIsOneMoment`, `GoalsUnlocked`, `LevelExact`, `SpeedsReached`, `UnlocksKept`, `LoadingEnds` | hold, 310 thousand states |
| `history_veteran` | can every achievement be unlocked? | **no** |
| `play` | `ConnectedIsOpen`, `RefusalsExplained`, `SavedWasPlayed`, `NotLostInSilence` | hold, 1 million states |
| `keepalive` | `ResponsiveKept`, `DeadNoticed`, `DeadTornDown` | hold, 420 thousand states |
| `rhythm_sent` | is the consistency that is sent the one computed? | **no** |

The passing runs, but for `hub_live`, check a `TypeOK` as well. The five
negative answers:

1. `hub_frames`: a connection with two events in its buffer gets both in one
   text frame (`client.go:92-95`), which `useWebSocket.ts:37` cannot parse.
2. `records_guest`: a name another guest already has breaks `UNIQUE(username)`;
   the error is logged, the guest has no row and its matches are refused.
3. `typing_final_stats`: `finishGame`, called by `handleChange` on the last
   character, submits the numbers of the render before it.
4. `history_veteran`: the page counts the rows of a query limited to 50, so
   "Complete 100 matches" stays locked.
5. `rhythm_sent`: `stats.consistency || 100` (`App.tsx:43`) sends 100 for a
   consistency of 0, the worst there is, which the results window shows as 0%.

What else the runs showed, where no comment or test says what should be:

* The `close` of the socket that StrictMode's first mount abandons can come
  after the `open` of the second. The page then shows no connection for as long
  as it lives, and its join effect may never run. `ConnectedIsOpen` exempts
  development builds; without the exemption it is violated.
* A game that ends while the page still connects is dropped, and the footer
  turns green afterwards. `NotLostInSilence` promises no more than that
  the footer showed a degraded system at some moment after the game ended.
* Between the `open` of a first socket and the join effect a game's end is
  refused (`joined` in `RefusalsExplained`); it would have to be over in the
  time of one render.
* A peer that takes every message within `writeWait` can be dropped all the same:
  the time allowed for one write (10 s) is more than the periods leave for
  the ping behind it (6 s).
* An answer of the profile page that is late replaces a newer one, since `REFRESH`
  is never disabled. `ShownIsOneMoment` is relative to the request answered, and
  `UnlocksKept` exempts answers out of order.
* A key between a clock at zero and its render submits a second result.
  `OneResult` exempts these games (`raced`); `AtMostTwo` says that it stays at two.
* The first key of a game measures from itself: each game has one interval of 0
  too many, and an even rhythm of n keys is rated 100 - 100/sqrt(n - 1).

**Bounds.** *Hub:* two connections suffice for one that is slow beside one that
is served, and for both ways of closing to meet; buffers of 2 with 5
broadcasts fill, evict, wrap around a taken message and drain two behind it;
`hub_live` has buffers of 1 and 2 broadcasts, where every eviction still
happens. *Records:* three connections of two players, so that two tabs of one
player and two players with one name meet; four messages are a join and a match
each, or a join and three matches; one fault, at every step; the two tabs are
interchangeable (`Tabs`). *TypingArena:*
games of one and two seconds, texts of three characters typed forwards,
backwards or pasted (one more character than the text has), two wrong keys,
two games or visits. *History:* a limit of two rows with up to four matches,
goals on both sides of the limit, averages that end in a half; two
overlapping requests. `history_veteran` has the code's own limit and goals.
*Play:* two sockets are one reload or one mount of StrictMode; two profiles
with one name, so that a second one meets the first one's; one game, since a
game is lost or saved independently of others (their order is `Records`'
matter); one fault, at every step; eight messages are more than the page can
send. *Keepalive:* a clock scaled down to 12, 10 and 3
seconds, so that as with the code's 60, 54 and 10 a write may block for
longer than the margin; pongs take a second and a handler up to four, and
handlers that follow one another outlast the deadline; the proofs cover all
other numbers. *Rhythm:* pauses of 0.1, 0.2 and 2 seconds and up
to five keys, enough for a consistency of 0. Bounds
in guards are `MaxBroadcasts`, `MaxMessages`, `MaxFaults`, `MaxErrors`,
`MaxGames`, `MaxMatches`, `MaxFetches`, `MaxSockets`, `MaxKeys` and, for the
count of `dead`, `NoticeBound`; `Quiescent` lets `Hub` and `Records`
stop only when all is over, so that deadlock is checked. `TypingArena` and
`History`, `Play` and `Rhythm` may stop, since a player owes nothing, and so may
a `Keepalive` that is torn down.

**Fairness.** *Hub:* goroutines that can run do (weak fairness of the pumps
and of each delivery); a waiting sender on a channel of the select is served
eventually (strong fairness), because Go picks at random among ready cases and
queues senders. A write on an open connection may succeed for ever; on a closed
one it fails. The peer owes nothing. *TypingArena:* timers and React's tasks
run; no key is ever owed. *History:* a fetch settles. *Play:* the browser runs
its tasks, a lost connection closes its socket, `readPump` reads and the stores
answer; the player, the network and `/health` owe nothing. *Keepalive:* time
passes (strong fairness of `Tick`, since writes that begin one after another
may keep it from being enabled at each moment), the network delivers, the pumps run. `Records` and `Rhythm` need none.

## 4. What is proved

`HubProofs` proves for every set of connections, every buffer capacity
`SendCap >= 1` and every `MaxBroadcasts` (assumption `HubAssumption`):

* `TypeCorrect`, `PanicFree`, `MembersOpen`, `DrainReady`, from the invariant
  `ChanInv`. None of them is inductive alone. `NoPanic` needs that a member's
  channel is open (`OpenIffMember`) and that the fan-out only visits members
  (`todo` within `clients`), which holds because the hub neither registers nor
  unregisters during a fan-out; `DrainNeverBlocks` needs that only the
  writer takes from the buffer, with the bounds on frame and buffer.
  `ChanInit` and `ChanStep` are the induction, a step per action.
* `OrderKept`, from `OrderInv`: `ChanInv` and, for each connection, that wire,
  open frame and buffer continue one numbering and where it ends. Its lemmas
  (`FollowsPush`, `FollowsPop`, `FollowsConcat`, `Positions`) say how appending, taking and
  concatenating keep a run of consecutive numbers.
* `HubRefinesFeed`: `Spec => FeedView!Spec`. Initial states map to initial
  states, and every step to `Join`, `Publish`, `Show`, `Cut` or a stutter;
  `Show` needs `OrderInv`, which says that the flushed frame holds exactly the
  next events.

`KeepaliveProofs` proves for all periods with `0 < pingPeriod < pongWait`
(`KeepaliveAssumption`), and for writes, round trips and handlers of any length:

* `KeepaliveTypes`, `PeersKept` and `DeadPeersNoticed`, from the invariant
  `KeepInv`. `ResponsiveKept` is not inductive: it speaks of the moment of the
  drop, and needs to know of every moment before it how far away the deadline
  is (`InTime`). While no pong is owed, the deadline lies the whole margin
  beyond the next tick; while one is, deadline and `overdue` together are at
  least the margin, so that a deadline at 0 means that the margin is used up.
  A pong read at any time, even the last one, restores the first.
  Once the connection is closed, its reason stays on record (`Recorded`).
  `DeadNoticed` needs what is left of the last pong's time (`LastPong`).

`RecordsProofs` proves for any players, connections, names, scores, messages
and faults (`RecordsAssumption`: each connection has a player, each player a
guest name):

* `RecordsTypes`, from `TypeInv`, which adds to the types what a handler works
  on at each place (`JobOK`). `Effects` says once what any step, a failed call
  included, can do to the stores: insert, save, rank or nothing; `KeepsRows`
  follows.
* `BoardIsBacked`, from `Backing`: a saved match has a registered
  user, a handler past the save has its match, and the name it ranks under is
  the user's. The last part is what makes the stale read of `GetUser` harmless,
  and it holds because no row changes (`RowsKept`). That no player is listed twice,
  although the key of an entry contains the name, is a consequence.
* `InOrder`, from `Ordering`: what is saved has arrived, handlers work on
  different messages, and the message of a connection that is still to be saved
  is newer than all that the connection has saved.
* `BoardIsCurrent`, from `Currency`: a handler that is about to rank has its
  connection's latest match, and a player whose handlers are all past their
  ranking, none of them cut short, has the latest match of one connection on the
  board. `Tearing` says how a step marks a player as torn, or mends it.
* `StoresAreALedger`: `Spec => LedgerView!Spec`, from `Ledgered` (`Backing` and
  `Ordering`); one lemma for each kind of step of the ledger.

`HistoryProofs` proves for any limit, levels, goals, matches and requests
(`HistoryAssumption`):

* `HistoryTypes`, which needs that an open page has been opened.
* `OneMoment` and `GoalsOnTime`, from `Moments`: a whole answer holds the newest
  rows of a moment between its request and now, wherever it is under way, and
  so does the history it has become. The assumption `null \notin Seq(Scores)`
  says that JSON's `null` is no list of rows, so that `Decode` undoes `Encode`.
* `GoalsKept`, the action property `UnlocksKept`, from the same invariant.
* `LevelIsExact` and `SpeedsOnTime`, by arithmetic: the sum of n scores lies
  between n times the least and n times the greatest, the rounded quotient
  reaches a level exactly when it should (`Quotient`, `AverageReaches`), and the
  search through the ladder finds the highest level (`LevelFound`).

`ArenaProofs` proves for any text, durations, number of games and any `Lag`
(`ArenaAssumption`):

* `ClockRuns`, from `Machine`: with ticks in the queue there may be one end of
  the game on screen behind them, or there is one start alone; a pending effect
  is that of the last render; without one the interval runs exactly when the
  render says so.
* `OneResultEach`, `TwoAtMost` and `ShownIsSubmitted`, from `Outcomes`: which
  results the game on screen has, and whether its end is queued. They hold however
  late the browser is.
* `ArenaTypes`, with `Bounds`: how far below 0 the clock may go depends on
  `Lag`, by two seconds for each second that a render may be late.

`PlayProofs` proves for any users, names, sockets, games, messages and faults
(`SessionAssumption`, `PlayAssumption`: there is somebody to play, and the mark
of a missing name is none that is drawn):

* `ShowsItsConnection`, from `PageInv`: only the page's own socket lives, and
  what the queued updates make of `isConnected` agrees with it (`ConnOK`).
  `ConnectedIsOpen` speaks of an empty queue and is not inductive: between the
  socket's event and the render the two differ.
* `PlayTypes`, from `PageInv`, `ServerInv` and `Sent`: a result on the way, and
  one that is handled, is that of a game played, by its player.
* `RefusalsHaveReasons`, from two more invariants. `Naming`: there is one name
  for every profile, wherever it is met (in the storage, on screen, in a game,
  on the way, in a handler), and whoever has joined has a row or finds the name
  taken. It holds although the profile may be cleared and drawn anew at any time,
  since an id is drawn once. `Joining`: before the first fault, a page that
  has run its join effect has a join ahead of whatever it sends, at the server or
  on the way, and so has every result of such a page. It needs the order
  of messages on a connection, and that the join effect runs again whenever the
  connection or the user changes.
* `StoredOnce`, from `Once`: a game that is still to be saved has no row yet and
  is in one place only, either at one position of one connection or in the hands
  of one handler. The step that stores it takes it out of those hands, also when
  the reply is lost. `SavedWasPlayed` alone says nothing of the games on the way,
  and is not inductive.

**Folds and induction.** The queue of a component is rendered by `FoldLeft`, a
recursive function over the positions of a sequence. `FoldLaws` proves that it
exists and is unique, for every operator, and hence its equations for the
empty sequence and for `Append`; a module that folds takes them with
`INSTANCE FoldLaws WITH Op <- ...`. Induction over numbers and sequences is stated of
sets (`NumberInduction`, `SequenceInduction` in `Induction`) and follows from the
least counterexample.

**Model-checked only.** The liveness properties `TornDown`, `Delivered`,
`HubServesAll`, `GameEnds`, `LoadingEnds`, `NotLostInSilence` and `DeadTornDown`:
fairness and `ENABLED` are out of the prover's reach. The absence of deadlock
in `Hub` and `Records`. `Rhythm`, whose one question has a negative answer. All
other properties of the passing runs are theorems; TLC checked their inductive
invariants on small instances first, those of `TypingArena` for `Lag` up to 3,
those of `Play` with two names and four messages.

## 5. The plan

In the order of importance; all of it is done but the last item.

1. `Feed`, `Hub`, and their runs; `HubProofs`.
2. `Records`, with failures and restarts.
3. `TypingArena`.
4. `History`.
5. `Session` and its composition with `Records` in `Play`.
6. `Keepalive` and `KeepaliveProofs`.
7. `Ledger` and the refinement of `Records`.
8. `Rhythm`.
9. `RecordsProofs`, with the refinement of `Ledger`.
10. `HistoryProofs` and `ArenaProofs`.
11. `PlayProofs`.
12. Still open: what the rows of `PROJECT.json` without a property name, and the
    page between `Session` and `TypingArena`: that what `submitted` holds is what
    `HandleGameComplete` sends is said in section 2 and not proved.

## 6. What is not modelled

* Which keys were wrong and the advice drawn from them, the average of the
  accuracy: shown, and nothing depends on them.
* A command that reaches Postgres or Redis after its caller gave it up: calls
  have no timeout of their own, and what the client sends on a broken connection is
  lost or done by the time the error is known, in this model.
* Which numbers overflow their columns: `CreateMatch` may refuse any match for it.
* The moment between a game's end and its render: a key pressed there finishes
  the game twice, Tab leaves the results window on the new game. The model has these
  steps (`raced`); nothing in the repository says what should happen.
* `rows.Err`: a history that breaks off cannot be told from a shorter one, and
  `ShownIsOneMoment` exempts it.
* `typing_update` and `chat_message` beyond their way through the hub:
  their handlers only log.
* `PublishToRedis`, `GetTopPlayers`, `CacheMatchHistory`, `GetCachedMatchHistory`:
  no callers. Redis messages arrive in `Hub` all the same.
* Layout, routes, CORS, the sequential I/O of startup, migrations, word lists,
  deployment and the load script.
