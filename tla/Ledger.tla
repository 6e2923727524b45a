------------------------------- MODULE Ledger -------------------------------
(***************************************************************************)
(* What the backend promises about finished games, without its stores,     *)
(* handlers and failures: a ledger to which a game is entered once or not  *)
(* at all, the games of a connection in their order, a score per player    *)
(* that is always one of the entries, and nobody hears of a game before it *)
(* is decided whether it is entered.  Records implements it.               *)
(***************************************************************************)
EXTENDS Naturals, Sequences

VARIABLES
  count,    \* number of messages received
  open,     \* games received and not decided: from (its message), by, user, wpm
  entries,  \* the games entered
  scores,   \* partial function from users to words per minute
  heard     \* messages broadcast

vars == <<count, open, entries, scores, heard>>

Init == count = 0 /\ open = {} /\ entries = <<>> /\ scores = <<>> /\ heard = {}

\* A message other than a game's end.
Receive ==
  /\ count' = count + 1
  /\ UNCHANGED <<open, entries, scores, heard>>

\* A game's end; a connection has one undecided game at a time.
Play ==
  /\ count' = count + 1
  /\ \E g \in open' :
       /\ g.from = count'
       /\ \A h \in open : h.by # g.by
       /\ open' = open \union {g}
  /\ UNCHANGED <<entries, scores, heard>>

Enter ==
  /\ \E g \in open :
       /\ entries' = Append(entries, g)
       /\ open' = open \ {g}
  /\ UNCHANGED <<count, scores, heard>>

Abandon ==
  /\ open' \subseteq open
  /\ UNCHANGED <<count, entries, scores, heard>>

Score ==
  /\ \E i \in DOMAIN entries :
       LET e == entries[i] IN
       scores' = [u \in DOMAIN scores \union {e.user} |->
                    IF u = e.user THEN e.wpm ELSE scores[u]]
  /\ UNCHANGED <<count, open, entries, heard>>

Hear ==
  /\ \E n \in 1..count :
       /\ \A g \in open : g.from # n
       /\ heard' = heard \union {n}
  /\ UNCHANGED <<count, open, entries, scores>>

Next == Receive \/ Play \/ Enter \/ Abandon \/ Score \/ Hear

Spec == Init /\ [][Next]_vars

=============================================================================
