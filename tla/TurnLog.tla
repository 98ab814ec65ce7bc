------------------------------- MODULE TurnLog -------------------------------
(***************************************************************************)
(* What the durable-work core promises about a conversation, without jobs, *)
(* attempts, leases, effects or epochs: turns join a queue, only the head  *)
(* of the queue is ever answered, and never while a turn of the same       *)
(* conversation is held for review; a turn leaves the queue once.          *)
(* DurableTurns.tla maps the tables of DurableWork to these variables.     *)
(***************************************************************************)
EXTENDS Sequences, SequencesExt

CONSTANTS Turns, Chats

VARIABLES
    queue,   \* the open turns of each conversation, oldest first
    held,    \* the turns of each conversation that await review
    replies, \* the answered turns of each conversation since its last reset
    gone     \* the turns that ended, answered or not

logVars == <<queue, held, replies, gone>>

Known(t) == t \in gone \/ \E c \in Chats : t \in held[c] \/ t \in Range(queue[c])

Init ==
    /\ queue = [c \in Chats |-> <<>>]
    /\ held = [c \in Chats |-> {}]
    /\ replies = [c \in Chats |-> <<>>]
    /\ gone = {}

\* A turn is accepted: it joins the queue of its conversation for good.
Submit(c, t) ==
    /\ ~Known(t)
    /\ queue' = [queue EXCEPT ![c] = Append(@, t)]
    /\ UNCHANGED <<held, replies, gone>>

\* The head of the queue is answered.
Answer(c) ==
    /\ queue[c] # <<>> /\ held[c] = {}
    /\ queue' = [queue EXCEPT ![c] = Tail(@)]
    /\ replies' = [replies EXCEPT ![c] = Append(@, Head(queue[c]))]
    /\ gone' = gone \cup {Head(queue[c])}
    /\ UNCHANGED held

\* The turn at a place of the queue is cancelled, expires or fails.
Drop(c, i) ==
    /\ queue' = [queue EXCEPT ![c] = RemoveAt(@, i)]
    /\ gone' = gone \cup {queue[c][i]}
    /\ UNCHANGED <<held, replies>>

\* It may have acted outside, and waits for somebody to look at it.
Hold(c, i) ==
    /\ queue' = [queue EXCEPT ![c] = RemoveAt(@, i)]
    /\ held' = [held EXCEPT ![c] = @ \cup {queue[c][i]}]
    /\ UNCHANGED <<replies, gone>>

Review(c, t) ==
    /\ t \in held[c]
    /\ held' = [held EXCEPT ![c] = @ \ {t}]
    /\ gone' = gone \cup {t}
    /\ UNCHANGED <<queue, replies>>

\* A reset empties the queue and the visible replies, but no hold.
Clear(c, acted) ==
    /\ acted \subseteq Range(queue[c])
    /\ queue' = [queue EXCEPT ![c] = <<>>]
    /\ replies' = [replies EXCEPT ![c] = <<>>]
    /\ held' = [held EXCEPT ![c] = @ \cup acted]
    /\ gone' = gone \cup (Range(queue[c]) \ acted)

\* A restore holds every open turn there is.
HoldAll ==
    /\ queue' = [c \in Chats |-> <<>>]
    /\ held' = [c \in Chats |-> held[c] \cup Range(queue[c])]
    /\ UNCHANGED <<replies, gone>>

Next ==
    \/ \E c \in Chats, t \in Turns : Submit(c, t) \/ Review(c, t)
    \/ \E c \in Chats : Answer(c) \/ \E i \in DOMAIN queue[c] : Drop(c, i) \/ Hold(c, i)
    \/ \E c \in Chats : \E acted \in SUBSET Range(queue[c]) : Clear(c, acted)
    \/ HoldAll

Spec == Init /\ [][Next]_logVars
=============================================================================
