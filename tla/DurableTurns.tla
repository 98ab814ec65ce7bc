---------------------------- MODULE DurableTurns ----------------------------
(***************************************************************************)
(* The tables of DurableWork read as the queues and logs of TurnLog.       *)
(***************************************************************************)
EXTENDS DurableWork, Sequences

\* The members of a set in the order of their numbers.
Listing(S, number) ==
    CHOOSE s \in [1 .. Cardinality(S) -> S] :
        \A i, k \in DOMAIN s : i < k => number[s[i]] < number[s[k]]

\* Unsettled jobs of a conversation in the order of job_order.
Orders == [j \in JobIds |-> jobs[j].order]
OpenTurns(c) == Listing(UnfinishedJobs(c), Orders)

\* The replies of the current generation in the order of sequence.
ReplyRows(c) == {m \in messages : /\ m.role = "assistant" /\ m.conversation = c
                                  /\ m.generation = conversations[c].generation}
Places == [m \in messages |-> m.sequence]
RepliesOf(c) ==
    LET rows == Listing(ReplyRows(c), Places)
    IN  [i \in 1 .. Len(rows) |-> rows[i].origin]

\* What the tables say of the turns, by conversation: those that are open, those in
\* review, the answers, and the turns that ended.
Queues == [c \in Conversations |-> OpenTurns(c)]
Reviews == [c \in Conversations |->
               {j \in JobsOf(jobs, c) : jobs[j].state = "needs_reconciliation"}]
Replies == [c \in Conversations |-> RepliesOf(c)]
Ended == {j \in JobIds : jobs[j].state \in Final}

Log == INSTANCE TurnLog WITH
    Turns <- JobIds, Chats <- Conversations,
    queue <- Queues, held <- Reviews, replies <- Replies, gone <- Ended

\* Every behaviour of the durable-work core is one of TurnLog: whatever is
\* retried, expired, cancelled, swept or restored in between, replies come one
\* by one from the head of the queue, none while a turn is held, and a turn
\* that left the queue never comes back.
TurnsAreSerial == Log!Spec
=============================================================================
