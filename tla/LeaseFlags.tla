----------------------------- MODULE LeaseFlags -----------------------------
(***************************************************************************)
(* The numbers of LeaseClock read as the flags of DurableWork, for a       *)
(* conversation of one job without effects: the abstraction of time that   *)
(* DurableWork makes admits everything the clock can do.                   *)
(***************************************************************************)
EXTENDS LeaseClock, FiniteSets

CONSTANTS TheJob, TheChat, TheOwner, TheKey, NoValue

ASSUME NamesAssumption == NoValue \notin {TheJob, TheChat, TheKey}

Unsettled == Waits \/ Runs

LeaseFlag ==
    IF job.lease_until = Never THEN "none"
    ELSE IF Lapsed THEN "lapsed" ELSE "live"

JobFlags ==
    [conversation |-> IF job.state = "none" THEN NoValue ELSE TheChat,
     key |-> IF job.state = "none" THEN NoValue ELSE TheKey,
     generation |-> IF job.state = "none" THEN 0 ELSE 1,
     order |-> IF job.state = "none" THEN 0 ELSE 1,
     epoch |-> IF job.state = "none" THEN 0 ELSE 1,
     state |-> job.state, attempts |-> job.fence, fence |-> job.fence,
     lease |-> LeaseFlag,
     due |-> job.state = "retry_pending" => job.due_at <= now,
     expired |-> Unsettled /\ Late,
     overtime |-> Runs /\ Overtime,
     cancel |-> job.state = "cancelled"]

\* The submission and, if there is one, the reply.
Thread ==
    {[conversation |-> TheChat, generation |-> 1, sequence |-> 1, role |-> "user",
      origin |-> TheJob] : x \in {y \in {TheJob} : job.state # "none"}}
    \cup
    {[conversation |-> TheChat, generation |-> 1, sequence |-> 2, role |-> "assistant",
      origin |-> TheJob] : x \in {y \in {TheJob} : job.state = "succeeded"}}

ChatFlags ==
    [generation |-> 1, next_message_seq |-> Cardinality(Thread) + 1,
     next_job_order |-> IF job.state = "none" THEN 1 ELSE 2,
     reconciliation_hold |-> FALSE]

\* The tables of DurableWork that have a row here.
Runtime == [epoch |-> 1, enabled |-> TRUE]
Enabling == [u \in {TheOwner} |-> TRUE]
Chats == [c \in {TheChat} |-> ChatFlags]
JobTable == [j \in {TheJob} |-> JobFlags]
Attempts == [j \in {TheJob} |-> outcome]
Wake == IF woken THEN {TheJob} ELSE {}

Flags == INSTANCE DurableWork WITH
    JobIds <- {TheJob}, Owners <- {TheOwner}, Conversations <- {TheChat},
    Null <- NoValue, OwnerOf <- [c \in {TheChat} |-> TheOwner], Keys <- {TheKey},
    Ops <- {}, Origins <- {}, Checks <- {},
    ConversationLimit <- 1, OwnerLimit <- 1, MaxGeneration <- 1, MaxEpoch <- 1,
    runtime <- Runtime, owners <- Enabling, conversations <- Chats, jobs <- JobTable,
    attempts <- Attempts, effects <- [o \in {} |-> {}], messages <- Thread,
    checks <- [x \in {} |-> {}], quarantined <- {}, reviewed <- {}, wake <- Wake

\* Every behaviour of the clock is one of DurableWork: a flag rises when the
\* clock reaches its deadline, a heartbeat changes no flag, and every handler
\* takes the branch that the flags say.
FlagsFollowClock == Flags!Spec
=============================================================================
