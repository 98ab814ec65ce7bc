-------------------------- MODULE DurableWork_proofs --------------------------
(***************************************************************************)
(* Proofs about DurableWork, for every number of jobs, conversations,      *)
(* owners, operations, attempts, resets and restores.                      *)
(***************************************************************************)
EXTENDS DurableTurns, SequenceTheorems, WellFoundedInduction, FiniteSetTheorems, TLAPS

USE ConversationsAssumption, LimitsAssumption

\* A row of the jobs table names a real conversation, and has an order number
\* that the conversation's counter has passed if its generation is current.
RowsOK ==
    \A j \in JobIds : jobs[j].state # "none" =>
        /\ jobs[j].conversation \in Conversations
        /\ jobs[j].generation <= ConversationOf(j).generation
        /\ jobs[j].generation = ConversationOf(j).generation
               => jobs[j].order < ConversationOf(j).next_job_order

\* The unique constraint on (conversation, generation, job_order).
OrdersUnique ==
    \A j, k \in JobIds :
        /\ jobs[j].state # "none" /\ jobs[k].state # "none"
        /\ jobs[j].conversation = jobs[k].conversation
        /\ jobs[j].generation = jobs[k].generation
        /\ jobs[j].order = jobs[k].order
        => j = k

\* No running job has an unsettled turn before it.
TurnsInOrder == \A j \in JobIds : jobs[j].state = "running" => ~EarlierActive(j)

\* Effects belong to jobs, and to none that waits.
EffectsOK ==
    \A o \in Ops : effects[o].state # "none" =>
        effects[o].job \in JobIds /\ jobs[effects[o].job].state \notin Waiting \cup {"none"}

IInv ==
    /\ TypeOK
    /\ RowsOK
    /\ OrdersUnique
    /\ NoStaleWork
    /\ TurnsInOrder
    /\ EffectsOK
    /\ HoldMatchesReviews
    /\ HeldIsIdle

-----------------------------------------------------------------------------
(* Types of the helpers *)

\* How the sets of job states lie in each other.
LEMMA StateSets ==
    /\ Waiting \subseteq Unfinished /\ Unfinished \subseteq ACTIVE
    /\ ACTIVE \subseteq JobStates /\ Final \subseteq JobStates
    /\ ACTIVE \cup Final \subseteq AttemptStates
    /\ "needs_reconciliation" \in ACTIVE \ Unfinished
  BY DEF Waiting, Unfinished, ACTIVE, JobStates, Final, AttemptStates

\* What transition may be asked for.
Targets == Final \cup {"retry_pending", "needs_reconciliation"}

\* Whatever a job was to become, settling makes it a state of a job that does not run.
LEMMA SettledInTargets ==
    ASSUME NEW j, NEW target \in Targets
    PROVE  /\ Settled(j, target) \in Targets
           /\ Settled(j, target) = "retry_pending" => ~HasEffect(j)
           /\ target = "cancelled" => Settled(j, target) \in {"cancelled", "needs_reconciliation"}
  BY DEF Settled, Targets, Final

\* wake_next names jobs.
LEMMA WakeNextType ==
    ASSUME NEW js, NEW cs, NEW c
    PROVE  WakeNext(js, cs, c) \in SUBSET JobIds
  BY DEF WakeNext, TurnsOf, JobsOf

\* A closed attempt is an attempt.
LEMMA CloseAttemptType ==
    ASSUME NEW j \in JobIds, NEW tab \in [1 .. MaxAttempts -> AttemptStates],
           NEW s \in Targets
    PROVE  CloseAttempt(tab, j, s) \in [1 .. MaxAttempts -> AttemptStates]
  BY DEF CloseAttempt, Targets, AttemptStates, ACTIVE, Unfinished, Waiting, Final

\* A conversation with one more message is a conversation.
LEMMA AppendType ==
    ASSUME NEW c \in Conversations, NEW crow \in Conversation,
           NEW role \in Roles, NEW origin \in JobIds \cup Origins,
           messages \in SUBSET Message
    PROVE  /\ AppendTo(crow, c, role, origin).rows \in SUBSET Message
           /\ AppendTo(crow, c, role, origin).conversation \in Conversation
           /\ AppendTo(crow, c, role, origin).conversation.generation = crow.generation
           /\ AppendTo(crow, c, role, origin).conversation.next_job_order
                 = crow.next_job_order
           /\ AppendTo(crow, c, role, origin).conversation.reconciliation_hold
                 = crow.reconciliation_hold
  <1> DEFINE m == [conversation |-> c, generation |-> crow.generation,
                   sequence |-> crow.next_message_seq, role |-> role, origin |-> origin]
             up == [crow EXCEPT !.next_message_seq = @ + 1]
  <1>1. m \in Message
    BY DEF Message, Conversation
  <1>2. /\ up \in Conversation /\ up.generation = crow.generation
        /\ up.next_job_order = crow.next_job_order
        /\ up.reconciliation_hold = crow.reconciliation_hold
    BY DEF Conversation
  <1>3. CASE \E n \in messages : /\ n.conversation = c /\ n.generation = crow.generation
                                 /\ n.role = role /\ n.origin = origin
    BY <1>3 DEF AppendTo
  <1>4. CASE ~\E n \in messages : /\ n.conversation = c /\ n.generation = crow.generation
                                  /\ n.role = role /\ n.origin = origin
    <2>1. AppendTo(crow, c, role, origin)
              = [rows |-> messages \cup {m}, conversation |-> up]
      BY <1>4 DEF AppendTo
    <2> HIDE DEF m, up
    <2>2. /\ AppendTo(crow, c, role, origin).rows = messages \cup {m}
          /\ AppendTo(crow, c, role, origin).conversation = up
      BY <2>1
    <2> QED BY <2>2, <1>1, <1>2
  <1> QED BY <1>3, <1>4

-----------------------------------------------------------------------------
(* The effect of leases.transition *)

\* What one job, its conversation and nothing else look like after it.
SettlesTo(j, s) ==
    /\ jobs' \in [JobIds -> Job]
    /\ conversations' \in [Conversations -> Conversation]
    /\ attempts' \in [JobIds -> [1 .. MaxAttempts -> AttemptStates]]
    /\ wake' \in SUBSET JobIds
    /\ \A k \in JobIds : k # j => jobs'[k] = jobs[k]
    /\ jobs'[j].state = s
    /\ jobs'[j].conversation = jobs[j].conversation
    /\ jobs'[j].generation = jobs[j].generation
    /\ jobs'[j].order = jobs[j].order
    /\ jobs'[j].epoch = jobs[j].epoch
    /\ s \in Unfinished => jobs'[j].cancel = jobs[j].cancel
    /\ \A c \in Conversations :
        /\ conversations'[c].generation = conversations[c].generation
        /\ conversations'[c].next_job_order = conversations[c].next_job_order
        /\ conversations'[c].reconciliation_hold =
              (conversations[c].reconciliation_hold
               \/ (c = jobs[j].conversation /\ s = "needs_reconciliation"))

\* The updates made before transition leave these as they were.
SameRow(j, row, target) ==
    \/ row = jobs[j]
    \/ row = [jobs[j] EXCEPT !.cancel = TRUE] /\ target = "cancelled"

SameConversation(c, crow) ==
    /\ crow \in Conversation
    /\ crow.generation = conversations[c].generation
    /\ crow.next_job_order = conversations[c].next_job_order
    /\ crow.reconciliation_hold = conversations[c].reconciliation_hold

\* What transition does to the job, its attempt and its conversation.
LEMMA TransitionSettles ==
    ASSUME TypeOK, RowsOK, NEW j \in JobIds, jobs[j].state # "none",
           NEW target \in Targets, NEW row, SameRow(j, row, target),
           NEW crow, SameConversation(jobs[j].conversation, crow),
           Transition(j, row, crow, target)
    PROVE  SettlesTo(j, Settled(j, target))
  <1> DEFINE c == jobs[j].conversation
             s == Settled(j, target)
             r == JobAfter(j, row, target)
             h == HoldAfter(crow, s)
  <1>1. jobs[j] \in Job /\ c \in Conversations
    BY DEF TypeOK, RowsOK
  <1>2. s \in Targets /\ (target = "cancelled" => s \notin Unfinished)
    BY SettledInTargets DEF Unfinished, Waiting
  <1>3. s \in JobStates
    BY <1>2 DEF Targets, JobStates, ACTIVE, Unfinished, Waiting, Final
  <1>4. row \in Job /\ row.conversation = c /\ row.generation = jobs[j].generation
        /\ row.order = jobs[j].order /\ row.epoch = jobs[j].epoch
        /\ (s \in Unfinished => row.cancel = jobs[j].cancel)
    BY <1>1, <1>2 DEF SameRow, Job
  <1>5. r \in Job /\ r.state = s /\ r.conversation = row.conversation
        /\ r.generation = row.generation /\ r.order = row.order
        /\ r.epoch = row.epoch /\ r.cancel = row.cancel
    BY <1>3, <1>4 DEF JobAfter, Job
  <1>6. h \in Conversation /\ h.generation = crow.generation
        /\ h.next_job_order = crow.next_job_order
        /\ h.reconciliation_hold = (crow.reconciliation_hold \/ s = "needs_reconciliation")
    BY DEF HoldAfter, SameConversation, Conversation
  <1>7. /\ jobs' = [jobs EXCEPT ![j] = r]
        /\ conversations' = [conversations EXCEPT ![c] = h]
        /\ attempts' = [attempts EXCEPT ![j] = CloseAttempt(@, j, s)]
    BY DEF Transition
  <1>8. jobs' \in [JobIds -> Job] /\ jobs'[j] = r /\ \A k \in JobIds : k # j => jobs'[k] = jobs[k]
    BY <1>5, <1>7 DEF TypeOK
  <1>9. conversations' \in [Conversations -> Conversation] /\ conversations'[c] = h
        /\ \A d \in Conversations : d # c => conversations'[d] = conversations[d]
    BY <1>1, <1>6, <1>7 DEF TypeOK
  <1>10. attempts' \in [JobIds -> [1 .. MaxAttempts -> AttemptStates]]
    <2>1. attempts[j] \in [1 .. MaxAttempts -> AttemptStates]
      BY DEF TypeOK
    <2>2. CloseAttempt(attempts[j], j, s) \in [1 .. MaxAttempts -> AttemptStates]
      BY <2>1, <1>2, CloseAttemptType
    <2> QED BY <2>2, <1>7 DEF TypeOK
  <1>11. wake' \in SUBSET JobIds
    BY WakeNextType DEF Transition
  <1>12. \A d \in Conversations :
            /\ conversations'[d].generation = conversations[d].generation
            /\ conversations'[d].next_job_order = conversations[d].next_job_order
            /\ conversations'[d].reconciliation_hold =
                  (conversations[d].reconciliation_hold
                   \/ (d = c /\ s = "needs_reconciliation"))
    <2>0. SUFFICES ASSUME NEW d \in Conversations
                   PROVE  /\ conversations'[d].generation = conversations[d].generation
                          /\ conversations'[d].next_job_order = conversations[d].next_job_order
                          /\ conversations'[d].reconciliation_hold =
                               (conversations[d].reconciliation_hold
                                \/ (d = c /\ s = "needs_reconciliation"))
      OBVIOUS
    <2>1. CASE d = c
      BY <2>1, <1>6, <1>9 DEF SameConversation
    <2>2. CASE d # c
      <3>1. conversations[d].reconciliation_hold \in BOOLEAN
        BY DEF TypeOK, Conversation
      <3> QED BY <2>2, <3>1, <1>9
    <2> QED BY <2>1, <2>2
  <1> QED
    BY <1>4, <1>5, <1>8, <1>9, <1>10, <1>11, <1>12 DEF SettlesTo

-----------------------------------------------------------------------------
(* Facts of one state *)

\* Turns in order, with unique order numbers and no stale work, are turns one
\* at a time.
LEMMA OneRuns ==
    ASSUME TypeOK, RowsOK, OrdersUnique, NoStaleWork, TurnsInOrder,
           NEW j \in JobIds, NEW k \in JobIds,
           jobs[j].state = "running", jobs[k].state = "running",
           jobs[j].conversation = jobs[k].conversation
    PROVE  j = k
  <1>1. jobs[j].generation = jobs[k].generation
    BY DEF NoStaleWork, ConversationOf, Unfinished
  <1>2. jobs[j] \in Job /\ jobs[k] \in Job
    BY DEF TypeOK
  <1>3. jobs[j].order \in Nat /\ jobs[k].order \in Nat
    BY <1>2 DEF Job
  <1>4. ~(jobs[j].order < jobs[k].order) /\ ~(jobs[k].order < jobs[j].order)
    BY <1>1 DEF TurnsInOrder, EarlierActive, TurnsOf, JobsOf, ACTIVE, Unfinished
  <1>5. jobs[j].order = jobs[k].order
    BY <1>3, <1>4
  <1> QED BY <1>1, <1>5 DEF OrdersUnique

\* Only a job that has run has an effect.
LEMMA IntentMeansRan ==
    ASSUME EffectsOK, NEW j \in JobIds, jobs[j].state \in Waiting
    PROVE  ~HasEffect(j)
  BY DEF EffectsOK, HasEffect

-----------------------------------------------------------------------------
(* A step that settles one unfinished job keeps the invariant *)

OtherTypes ==
    /\ runtime \in [epoch : 1 .. MaxEpoch, enabled : BOOLEAN]
    /\ owners \in [Owners -> BOOLEAN]
    /\ effects \in [Ops -> Effect]
    /\ messages \in SUBSET Message
    /\ checks \in [Checks -> {"absent", "open", "reviewed"}]
    /\ quarantined \in SUBSET JobIds
    /\ reviewed \in SUBSET JobIds

\* Any settling of a job, with or without a reply, keeps the invariant.
LEMMA SettlingKeepsIInv ==
    ASSUME IInv, NEW j \in JobIds, jobs[j].state \in Unfinished,
           NEW s \in Targets, SettlesTo(j, s),
           s = "retry_pending" => ~HasEffect(j),
           s = "needs_reconciliation" => jobs[j].state = "running",
           OtherTypes', runtime' = runtime,
           \A o \in Ops : /\ effects'[o].state # "none" <=> effects[o].state # "none"
                          /\ effects'[o].job = effects[o].job
    PROVE  IInv'
  <1> DEFINE c == jobs[j].conversation
  <1>1. /\ jobs[j].state # "none" /\ jobs[j].state \in ACTIVE /\ s # "none" /\ s # "running"
        /\ c \in Conversations /\ (s \in Unfinished => s = "retry_pending")
        /\ Unfinished \subseteq ACTIVE
    BY DEF Targets, Unfinished, Waiting, ACTIVE, Final, IInv, RowsOK
  <1>2. \A k \in JobIds :
            /\ jobs'[k].conversation = jobs[k].conversation
            /\ jobs'[k].generation = jobs[k].generation
            /\ jobs'[k].order = jobs[k].order
            /\ jobs'[k].epoch = jobs[k].epoch
            /\ jobs'[k].state # "none" <=> jobs[k].state # "none"
            /\ k # j => jobs'[k] = jobs[k]
    BY <1>1 DEF SettlesTo
  <1>3. \A d \in Conversations :
            /\ conversations'[d].generation = conversations[d].generation
            /\ conversations'[d].next_job_order = conversations[d].next_job_order
            /\ conversations'[d].reconciliation_hold =
                 (conversations[d].reconciliation_hold \/ (d = c /\ s = "needs_reconciliation"))
    BY DEF SettlesTo
  <1>4. TypeOK'
    BY DEF SettlesTo, OtherTypes, TypeOK
  <1>5. RowsOK'
    BY <1>2, <1>3 DEF IInv, RowsOK, ConversationOf
  <1>6. OrdersUnique'
    BY <1>2 DEF IInv, OrdersUnique
  <1>7. NoStaleWork'
    <2>1. SUFFICES ASSUME NEW k \in JobIds, jobs'[k].state \in Unfinished
                   PROVE  /\ runtime'.enabled /\ jobs'[k].epoch = runtime'.epoch
                          /\ jobs'[k].generation = conversations'[jobs'[k].conversation].generation
                          /\ ~jobs'[k].cancel
      BY DEF NoStaleWork, ConversationOf
    <2>2. jobs[k].state \in Unfinished /\ jobs'[k].cancel = jobs[k].cancel
      BY <2>1, <1>2, <1>1 DEF SettlesTo
    <2>3. jobs[k].conversation \in Conversations
      BY <2>2 DEF IInv, RowsOK, Unfinished, Waiting
    <2> QED BY <2>2, <2>3, <1>2, <1>3 DEF IInv, NoStaleWork, ConversationOf
  <1>8. TurnsInOrder'
    <2>1. SUFFICES ASSUME NEW k \in JobIds, jobs'[k].state = "running", EarlierActive(k)'
                   PROVE  FALSE
      BY DEF TurnsInOrder
    <2>2. k # j /\ jobs[k].state = "running"
      BY <2>1, <1>1, <1>2 DEF SettlesTo
    <2>3. PICK m \in JobIds : /\ jobs'[m].state # "none" /\ jobs'[m].state \in ACTIVE
                              /\ jobs'[m].conversation = jobs'[k].conversation
                              /\ jobs'[m].generation = jobs'[k].generation
                              /\ jobs'[m].order < jobs'[k].order
      BY <2>1 DEF EarlierActive, TurnsOf, JobsOf
    <2>4. jobs[m].state \in ACTIVE
      BY <2>3, <1>1, <1>2
    <2>5. EarlierActive(k)
      BY <2>3, <2>4, <1>2 DEF EarlierActive, TurnsOf, JobsOf
    <2> QED BY <2>2, <2>5 DEF IInv, TurnsInOrder
  <1>9. EffectsOK'
    <2>1. SUFFICES ASSUME NEW o \in Ops, effects'[o].state # "none"
                   PROVE  /\ effects'[o].job \in JobIds
                          /\ jobs'[effects'[o].job].state \notin Waiting \cup {"none"}
      BY DEF EffectsOK
    <2>2. effects[o].state # "none" /\ effects'[o].job = effects[o].job
          /\ effects[o].job \in JobIds /\ jobs[effects[o].job].state \notin Waiting \cup {"none"}
      BY <2>1 DEF IInv, EffectsOK
    <2>3. CASE effects[o].job = j
      <3>1. HasEffect(j)
        BY <2>2, <2>3 DEF HasEffect
      <3>2. s \notin Waiting \cup {"none"}
        BY <3>1, <1>1 DEF Unfinished
      <3> QED BY <3>2, <2>2, <2>3 DEF SettlesTo
    <2>4. CASE effects[o].job # j
      BY <2>2, <2>4, <1>2
    <2> QED BY <2>3, <2>4
  <1>10. HoldMatchesReviews'
    <2>1. SUFFICES ASSUME NEW d \in Conversations
                   PROVE  conversations'[d].reconciliation_hold
                            <=> \E k \in JobIds : /\ jobs'[k].state = "needs_reconciliation"
                                                  /\ jobs'[k].conversation = d
      BY DEF HoldMatchesReviews, JobsOf
    <2>2. conversations[d].reconciliation_hold
            <=> \E k \in JobIds : /\ jobs[k].state = "needs_reconciliation"
                                  /\ jobs[k].conversation = d
      BY DEF IInv, HoldMatchesReviews, JobsOf
    <2>3. jobs[j].state # "needs_reconciliation"
      BY DEF Unfinished, Waiting
    <2>4. \A k \in JobIds : jobs'[k].state = "needs_reconciliation"
              <=> (jobs[k].state = "needs_reconciliation" \/ (k = j /\ s = "needs_reconciliation"))
      BY <2>3, <1>2 DEF SettlesTo
    <2>5. \A k \in JobIds : jobs'[k].conversation = jobs[k].conversation
      BY <1>2
    <2>6. conversations'[d].reconciliation_hold =
              (conversations[d].reconciliation_hold \/ (d = c /\ s = "needs_reconciliation"))
      BY <1>3
    <2> HIDE DEF c
    <2>7. jobs[j].conversation = c
      BY DEF c
    <2>8. conversations[d].reconciliation_hold \in BOOLEAN
      BY DEF IInv, TypeOK, Conversation
    <2> QED BY <2>2, <2>4, <2>5, <2>6, <2>7, <2>8
  <1>11. HeldIsIdle'
    <2>1. SUFFICES ASSUME NEW d \in Conversations, conversations'[d].reconciliation_hold,
                          NEW k \in JobIds, jobs'[k].state = "running",
                          jobs'[k].conversation = d
                   PROVE  FALSE
      BY DEF HeldIsIdle, Running, JobsOf
    <2>2. k # j /\ jobs[k].state = "running" /\ jobs[k].conversation = d
      BY <2>1, <1>1, <1>2 DEF SettlesTo
    <2>3. ~conversations[d].reconciliation_hold
      BY <2>2 DEF IInv, HeldIsIdle, Running, JobsOf
    <2>4. d = c /\ jobs[j].state = "running"
      BY <2>1, <2>3, <1>3
    <2> QED BY <2>2, <2>4, OneRuns DEF IInv
  <1> QED
    BY <1>4, <1>5, <1>6, <1>7, <1>8, <1>9, <1>10, <1>11 DEF IInv

\* The same for an action built on Transition.
LEMMA TransitionKeepsIInv ==
    ASSUME IInv, NEW j \in JobIds, jobs[j].state \in Unfinished,
           NEW target \in Targets,
           target = "needs_reconciliation" => jobs[j].state = "running",
           NEW row, SameRow(j, row, target),
           NEW crow, SameConversation(jobs[j].conversation, crow),
           Transition(j, row, crow, target),
           OtherTypes', runtime' = runtime,
           \A o \in Ops : /\ effects'[o].state # "none" <=> effects[o].state # "none"
                          /\ effects'[o].job = effects[o].job
    PROVE  IInv'
  <1>1. jobs[j].state # "none"
    BY DEF Unfinished, Waiting
  <1>2. SettlesTo(j, Settled(j, target))
    BY <1>1, TransitionSettles DEF IInv
  <1>3. Settled(j, target) \in Targets /\ (Settled(j, target) = "retry_pending" => ~HasEffect(j))
    BY SettledInTargets
  <1>4. Settled(j, target) = "needs_reconciliation" => jobs[j].state = "running"
    <2>1. Settled(j, target) = "needs_reconciliation"
              => target = "needs_reconciliation" \/ HasEffect(j)
      BY DEF Settled
    <2>2. HasEffect(j) => jobs[j].state \notin Waiting
      BY IntentMeansRan DEF IInv
    <2> QED BY <2>1, <2>2 DEF Unfinished
  <1> QED BY <1>2, <1>3, <1>4, SettlingKeepsIInv

\* A job that exists has a conversation, which locked_job locks.
LEMMA OwnConversation ==
    ASSUME IInv, NEW j \in JobIds, jobs[j].state # "none"
    PROVE  /\ jobs[j].conversation \in Conversations
           /\ ConversationOf(j) \in Conversation
           /\ SameConversation(jobs[j].conversation, ConversationOf(j))
  BY DEF IInv, TypeOK, RowsOK, ConversationOf, SameConversation

\* A job that stays as it is, or is marked as cancelled, is the same row.
LEMMA KeptRow ==
    ASSUME NEW j, NEW target
    PROVE  /\ SameRow(j, jobs[j], target)
           /\ SameRow(j, [jobs[j] EXCEPT !.cancel = TRUE], "cancelled")
  BY DEF SameRow

\* A step that changes nothing the invariant reads but owners, messages or effects.
LEMMA FrameKeepsIInv ==
    ASSUME IInv, TypeOK', EffectsOK',
           \A k \in JobIds :
              /\ jobs'[k].state = jobs[k].state
              /\ jobs'[k].conversation = jobs[k].conversation
              /\ jobs'[k].generation = jobs[k].generation
              /\ jobs'[k].order = jobs[k].order
              /\ jobs'[k].epoch = jobs[k].epoch
              /\ jobs'[k].cancel = jobs[k].cancel,
           \A c \in Conversations :
              /\ conversations'[c].generation = conversations[c].generation
              /\ conversations'[c].next_job_order = conversations[c].next_job_order
              /\ conversations'[c].reconciliation_hold = conversations[c].reconciliation_hold,
           runtime'.epoch = runtime.epoch, runtime.enabled => runtime'.enabled
    PROVE  IInv'
  <1>1. RowsOK'
    BY DEF IInv, RowsOK, ConversationOf
  <1>2. OrdersUnique'
    BY DEF IInv, OrdersUnique
  <1>3. NoStaleWork'
    <2>1. \A k \in JobIds : jobs[k].state \in Unfinished => jobs[k].conversation \in Conversations
      BY DEF IInv, RowsOK, Unfinished, Waiting
    <2> QED BY <2>1 DEF IInv, NoStaleWork, ConversationOf
  <1>4. TurnsInOrder'
    BY DEF IInv, TurnsInOrder, EarlierActive, TurnsOf, JobsOf
  <1>5. HoldMatchesReviews'
    BY DEF IInv, HoldMatchesReviews, JobsOf
  <1>6. HeldIsIdle'
    BY DEF IInv, HeldIsIdle, Running, JobsOf
  <1> QED BY <1>1, <1>2, <1>3, <1>4, <1>5, <1>6 DEF IInv

-----------------------------------------------------------------------------
(* One lemma per action: the settling ones first *)

\* Control.cancel keeps the invariant.
LEMMA CancelKeepsIInv ==
    ASSUME IInv, NEW j \in JobIds, Cancel(j) PROVE IInv'
  <1>1. jobs[j].state \in Unfinished /\ jobs[j].state # "none"
    BY DEF Cancel, Unfinished, Waiting
  <1>2. "cancelled" \in Targets
    BY DEF Targets, Final
  <1>3. OtherTypes' /\ runtime' = runtime /\ effects' = effects
    BY DEF Cancel, IInv, TypeOK, OtherTypes
  <1>4. Transition(j, [jobs[j] EXCEPT !.cancel = TRUE], ConversationOf(j), "cancelled")
    BY DEF Cancel
  <1>5. SameRow(j, [jobs[j] EXCEPT !.cancel = TRUE], "cancelled")
    BY KeptRow
  <1> QED BY <1>1, <1>2, <1>3, <1>4, <1>5, OwnConversation, TransitionKeepsIInv

\* A claim that ends the job keeps the invariant.
LEMMA RefuseClaimKeepsIInv ==
    ASSUME IInv, NEW j \in JobIds, RefuseClaim(j) PROVE IInv'
  <1>1. jobs[j].state \in Waiting /\ jobs[j].state \in Unfinished /\ jobs[j].state # "none"
    BY DEF RefuseClaim, Unfinished, Waiting
  <1>2. ClaimVerdict(j) \in {"expired", "failed"}
    BY <1>1, IntentMeansRan DEF RefuseClaim, ClaimVerdict, IInv
  <1>3. ClaimVerdict(j) \in Targets /\ ClaimVerdict(j) # "needs_reconciliation"
    BY <1>2 DEF Targets, Final
  <1>4. OtherTypes' /\ runtime' = runtime /\ effects' = effects
    BY DEF RefuseClaim, IInv, TypeOK, OtherTypes
  <1>5. Transition(j, jobs[j], ConversationOf(j), ClaimVerdict(j))
    BY DEF RefuseClaim
  <1> QED BY <1>1, <1>3, <1>4, <1>5, OwnConversation, KeptRow, TransitionKeepsIInv

\* A job somebody is authorized for runs.
LEMMA AuthorizedRuns ==
    ASSUME NEW j, NEW f, Authorized(j, f)
    PROVE  jobs[j].state = "running" /\ jobs[j].state \in Unfinished
           /\ jobs[j].state \notin Waiting \cup {"none"}
  BY DEF Authorized, Unfinished, Waiting

\* Leases.finish keeps the invariant.
LEMMA FinishKeepsIInv ==
    ASSUME IInv, NEW j \in JobIds, NEW f \in 1 .. MaxAttempts, Finish(j, f) PROVE IInv'
  <1>1. jobs[j].state = "running" /\ jobs[j].state \in Unfinished /\ jobs[j].state # "none"
    BY AuthorizedRuns DEF Finish
  <1>2. "succeeded" \in Targets /\ "needs_reconciliation" \in Targets
    BY DEF Targets, Final
  <1>3. runtime' = runtime /\ effects' = effects
    BY DEF Finish
  <1>4. CASE HasUnresolved(j)
    <2>1. Transition(j, jobs[j], ConversationOf(j), "needs_reconciliation") /\ OtherTypes'
      BY <1>4 DEF Finish, IInv, TypeOK, OtherTypes
    <2> QED BY <2>1, <1>1, <1>2, <1>3, OwnConversation, KeptRow, TransitionKeepsIInv
  <1>5. CASE ~HasUnresolved(j)
    <2> DEFINE post == AppendTo(ConversationOf(j), jobs[j].conversation, "assistant", j)
    <2>1. messages' = post.rows /\ Transition(j, jobs[j], post.conversation, "succeeded")
      BY <1>5 DEF Finish
    <2>2. "assistant" \in Roles /\ j \in JobIds \cup Origins /\ messages \in SUBSET Message
      BY DEF Roles, IInv, TypeOK
    <2>3. /\ jobs[j].conversation \in Conversations
          /\ ConversationOf(j) \in Conversation
          /\ SameConversation(jobs[j].conversation, ConversationOf(j))
      BY <1>1, OwnConversation
    <2>4. /\ post.rows \in SUBSET Message /\ post.conversation \in Conversation
          /\ post.conversation.generation = ConversationOf(j).generation
          /\ post.conversation.next_job_order = ConversationOf(j).next_job_order
          /\ post.conversation.reconciliation_hold = ConversationOf(j).reconciliation_hold
      BY <2>2, <2>3, AppendType
    <2> HIDE DEF post
    <2>5. SameConversation(jobs[j].conversation, post.conversation)
      BY <2>3, <2>4 DEF SameConversation
    <2>6. OtherTypes'
      BY <2>1, <2>4 DEF Finish, IInv, TypeOK, OtherTypes
    <2>7. SameRow(j, jobs[j], "succeeded")
      BY KeptRow
    <2> QED BY <2>1, <2>5, <2>6, <2>7, <1>1, <1>2, <1>3, TransitionKeepsIInv
  <1> QED BY <1>4, <1>5

\* A retry or a failure is a state of a job that does not run.
LEMMA RetryOrFailInTargets ==
    ASSUME NEW j, NEW retryable
    PROVE  RetryOrFail(j, retryable) \in Targets \ {"needs_reconciliation"}
  BY DEF RetryOrFail, Targets, Final

\* Leases.fail keeps the invariant.
LEMMA FailKeepsIInv ==
    ASSUME IInv, NEW j \in JobIds, NEW f \in 1 .. MaxAttempts, NEW retryable \in BOOLEAN,
           Fail(j, f, retryable)
    PROVE  IInv'
  <1>1. jobs[j].state \in Unfinished /\ jobs[j].state # "none"
    BY AuthorizedRuns DEF Fail
  <1>2. OtherTypes' /\ runtime' = runtime /\ effects' = effects
    BY DEF Fail, IInv, TypeOK, OtherTypes
  <1>3. Transition(j, jobs[j], ConversationOf(j), RetryOrFail(j, retryable))
    BY DEF Fail
  <1> QED BY <1>1, <1>2, <1>3, RetryOrFailInTargets, OwnConversation, KeptRow,
             TransitionKeepsIInv

\* Recovery.sweep keeps the invariant.
LEMMA SweepKeepsIInv ==
    ASSUME IInv, NEW j \in JobIds, Sweep(j) PROVE IInv'
  <1>1. jobs[j].state \in Unfinished /\ jobs[j].state # "none"
    BY DEF Sweep, Unfinished, Waiting
  <1>2. SweepVerdict(j) \in Targets \ {"needs_reconciliation"}
    BY RetryOrFailInTargets DEF Sweep, SweepVerdict, Targets, Final
  <1>3. OtherTypes' /\ runtime' = runtime /\ effects' = effects
    BY DEF Sweep, IInv, TypeOK, OtherTypes
  <1>4. Transition(j, jobs[j], ConversationOf(j), SweepVerdict(j))
    BY DEF Sweep
  <1> QED BY <1>1, <1>2, <1>3, <1>4, OwnConversation, KeptRow, TransitionKeepsIInv

\* A step that leaves jobs, conversations and the epoch alone keeps the invariant.
LEMMA UnchangedRows ==
    ASSUME IInv, TypeOK', EffectsOK', jobs' = jobs, conversations' = conversations,
           runtime'.epoch = runtime.epoch, runtime.enabled => runtime'.enabled
    PROVE  IInv'
  <1>1. \A k \in JobIds : jobs'[k] = jobs[k]
    OBVIOUS
  <1>2. \A c \in Conversations : conversations'[c] = conversations[c]
    OBVIOUS
  <1> QED BY <1>1, <1>2, FrameKeepsIInv

\* Recovery.redispatch keeps the invariant.
LEMMA RedispatchKeepsIInv ==
    ASSUME IInv, NEW j \in JobIds, Redispatch(j) PROVE IInv'
  <1>1. jobs[j].state \in Unfinished /\ jobs[j].state # "none"
    BY DEF Redispatch, Unfinished, Waiting
  <1>2. OtherTypes' /\ runtime' = runtime /\ effects' = effects
    BY DEF Redispatch, IInv, TypeOK, OtherTypes
  <1>3. CASE j \in quarantined
    <2>1. Transition(j, jobs[j], ConversationOf(j), "failed")
      BY <1>3 DEF Redispatch
    <2>2. "failed" \in Targets
      BY DEF Targets, Final
    <2> QED BY <2>1, <2>2, <1>1, <1>2, OwnConversation, KeptRow, TransitionKeepsIInv
  <1>4. CASE j \notin quarantined
    <2>1. wake' = {j} /\ jobs' = jobs /\ conversations' = conversations /\ attempts' = attempts
      BY <1>4 DEF Redispatch
    <2>2. TypeOK' /\ EffectsOK'
      BY <2>1, <1>2 DEF IInv, TypeOK, OtherTypes, EffectsOK
    <2> QED BY <2>1, <2>2, <1>2, UnchangedRows
  <1> QED BY <1>3, <1>4

\* A quarantined row keeps the invariant.
LEMMA PoisonKeepsIInv ==
    ASSUME IInv, NEW j \in JobIds, Poison(j) PROVE IInv'
  <1>1. OtherTypes' /\ runtime' = runtime /\ effects' = effects
    BY DEF Poison, IInv, TypeOK, OtherTypes
  <1>2. CASE jobs[j].state \in Waiting
    <2>1. Transition(j, jobs[j], ConversationOf(j), "failed")
      BY <1>2 DEF Poison
    <2>2. "failed" \in Targets /\ jobs[j].state \in Unfinished /\ jobs[j].state # "none"
      BY <1>2 DEF Targets, Final, Unfinished, Waiting
    <2> QED BY <2>1, <2>2, <1>1, OwnConversation, KeptRow, TransitionKeepsIInv
  <1>3. CASE jobs[j].state \notin Waiting
    <2>1. wake' = {} /\ jobs' = jobs /\ conversations' = conversations /\ attempts' = attempts
      BY <1>3 DEF Poison
    <2>2. TypeOK' /\ EffectsOK'
      BY <2>1, <1>1 DEF IInv, TypeOK, OtherTypes, EffectsOK
    <2> QED BY <2>1, <2>2, <1>1, UnchangedRows
  <1> QED BY <1>2, <1>3

\* Effects.record keeps the invariant.
LEMMA RecordKeepsIInv ==
    ASSUME IInv, NEW j \in JobIds, NEW f \in 1 .. MaxAttempts, NEW o \in Ops,
           NEW outcome \in Outcomes, Record(j, f, o, outcome)
    PROVE  IInv'
  <1>1. effects' = [effects EXCEPT ![o].state = outcome] /\ effects[o].state # "none"
        /\ runtime' = runtime
    BY DEF Record
  <1>2. outcome \in EffectStates /\ outcome # "none"
    BY DEF Outcomes
  <1>3. effects' \in [Ops -> Effect]
    <2>1. effects \in [Ops -> Effect]
      BY DEF IInv, TypeOK
    <2>2. effects[o].job \in JobIds \cup {Null} /\ effects[o].attempt \in Nat
          /\ effects[o] \in Effect
      BY <2>1 DEF Effect
    <2>3. [effects[o] EXCEPT !.state = outcome] \in Effect
      BY <2>2, <1>2 DEF Effect
    <2>4. effects' = [effects EXCEPT ![o] = [effects[o] EXCEPT !.state = outcome]]
      BY <1>1
    <2> HIDE DEF Effect
    <2> QED BY <2>1, <2>3, <2>4
  <1>4. \A p \in Ops : /\ effects'[p].state # "none" <=> effects[p].state # "none"
                       /\ effects'[p].job = effects[p].job
    <2>1. SUFFICES ASSUME NEW p \in Ops
                   PROVE  /\ effects'[p].state # "none" <=> effects[p].state # "none"
                          /\ effects'[p].job = effects[p].job
      OBVIOUS
    <2>2. effects \in [Ops -> Effect] /\ effects[o] \in Effect
      BY DEF IInv, TypeOK
    <2>3. CASE p = o
      <3>1. effects'[o] = [effects[o] EXCEPT !.state = outcome]
        BY <1>1, <2>2
      <3> QED BY <3>1, <2>2, <2>3, <1>1, <1>2 DEF Effect
    <2>4. CASE p # o
      BY <2>4, <2>2, <1>1
    <2> QED BY <2>3, <2>4
  <1>5. OtherTypes'
    BY <1>3 DEF Record, IInv, TypeOK, OtherTypes
  <1>6. CASE outcome = "uncertain" /\ Authorized(j, f)
    <2>1. Transition(j, jobs[j], ConversationOf(j), "needs_reconciliation")
      BY <1>6 DEF Record
    <2>2. jobs[j].state = "running" /\ jobs[j].state \in Unfinished /\ jobs[j].state # "none"
          /\ "needs_reconciliation" \in Targets
      BY <1>6, AuthorizedRuns DEF Targets
    <2> QED BY <2>1, <2>2, <1>1, <1>4, <1>5, OwnConversation, KeptRow, TransitionKeepsIInv
  <1>7. CASE ~(outcome = "uncertain" /\ Authorized(j, f))
    <2>1. wake' = {} /\ jobs' = jobs /\ conversations' = conversations /\ attempts' = attempts
      BY <1>7 DEF Record
    <2>2. TypeOK'
      BY <2>1, <1>5 DEF IInv, TypeOK, OtherTypes
    <2>3. EffectsOK'
      BY <2>1, <1>4 DEF IInv, EffectsOK
    <2> QED BY <2>1, <2>2, <2>3, <1>1, UnchangedRows
  <1> QED BY <1>6, <1>7

-----------------------------------------------------------------------------
(* The actions that do not touch the jobs table *)

\* Effects.prepare keeps the invariant.
LEMMA PrepareKeepsIInv ==
    ASSUME IInv, NEW j \in JobIds, NEW f \in 1 .. MaxAttempts, NEW o \in Ops,
           Prepare(j, f, o)
    PROVE  IInv'
  <1>1. effects' = [effects EXCEPT ![o] = [job |-> j, attempt |-> f, state |-> "prepared"]]
        /\ wake' = {} /\ UNCHANGED <<runtime, owners, conversations, jobs, attempts,
                                     messages, checks, quarantined, reviewed>>
    BY DEF Prepare
  <1>2. [job |-> j, attempt |-> f, state |-> "prepared"] \in Effect
    BY DEF Effect, EffectStates
  <1>3. TypeOK'
    BY <1>1, <1>2 DEF IInv, TypeOK
  <1>4. jobs[j].state \notin Waiting \cup {"none"}
    BY AuthorizedRuns DEF Prepare
  <1>5. EffectsOK'
    BY <1>1, <1>4 DEF IInv, TypeOK, EffectsOK
  <1> QED BY <1>1, <1>3, <1>5, UnchangedRows

\* Work.notice keeps the invariant.
LEMMA NoticeKeepsIInv ==
    ASSUME IInv, NEW c \in Conversations, NEW o \in Origins, Notice(c, o)
    PROVE  IInv'
  <1> DEFINE post == AppendTo(conversations[c], c, "notice", o)
  <1>1. /\ messages' = post.rows
        /\ conversations' = [conversations EXCEPT ![c] = post.conversation]
        /\ wake' = {}
        /\ UNCHANGED <<runtime, owners, jobs, attempts, effects, checks, quarantined, reviewed>>
    BY DEF Notice
  <1>2. "notice" \in Roles /\ o \in JobIds \cup Origins /\ messages \in SUBSET Message
        /\ conversations[c] \in Conversation
    BY DEF Roles, IInv, TypeOK
  <1>3. /\ post.rows \in SUBSET Message /\ post.conversation \in Conversation
        /\ post.conversation.generation = conversations[c].generation
        /\ post.conversation.next_job_order = conversations[c].next_job_order
        /\ post.conversation.reconciliation_hold = conversations[c].reconciliation_hold
    BY <1>2, AppendType
  <1> HIDE DEF post
  <1>4. TypeOK'
    BY <1>1, <1>3 DEF IInv, TypeOK
  <1>5. EffectsOK'
    BY <1>1 DEF IInv, EffectsOK
  <1>6. \A d \in Conversations :
          /\ conversations'[d].generation = conversations[d].generation
          /\ conversations'[d].next_job_order = conversations[d].next_job_order
          /\ conversations'[d].reconciliation_hold = conversations[d].reconciliation_hold
    BY <1>1, <1>3 DEF IInv, TypeOK
  <1>7. \A k \in JobIds : jobs'[k] = jobs[k]
    BY <1>1
  <1> QED BY <1>1, <1>4, <1>5, <1>6, <1>7, FrameKeepsIInv

\* Checks, the end of a review and a disabled owner keep the invariant.
LEMMA OperatorKeepsIInv ==
    ASSUME IInv,
           \/ \E x \in Checks : ReviewCheck(x)
           \/ ResumeAfterReview
           \/ \E u \in Owners : DisableOwner(u)
    PROVE  IInv'
  <1>1. CASE \E x \in Checks : ReviewCheck(x)
    <2>1. TypeOK' /\ EffectsOK' /\ jobs' = jobs /\ conversations' = conversations
          /\ runtime' = runtime
      BY <1>1 DEF ReviewCheck, IInv, TypeOK, EffectsOK
    <2> QED BY <2>1, UnchangedRows
  <1>2. CASE ResumeAfterReview
    <2>1. TypeOK' /\ EffectsOK' /\ jobs' = jobs /\ conversations' = conversations
          /\ runtime'.epoch = runtime.epoch /\ runtime'.enabled
      BY <1>2 DEF ResumeAfterReview, IInv, TypeOK, EffectsOK
    <2> QED BY <2>1, UnchangedRows
  <1>3. CASE \E u \in Owners : DisableOwner(u)
    <2>1. TypeOK' /\ EffectsOK' /\ jobs' = jobs /\ conversations' = conversations
          /\ runtime' = runtime
      BY <1>3 DEF DisableOwner, IInv, TypeOK, EffectsOK
    <2> QED BY <2>1, UnchangedRows
  <1> QED BY <1>1, <1>2, <1>3

\* The passing of time keeps the invariant.
LEMMA PassingKeepsIInv ==
    ASSUME IInv, NEW j \in JobIds, Passing(j) PROVE IInv'
  <1>1. PICK over \in BOOLEAN, late \in BOOLEAN, lapsed \in BOOLEAN, ready \in BOOLEAN :
            TimePasses(j, over, late, lapsed, ready)
    BY DEF Passing
  <1> DEFINE row == Later(jobs[j], over, late, lapsed, ready)
  <1>2. jobs[j] \in Job
    BY DEF IInv, TypeOK
  <1>3. /\ row \in Job
        /\ row.state = jobs[j].state /\ row.conversation = jobs[j].conversation
        /\ row.generation = jobs[j].generation /\ row.order = jobs[j].order
        /\ row.epoch = jobs[j].epoch /\ row.cancel = jobs[j].cancel
    BY <1>2 DEF Job, Later
  <1>4. jobs' = [jobs EXCEPT ![j] = row] /\ wake' = {}
        /\ UNCHANGED <<runtime, owners, conversations, attempts, effects, messages,
                       checks, quarantined, reviewed>>
    BY <1>1 DEF TimePasses
  <1> HIDE DEF row
  <1>5. TypeOK'
    BY <1>3, <1>4 DEF IInv, TypeOK
  <1>6. \A k \in JobIds :
          /\ jobs'[k].state = jobs[k].state /\ jobs'[k].conversation = jobs[k].conversation
          /\ jobs'[k].generation = jobs[k].generation /\ jobs'[k].order = jobs[k].order
          /\ jobs'[k].epoch = jobs[k].epoch /\ jobs'[k].cancel = jobs[k].cancel
    BY <1>3, <1>4 DEF IInv, TypeOK
  <1>7. EffectsOK'
    BY <1>4, <1>6 DEF IInv, EffectsOK
  <1> QED BY <1>4, <1>5, <1>6, <1>7, FrameKeepsIInv

-----------------------------------------------------------------------------
(* The actions with updates of their own *)

\* Leases.claim keeps the invariant.
LEMMA ClaimKeepsIInv ==
    ASSUME IInv, NEW j \in JobIds, Claim(j) PROVE IInv'
  <1> DEFINE c == jobs[j].conversation
             r == Started(jobs[j])
  <1>1. /\ jobs' = [jobs EXCEPT ![j] = r]
        /\ attempts' = [attempts EXCEPT ![j] = OpenAttempt(@, jobs[j].fence + 1)]
        /\ wake' = {}
        /\ UNCHANGED <<runtime, owners, conversations, effects, messages, checks,
                       quarantined, reviewed>>
        /\ Enabled(j) /\ jobs[j].state \in Waiting /\ ~EarlierActive(j)
    BY DEF Claim
  <1>2. /\ jobs[j] \in Job /\ jobs \in [JobIds -> Job] /\ c \in Conversations
        /\ jobs[j].state # "none" /\ jobs[j].state # "needs_reconciliation"
        /\ jobs[j].state \in Unfinished /\ jobs[j].state \in ACTIVE
    <2>1. jobs \in [JobIds -> Job]
      BY DEF IInv, TypeOK
    <2>2. /\ jobs[j].state # "none" /\ jobs[j].state # "needs_reconciliation"
          /\ jobs[j].state \in Unfinished /\ jobs[j].state \in ACTIVE
      BY <1>1 DEF Waiting, Unfinished, ACTIVE
    <2>3. c \in Conversations
      BY <2>2 DEF IInv, RowsOK
    <2> QED BY <2>1, <2>2, <2>3
  <1>3. /\ r \in Job /\ r.state = "running" /\ r.conversation = c
        /\ r.generation = jobs[j].generation /\ r.order = jobs[j].order
        /\ r.epoch = jobs[j].epoch /\ r.cancel = jobs[j].cancel
    <2>1. "running" \in JobStates
      BY DEF JobStates, ACTIVE, Unfinished
    <2>2. jobs[j].fence + 1 \in Nat /\ jobs[j].attempts + 1 \in Nat
      BY <1>2 DEF Job
    <2> QED BY <2>1, <2>2, <1>2 DEF Job, Started
  <1> HIDE DEF r
  <1>4. \A k \in JobIds :
            /\ jobs'[k].conversation = jobs[k].conversation
            /\ jobs'[k].generation = jobs[k].generation
            /\ jobs'[k].order = jobs[k].order
            /\ jobs'[k].epoch = jobs[k].epoch
            /\ jobs'[k].cancel = jobs[k].cancel
            /\ jobs'[k].state # "none" <=> jobs[k].state # "none"
            /\ jobs'[k].state \in Unfinished <=> jobs[k].state \in Unfinished
            /\ jobs'[k].state \in ACTIVE <=> jobs[k].state \in ACTIVE
            /\ jobs'[k].state = "needs_reconciliation" <=> jobs[k].state = "needs_reconciliation"
            /\ k # j => jobs'[k].state = jobs[k].state
    <2>1. \A k \in JobIds : k # j => jobs'[k] = jobs[k]
      BY <1>1, <1>2
    <2>2. jobs'[j] = r
      BY <1>1, <1>2
    <2>3. "running" \in Unfinished /\ "running" \in ACTIVE
      BY DEF Unfinished, ACTIVE
    <2> QED BY <2>1, <2>2, <2>3, <1>2, <1>3
  <1>5. jobs'[j].state = "running"
    BY <1>1, <1>2, <1>3
  <1>6. TypeOK'
    <2>1. jobs' \in [JobIds -> Job]
      BY <1>1, <1>2, <1>3
    <2>2. attempts' \in [JobIds -> [1 .. MaxAttempts -> AttemptStates]]
      <3>1. attempts[j] \in [1 .. MaxAttempts -> AttemptStates] /\ "open" \in AttemptStates
        BY DEF IInv, TypeOK, AttemptStates
      <3>2. OpenAttempt(attempts[j], jobs[j].fence + 1) \in [1 .. MaxAttempts -> AttemptStates]
        BY <3>1 DEF OpenAttempt
      <3> QED BY <3>2, <1>1 DEF IInv, TypeOK
    <2> QED BY <2>1, <2>2, <1>1 DEF IInv, TypeOK
  <1>7. RowsOK'
    BY <1>1, <1>4 DEF IInv, RowsOK, ConversationOf
  <1>8. OrdersUnique'
    BY <1>4 DEF IInv, OrdersUnique
  <1>9. NoStaleWork'
    BY <1>1, <1>4 DEF IInv, NoStaleWork, ConversationOf
  <1>10. TurnsInOrder'
    <2>1. SUFFICES ASSUME NEW k \in JobIds, jobs'[k].state = "running", EarlierActive(k)'
                   PROVE  FALSE
      BY DEF TurnsInOrder
    <2>2. EarlierActive(k)
      BY <2>1, <1>4 DEF EarlierActive, TurnsOf, JobsOf
    <2>3. k # j
      BY <2>2, <1>1
    <2> QED BY <2>1, <2>2, <2>3, <1>4 DEF IInv, TurnsInOrder
  <1>11. EffectsOK'
    <2>1. \A k \in JobIds : jobs'[k].state \in Waiting \cup {"none"}
              => jobs[k].state \in Waiting \cup {"none"}
      BY <1>4, <1>5 DEF Waiting
    <2> QED BY <2>1, <1>1 DEF IInv, EffectsOK
  <1>12. HoldMatchesReviews'
    BY <1>1, <1>4 DEF IInv, HoldMatchesReviews, JobsOf
  <1>13. HeldIsIdle'
    <2>1. SUFFICES ASSUME NEW d \in Conversations, conversations[d].reconciliation_hold,
                          NEW k \in JobIds, jobs'[k].state = "running", jobs[k].conversation = d
                   PROVE  FALSE
      BY <1>1, <1>4 DEF HeldIsIdle, Running, JobsOf
    <2>2. CASE k = j
      BY <2>1, <2>2, <1>1 DEF Enabled, ConversationOf
    <2>3. CASE k # j
      BY <2>1, <2>3, <1>4 DEF IInv, HeldIsIdle, Running, JobsOf
    <2> QED BY <2>2, <2>3
  <1> QED BY <1>6, <1>7, <1>8, <1>9, <1>10, <1>11, <1>12, <1>13 DEF IInv

\* Work.accept keeps the invariant.
LEMMA AcceptKeepsIInv ==
    ASSUME IInv, NEW c \in Conversations, NEW key \in Keys, Accept(c, key) PROVE IInv'
  <1>1. PICK j \in JobIds :
          LET post == AppendTo(conversations[c], c, "user", j)
          IN  /\ jobs[j].state = "none"
              /\ jobs' = [jobs EXCEPT ![j] =
                    [NoJob EXCEPT !.conversation = c,
                                  !.generation = conversations[c].generation,
                                  !.order = conversations[c].next_job_order,
                                  !.key = key, !.state = "queued",
                                  !.epoch = runtime.epoch]]
              /\ messages' = post.rows
              /\ conversations' = [conversations EXCEPT ![c] =
                    [post.conversation EXCEPT !.next_job_order = @ + 1]]
              /\ wake' = {j}
    BY DEF Accept
  <1>2. runtime.enabled
        /\ UNCHANGED <<runtime, owners, attempts, effects, checks, quarantined, reviewed>>
    BY DEF Accept
  <1> DEFINE post == AppendTo(conversations[c], c, "user", j)
             r == [NoJob EXCEPT !.conversation = c,
                                !.generation = conversations[c].generation,
                                !.order = conversations[c].next_job_order,
                                !.key = key, !.state = "queued",
                                !.epoch = runtime.epoch]
             h == [post.conversation EXCEPT !.next_job_order = @ + 1]
  <1>3. /\ jobs[j].state = "none" /\ jobs' = [jobs EXCEPT ![j] = r]
        /\ messages' = post.rows /\ conversations' = [conversations EXCEPT ![c] = h]
        /\ wake' = {j}
    BY <1>1
  <1>4. "user" \in Roles /\ j \in JobIds \cup Origins /\ messages \in SUBSET Message
        /\ conversations[c] \in Conversation
    BY DEF Roles, IInv, TypeOK
  <1>5. /\ post.rows \in SUBSET Message /\ post.conversation \in Conversation
        /\ post.conversation.generation = conversations[c].generation
        /\ post.conversation.next_job_order = conversations[c].next_job_order
        /\ post.conversation.reconciliation_hold = conversations[c].reconciliation_hold
    BY <1>4, AppendType
  <1> HIDE DEF post
  <1>6. /\ h \in Conversation /\ h.generation = conversations[c].generation
        /\ h.next_job_order = conversations[c].next_job_order + 1
        /\ h.reconciliation_hold = conversations[c].reconciliation_hold
    BY <1>5 DEF Conversation
  <1>7. /\ r \in Job /\ r.conversation = c /\ r.state = "queued"
        /\ r.generation = conversations[c].generation
        /\ r.order = conversations[c].next_job_order
        /\ r.epoch = runtime.epoch /\ r.cancel = FALSE
    <2>1. "queued" \in JobStates
      BY DEF JobStates, ACTIVE, Unfinished, Waiting
    <2>2. conversations[c].generation \in Nat /\ conversations[c].next_job_order \in Nat
          /\ runtime.epoch \in Nat
      BY <1>4 DEF Conversation, IInv, TypeOK
    <2> QED BY <2>1, <2>2 DEF NoJob, Job
  <1> HIDE DEF r, h
  <1>8. \A k \in JobIds : k # j => jobs'[k] = jobs[k]
    BY <1>3 DEF IInv, TypeOK
  <1>9. jobs'[j] = r
    BY <1>3 DEF IInv, TypeOK
  <1>10. \A d \in Conversations :
            /\ d # c => conversations'[d] = conversations[d]
            /\ conversations'[d].generation = conversations[d].generation
            /\ conversations'[d].reconciliation_hold = conversations[d].reconciliation_hold
            /\ conversations[d].next_job_order <= conversations'[d].next_job_order
    <2>1. \A d \in Conversations : d # c => conversations'[d] = conversations[d]
      BY <1>3 DEF IInv, TypeOK
    <2>2. conversations'[c] = h
      BY <1>3 DEF IInv, TypeOK
    <2>3. \A d \in Conversations : conversations[d].next_job_order \in Nat
      BY DEF IInv, TypeOK, Conversation
    <2> QED BY <2>1, <2>2, <2>3, <1>6
  <1>11. conversations'[c].next_job_order = conversations[c].next_job_order + 1
         /\ conversations[c].next_job_order \in Nat
    BY <1>3, <1>4, <1>6 DEF IInv, TypeOK, Conversation
  <1>12. \A k \in JobIds : jobs[k].state # "none" =>
            /\ jobs[k].conversation \in Conversations
            /\ jobs[k].generation \in Nat /\ jobs[k].order \in Nat
            /\ jobs[k].generation <= conversations[jobs[k].conversation].generation
            /\ jobs[k].generation = conversations[jobs[k].conversation].generation
                  => jobs[k].order < conversations[jobs[k].conversation].next_job_order
    BY DEF IInv, TypeOK, RowsOK, Job, ConversationOf
  <1>13. TypeOK'
    <2>1. jobs' \in [JobIds -> Job] /\ conversations' \in [Conversations -> Conversation]
      BY <1>3, <1>6, <1>7 DEF IInv, TypeOK
    <2> QED BY <2>1, <1>2, <1>3, <1>5 DEF IInv, TypeOK
  <1>14. RowsOK'
    <2>1. SUFFICES ASSUME NEW k \in JobIds, jobs'[k].state # "none"
                   PROVE  LET d == jobs'[k].conversation
                          IN  /\ d \in Conversations
                              /\ jobs'[k].generation <= conversations'[d].generation
                              /\ jobs'[k].generation = conversations'[d].generation
                                    => jobs'[k].order < conversations'[d].next_job_order
      BY DEF RowsOK, ConversationOf
    <2>2. CASE k = j
      <3>1. conversations[c].generation \in Nat
        BY <1>4 DEF Conversation
      <3> QED BY <3>1, <2>2, <1>7, <1>9, <1>10, <1>11
    <2>3. CASE k # j
      <3>1. jobs'[k] = jobs[k] /\ jobs[k].state # "none"
        BY <2>1, <2>3, <1>8
      <3>2. \A d \in Conversations : conversations[d].next_job_order \in Nat
                                     /\ conversations'[d].next_job_order \in Nat
        BY <1>13 DEF IInv, TypeOK, Conversation
      <3> QED BY <3>1, <3>2, <1>10, <1>12
    <2> QED BY <2>2, <2>3
  <1>15. OrdersUnique'
    <2>1. \A k \in JobIds :
            jobs[k].state # "none" /\ jobs[k].conversation = c
            /\ jobs[k].generation = conversations[c].generation
               => jobs[k].order # conversations[c].next_job_order
      BY <1>11, <1>12
    <2>2. \A k \in JobIds : k # j /\ jobs'[k].state # "none" => jobs[k].state # "none"
      BY <1>8
    <2> QED BY <2>1, <2>2, <1>7, <1>8, <1>9 DEF IInv, OrdersUnique
  <1>16. NoStaleWork'
    <2>1. SUFFICES ASSUME NEW k \in JobIds, jobs'[k].state \in Unfinished
                   PROVE  /\ runtime'.enabled /\ jobs'[k].epoch = runtime'.epoch
                          /\ jobs'[k].generation = conversations'[jobs'[k].conversation].generation
                          /\ ~jobs'[k].cancel
      BY DEF NoStaleWork, ConversationOf
    <2>2. CASE k = j
      BY <2>2, <1>2, <1>7, <1>9, <1>10
    <2>3. CASE k # j
      <3>1. jobs'[k] = jobs[k] /\ jobs[k].state # "none"
        BY <2>1, <2>3, <1>8 DEF Unfinished, Waiting
      <3> QED BY <3>1, <2>1, <1>2, <1>10, <1>12 DEF IInv, NoStaleWork, ConversationOf
    <2> QED BY <2>2, <2>3
  <1>17. TurnsInOrder'
    <2>1. SUFFICES ASSUME NEW k \in JobIds, jobs'[k].state = "running", EarlierActive(k)'
                   PROVE  FALSE
      BY DEF TurnsInOrder
    <2>2. k # j /\ jobs'[k] = jobs[k] /\ jobs[k].state # "none"
      BY <2>1, <1>7, <1>8, <1>9
    <2>3. PICK m \in JobIds : /\ jobs'[m].state # "none" /\ jobs'[m].state \in ACTIVE
                              /\ jobs'[m].conversation = jobs[k].conversation
                              /\ jobs'[m].generation = jobs[k].generation
                              /\ jobs'[m].order < jobs[k].order
      BY <2>1, <2>2 DEF EarlierActive, TurnsOf, JobsOf
    <2>4. CASE m = j
      BY <2>2, <2>3, <2>4, <1>7, <1>9, <1>11, <1>12
    <2>5. CASE m # j
      <3>1. EarlierActive(k)
        BY <2>3, <2>5, <1>8 DEF EarlierActive, TurnsOf, JobsOf
      <3> QED BY <3>1, <2>1, <2>2 DEF IInv, TurnsInOrder
    <2> QED BY <2>4, <2>5
  <1>18. EffectsOK'
    BY <1>2, <1>3, <1>8 DEF IInv, EffectsOK
  <1>19. \A k \in JobIds :
            /\ jobs'[k].state = "needs_reconciliation" <=> jobs[k].state = "needs_reconciliation"
            /\ jobs'[k].state = "running" <=> jobs[k].state = "running"
            /\ jobs[k].state # "none" => jobs'[k] = jobs[k]
    BY <1>3, <1>7, <1>8, <1>9
  <1>20. HoldMatchesReviews'
    BY <1>10, <1>19 DEF IInv, HoldMatchesReviews, JobsOf
  <1>21. HeldIsIdle'
    BY <1>10, <1>19 DEF IInv, HeldIsIdle, Running, JobsOf
  <1> QED BY <1>13, <1>14, <1>15, <1>16, <1>17, <1>18, <1>20, <1>21 DEF IInv

\* Control.reconcile keeps the invariant.
LEMMA ReconcileKeepsIInv ==
    ASSUME IInv, NEW j \in JobIds, NEW decision \in {"succeeded", "cancelled"},
           Reconcile(j, decision)
    PROVE  IInv'
  <1> DEFINE c == jobs[j].conversation
             r == [jobs[j] EXCEPT !.state = decision, !.lease = "none", !.cancel = TRUE]
             outstanding == \E k \in JobIds : /\ jobs'[k].state = "needs_reconciliation"
                                              /\ jobs'[k].conversation = c
  <1>1. /\ jobs[j].state = "needs_reconciliation" /\ jobs' = [jobs EXCEPT ![j] = r]
        /\ reviewed' = reviewed \cup {j}
        /\ UNCHANGED <<runtime, owners, attempts, effects, messages, checks, quarantined>>
    BY DEF Reconcile
  <1>2. conversations' = IF outstanding THEN conversations
                         ELSE [conversations EXCEPT ![c].reconciliation_hold = FALSE]
    BY <1>1 DEF Reconcile, JobsOf
  <1>3. wake' \in SUBSET JobIds
    BY WakeNextType DEF Reconcile
  <1>4. jobs \in [JobIds -> Job] /\ c \in Conversations /\ conversations[c] \in Conversation
    BY <1>1 DEF IInv, TypeOK, RowsOK
  <1>5. /\ r \in Job /\ r.state = decision /\ r.conversation = c
        /\ r.generation = jobs[j].generation /\ r.order = jobs[j].order
        /\ r.epoch = jobs[j].epoch
    <2>1. decision \in JobStates
      BY DEF JobStates, Final
    <2> QED BY <2>1, <1>4 DEF Job
  <1> HIDE DEF r
  <1>6. jobs'[j] = r /\ \A k \in JobIds : k # j => jobs'[k] = jobs[k]
    BY <1>1, <1>4
  <1>7. decision \notin ACTIVE /\ decision \notin Unfinished /\ decision # "none"
        /\ decision \notin Waiting
        /\ decision # "needs_reconciliation" /\ decision # "running"
    BY DEF ACTIVE, Unfinished, Waiting
  <1>8. \A k \in JobIds :
            /\ jobs'[k].conversation = jobs[k].conversation
            /\ jobs'[k].generation = jobs[k].generation
            /\ jobs'[k].order = jobs[k].order
            /\ jobs'[k].state # "none" <=> jobs[k].state # "none"
            /\ jobs'[k].state \in ACTIVE => jobs[k].state \in ACTIVE
            /\ jobs'[k].state \in Unfinished => k # j
            /\ jobs'[k].state = "running" => k # j
            /\ jobs'[k].state = "needs_reconciliation"
                  <=> jobs[k].state = "needs_reconciliation" /\ k # j
            /\ k # j => jobs'[k] = jobs[k]
    BY <1>1, <1>5, <1>6, <1>7
  <1>9. conversations' \in [Conversations -> Conversation]
        /\ \A d \in Conversations :
              /\ conversations'[d].generation = conversations[d].generation
              /\ conversations'[d].next_job_order = conversations[d].next_job_order
              /\ d # c \/ outstanding => conversations'[d] = conversations[d]
              /\ d = c /\ ~outstanding => ~conversations'[d].reconciliation_hold
    <2> DEFINE h == [conversations[c] EXCEPT !.reconciliation_hold = FALSE]
    <2>1. h \in Conversation /\ h.generation = conversations[c].generation
          /\ h.next_job_order = conversations[c].next_job_order /\ ~h.reconciliation_hold
      BY <1>4 DEF Conversation
    <2>2. conversations \in [Conversations -> Conversation]
      BY DEF IInv, TypeOK
    <2>3. conversations' = IF outstanding THEN conversations
                           ELSE [conversations EXCEPT ![c] = h]
      BY <1>2
    <2> HIDE DEF h, outstanding
    <2> QED BY <2>1, <2>2, <2>3, <1>4
  <1>10. TypeOK'
    BY <1>1, <1>3, <1>4, <1>5, <1>9 DEF IInv, TypeOK
  <1>11. RowsOK'
    BY <1>8, <1>9 DEF IInv, RowsOK, ConversationOf
  <1>12. OrdersUnique'
    BY <1>8 DEF IInv, OrdersUnique
  <1>13. NoStaleWork'
    <2>1. \A k \in JobIds : jobs[k].state \in Unfinished => jobs[k].conversation \in Conversations
      BY DEF IInv, RowsOK, Unfinished, Waiting
    <2> QED BY <2>1, <1>1, <1>8, <1>9 DEF IInv, NoStaleWork, ConversationOf
  <1>14. TurnsInOrder'
    BY <1>8 DEF IInv, TurnsInOrder, EarlierActive, TurnsOf, JobsOf
  <1>15. EffectsOK'
    BY <1>1, <1>5, <1>6, <1>7, <1>8 DEF IInv, EffectsOK
  <1>16. HoldMatchesReviews'
    <2>1. SUFFICES ASSUME NEW d \in Conversations
                   PROVE  conversations'[d].reconciliation_hold
                            <=> \E k \in JobIds : /\ jobs'[k].state = "needs_reconciliation"
                                                  /\ jobs'[k].conversation = d
      BY DEF HoldMatchesReviews, JobsOf
    <2>2. conversations[d].reconciliation_hold
            <=> \E k \in JobIds : /\ jobs[k].state = "needs_reconciliation"
                                  /\ jobs[k].conversation = d
      BY DEF IInv, HoldMatchesReviews, JobsOf
    <2>3. CASE d # c
      BY <2>2, <2>3, <1>8, <1>9
    <2>4. CASE d = c /\ outstanding
      <3>1. conversations[d].reconciliation_hold
        BY <2>2, <2>4, <1>1
      <3> QED BY <3>1, <2>4, <1>9
    <2>5. CASE d = c /\ ~outstanding
      BY <2>5, <1>9
    <2> QED BY <2>3, <2>4, <2>5
  <1>17. HeldIsIdle'
    BY <1>8, <1>9 DEF IInv, HeldIsIdle, Running, JobsOf
  <1> QED BY <1>10, <1>11, <1>12, <1>13, <1>14, <1>15, <1>16, <1>17 DEF IInv

\* Control.reset keeps the invariant.
LEMMA ResetKeepsIInv ==
    ASSUME IInv, NEW c \in Conversations, Reset(c) PROVE IInv'
  <1> DEFINE gone == UnfinishedJobs(c)
             After(j) == JobAfter(j, [jobs[j] EXCEPT !.cancel = TRUE], "cancelled")
             held == \E j \in gone : Settled(j, "cancelled") = "needs_reconciliation"
             row == [generation |-> conversations[c].generation + 1,
                     next_message_seq |-> 1, next_job_order |-> 1,
                     reconciliation_hold |-> conversations[c].reconciliation_hold \/ held]
  <1>1. /\ jobs' = [j \in JobIds |-> IF j \in gone THEN After(j) ELSE jobs[j]]
        /\ conversations' = [conversations EXCEPT ![c] = row]
        /\ attempts' = [j \in JobIds |->
              IF j \in gone THEN CloseAttempt(attempts[j], j, Settled(j, "cancelled"))
              ELSE attempts[j]]
        /\ wake' = WakeNext(jobs', conversations', c)
        /\ UNCHANGED <<runtime, owners, effects, messages, checks, quarantined, reviewed>>
    BY DEF Reset
  <1>2. \A j \in JobIds :
            j \in gone <=> jobs[j].state \in Unfinished /\ jobs[j].conversation = c
    BY DEF UnfinishedJobs, JobsOf, Unfinished, Waiting
  <1>3. \A j \in JobIds :
            /\ After(j) \in Job
            /\ After(j).state = Settled(j, "cancelled")
            /\ After(j).conversation = jobs[j].conversation
            /\ After(j).generation = jobs[j].generation
            /\ After(j).order = jobs[j].order
    <2>1. SUFFICES ASSUME NEW j \in JobIds
                   PROVE  /\ After(j) \in Job
                          /\ After(j).state = Settled(j, "cancelled")
                          /\ After(j).conversation = jobs[j].conversation
                          /\ After(j).generation = jobs[j].generation
                          /\ After(j).order = jobs[j].order
      OBVIOUS
    <2> DEFINE r == [jobs[j] EXCEPT !.cancel = TRUE]
    <2>2. jobs[j] \in Job
      BY DEF IInv, TypeOK
    <2>3. r \in Job /\ r.conversation = jobs[j].conversation
          /\ r.generation = jobs[j].generation /\ r.order = jobs[j].order
      BY <2>2 DEF Job
    <2>4. Settled(j, "cancelled") \in JobStates
      BY DEF Settled, JobStates, ACTIVE, Final
    <2> QED BY <2>3, <2>4 DEF JobAfter, Job
  <1> HIDE DEF After
  <1>4. \A j \in JobIds : Settled(j, "cancelled") \in {"cancelled", "needs_reconciliation"}
                          /\ Settled(j, "cancelled") \in Targets
    BY SettledInTargets DEF Targets, Final
  <1>5. \A j \in JobIds :
            /\ j \in gone => jobs'[j] = After(j)
            /\ j \notin gone => jobs'[j] = jobs[j]
    BY <1>1
  <1>6. row \in Conversation /\ conversations[c].generation \in Nat
        /\ row.generation = conversations[c].generation + 1
        /\ row.reconciliation_hold = (conversations[c].reconciliation_hold \/ held)
    BY DEF Conversation, IInv, TypeOK
  <1> HIDE DEF row
  <1>7. conversations' \in [Conversations -> Conversation] /\ conversations'[c] = row
        /\ \A d \in Conversations : d # c => conversations'[d] = conversations[d]
    BY <1>1, <1>6 DEF IInv, TypeOK
  <1>8. {"cancelled", "needs_reconciliation"} \cap (Unfinished \cup {"none"}) = {}
        /\ Waiting \subseteq Unfinished /\ "running" \in Unfinished
        /\ "needs_reconciliation" \notin Unfinished /\ "none" \notin Unfinished
        /\ Unfinished \subseteq ACTIVE
    BY DEF Unfinished, Waiting, ACTIVE
  <1> HIDE DEF gone
  <1>9. \A j \in JobIds :
            /\ jobs'[j].conversation = jobs[j].conversation
            /\ jobs'[j].generation = jobs[j].generation
            /\ jobs'[j].order = jobs[j].order
            /\ jobs'[j].state # "none" <=> jobs[j].state # "none"
            /\ jobs'[j].state \in Unfinished =>
                  jobs[j].conversation # c /\ jobs'[j] = jobs[j]
            /\ jobs'[j].state \in Waiting \cup {"none"} => jobs'[j] = jobs[j]
            /\ jobs'[j].state \in ACTIVE => jobs[j].state \in ACTIVE
            /\ jobs[j].conversation # c => jobs'[j] = jobs[j]
    BY <1>2, <1>3, <1>4, <1>5, <1>8
  <1>10. TypeOK'
    <2>1. jobs' \in [JobIds -> Job]
      BY <1>1, <1>3 DEF IInv, TypeOK
    <2>2. \A j \in JobIds : attempts[j] \in [1 .. MaxAttempts -> AttemptStates]
      BY DEF IInv, TypeOK
    <2>3. attempts' \in [JobIds -> [1 .. MaxAttempts -> AttemptStates]]
      BY <2>2, <1>1, <1>4, CloseAttemptType
    <2>4. wake' \in SUBSET JobIds
      BY <1>1, WakeNextType
    <2> QED BY <2>1, <2>3, <2>4, <1>1, <1>7 DEF IInv, TypeOK
  <1>11. RowsOK'
    <2>1. SUFFICES ASSUME NEW j \in JobIds, jobs'[j].state # "none"
                   PROVE  LET d == jobs'[j].conversation
                          IN  /\ d \in Conversations
                              /\ jobs'[j].generation <= conversations'[d].generation
                              /\ jobs'[j].generation = conversations'[d].generation
                                    => jobs'[j].order < conversations'[d].next_job_order
      BY DEF RowsOK, ConversationOf
    <2>2. /\ jobs[j].conversation \in Conversations
          /\ jobs[j].generation <= ConversationOf(j).generation
          /\ jobs[j].generation = ConversationOf(j).generation
                => jobs[j].order < ConversationOf(j).next_job_order
          /\ jobs[j].generation \in Nat
      BY <2>1, <1>9 DEF IInv, RowsOK, TypeOK, Job
    <2>3. CASE jobs[j].conversation = c
      BY <2>2, <2>3, <1>6, <1>7, <1>9 DEF ConversationOf
    <2>4. CASE jobs[j].conversation # c
      BY <2>2, <2>4, <1>7, <1>9 DEF ConversationOf
    <2> QED BY <2>3, <2>4
  <1>12. OrdersUnique'
    BY <1>9 DEF IInv, OrdersUnique
  <1>13. NoStaleWork'
    <2>1. SUFFICES ASSUME NEW j \in JobIds, jobs'[j].state \in Unfinished
                   PROVE  /\ runtime'.enabled /\ jobs'[j].epoch = runtime'.epoch
                          /\ jobs'[j].generation = conversations'[jobs'[j].conversation].generation
                          /\ ~jobs'[j].cancel
      BY DEF NoStaleWork, ConversationOf
    <2>2. jobs'[j] = jobs[j] /\ jobs[j].conversation # c /\ jobs[j].conversation \in Conversations
      BY <2>1, <1>8, <1>9 DEF IInv, RowsOK
    <2> QED BY <2>1, <2>2, <1>1, <1>7 DEF IInv, NoStaleWork, ConversationOf
  <1>14. TurnsInOrder'
    <2>1. \A j \in JobIds : jobs'[j].state = "running" => jobs[j].state = "running"
      BY <1>8, <1>9
    <2> QED BY <2>1, <1>9 DEF IInv, TurnsInOrder, EarlierActive, TurnsOf, JobsOf
  <1>15. EffectsOK'
    BY <1>1, <1>9 DEF IInv, EffectsOK
  <1>16. HoldMatchesReviews'
    <2>1. SUFFICES ASSUME NEW d \in Conversations
                   PROVE  conversations'[d].reconciliation_hold
                            <=> \E k \in JobIds : /\ jobs'[k].state = "needs_reconciliation"
                                                  /\ jobs'[k].conversation = d
      BY DEF HoldMatchesReviews, JobsOf
    <2>2. conversations[d].reconciliation_hold
            <=> \E k \in JobIds : /\ jobs[k].state = "needs_reconciliation"
                                  /\ jobs[k].conversation = d
      BY DEF IInv, HoldMatchesReviews, JobsOf
    <2>3. CASE d # c
      BY <2>2, <2>3, <1>7, <1>9
    <2>4. CASE d = c
      <3>1. held <=> \E k \in JobIds : /\ jobs[k].state \in Unfinished /\ jobs[k].conversation = c
                                       /\ jobs'[k].state = "needs_reconciliation"
        <4>1. gone \subseteq JobIds
          BY DEF gone, UnfinishedJobs, JobsOf
        <4> QED BY <4>1, <1>2, <1>3, <1>5
      <3>2. \A k \in JobIds : jobs[k].state = "needs_reconciliation"
                => jobs'[k].state = "needs_reconciliation"
        BY <1>2, <1>5, <1>8
      <3>3. \A k \in JobIds :
               jobs'[k].state = "needs_reconciliation" /\ jobs[k].conversation = c
                  => jobs[k].state = "needs_reconciliation" \/ jobs[k].state \in Unfinished
        BY <1>2, <1>5
      <3>4. conversations'[d].reconciliation_hold = (conversations[c].reconciliation_hold \/ held)
        BY <2>4, <1>6, <1>7
      <3>5. conversations[c].reconciliation_hold \in BOOLEAN
        BY DEF IInv, TypeOK, Conversation
      <3> HIDE DEF held
      <3> QED BY <2>2, <2>4, <3>1, <3>2, <3>3, <3>4, <3>5, <1>9
    <2> QED BY <2>3, <2>4
  <1>17. HeldIsIdle'
    <2>1. SUFFICES ASSUME NEW d \in Conversations, conversations'[d].reconciliation_hold,
                          NEW k \in JobIds, jobs'[k].state = "running",
                          jobs'[k].conversation = d
                   PROVE  FALSE
      BY DEF HeldIsIdle, Running, JobsOf
    <2>2. d # c /\ jobs[k].state = "running" /\ jobs[k].conversation = d
      BY <2>1, <1>8, <1>9
    <2> QED BY <2>1, <2>2, <1>7 DEF IInv, HeldIsIdle, Running, JobsOf
  <1> QED
    BY <1>10, <1>11, <1>12, <1>13, <1>14, <1>15, <1>16, <1>17 DEF IInv

\* Recovery.begin_restore keeps the invariant.
LEMMA BeginRestoreKeepsIInv ==
    ASSUME IInv, BeginRestore PROVE IInv'
  <1> DEFINE After(j) == [jobs[j] EXCEPT !.state = "needs_reconciliation",
                                         !.lease = "none", !.overtime = FALSE,
                                         !.expired = FALSE, !.cancel = TRUE]
             Held(c) == [conversations[c] EXCEPT !.reconciliation_hold = TRUE]
             caught == {j \in JobIds : jobs[j].state \in Unfinished}
  <1>1. jobs' = [j \in JobIds |-> IF j \in caught THEN After(j) ELSE jobs[j]]
    BY DEF BeginRestore
  <1>2. conversations' = [c \in Conversations |->
            IF \E j \in JobsOf(jobs', c) : jobs'[j].state = "needs_reconciliation"
            THEN Held(c) ELSE conversations[c]]
    BY <1>1 DEF BeginRestore
  <1>3. /\ runtime.epoch < MaxEpoch
        /\ runtime' = [epoch |-> runtime.epoch + 1, enabled |-> FALSE]
        /\ quarantined' = {j \in JobIds : jobs[j].state # "none"}
        /\ checks' = [x \in Checks |-> "open"]
        /\ wake' = {}
        /\ UNCHANGED <<owners, effects, messages, reviewed>>
    BY DEF BeginRestore
  <1>4. attempts' = [j \in JobIds |-> [f \in 1 .. MaxAttempts |->
            IF attempts[j][f] = "open" THEN "needs_reconciliation" ELSE attempts[j][f]]]
    BY DEF BeginRestore
  <1>5. \A j \in JobIds :
            /\ After(j) \in Job /\ After(j).state = "needs_reconciliation"
            /\ After(j).conversation = jobs[j].conversation
            /\ After(j).generation = jobs[j].generation
            /\ After(j).order = jobs[j].order
    <2>1. "needs_reconciliation" \in JobStates
      BY DEF JobStates, ACTIVE
    <2>2. \A j \in JobIds : jobs[j] \in Job
      BY DEF IInv, TypeOK
    <2> QED BY <2>1, <2>2 DEF Job
  <1> HIDE DEF After
  <1>6. "needs_reconciliation" \notin Unfinished \cup {"none"}
        /\ "needs_reconciliation" \in ACTIVE /\ Unfinished \subseteq ACTIVE
        /\ Waiting \subseteq Unfinished /\ "running" \in Unfinished /\ "none" \notin Unfinished
    BY DEF Unfinished, Waiting, ACTIVE
  <1>7. \A j \in JobIds :
            /\ jobs'[j].conversation = jobs[j].conversation
            /\ jobs'[j].generation = jobs[j].generation
            /\ jobs'[j].order = jobs[j].order
            /\ jobs'[j].state \notin Unfinished
            /\ jobs'[j].state # "none" <=> jobs[j].state # "none"
            /\ jobs'[j].state \in Waiting \cup {"none"} => jobs'[j] = jobs[j]
    BY <1>1, <1>5, <1>6
  <1>8. conversations' \in [Conversations -> Conversation]
        /\ \A c \in Conversations :
              /\ conversations'[c].generation = conversations[c].generation
              /\ conversations'[c].next_job_order = conversations[c].next_job_order
    <2>1. \A c \in Conversations : conversations[c] \in Conversation
      BY DEF IInv, TypeOK
    <2>2. \A c \in Conversations :
              /\ Held(c) \in Conversation /\ Held(c).reconciliation_hold
              /\ Held(c).generation = conversations[c].generation
              /\ Held(c).next_job_order = conversations[c].next_job_order
      BY <2>1 DEF Conversation
    <2> HIDE DEF Held
    <2> QED BY <2>1, <2>2, <1>2
  <1>9. TypeOK'
    <2>1. jobs' \in [JobIds -> Job]
      BY <1>1, <1>5 DEF IInv, TypeOK
    <2>2. attempts' \in [JobIds -> [1 .. MaxAttempts -> AttemptStates]]
      <3>1. "needs_reconciliation" \in AttemptStates
        BY StateSets
      <3>2. \A j \in JobIds, f \in 1 .. MaxAttempts : attempts[j][f] \in AttemptStates
        BY DEF IInv, TypeOK
      <3> QED BY <3>1, <3>2, <1>4
    <2>3. runtime' \in [epoch : 1 .. MaxEpoch, enabled : BOOLEAN]
      BY <1>3 DEF IInv, TypeOK
    <2> QED BY <2>1, <2>2, <2>3, <1>3, <1>8 DEF IInv, TypeOK
  <1>10. RowsOK'
    BY <1>7, <1>8 DEF IInv, RowsOK, ConversationOf
  <1>11. OrdersUnique'
    BY <1>7 DEF IInv, OrdersUnique
  <1>12. NoStaleWork' /\ TurnsInOrder'
    BY <1>6, <1>7 DEF NoStaleWork, TurnsInOrder
  <1>13. EffectsOK'
    BY <1>3, <1>7 DEF IInv, EffectsOK
  <1>14. HoldMatchesReviews'
    <2>1. SUFFICES ASSUME NEW c \in Conversations
                   PROVE  conversations'[c].reconciliation_hold
                            <=> \E j \in JobsOf(jobs', c) : jobs'[j].state = "needs_reconciliation"
      BY DEF HoldMatchesReviews
    <2>2. CASE \E j \in JobsOf(jobs', c) : jobs'[j].state = "needs_reconciliation"
      BY <2>2, <1>2 DEF IInv, TypeOK, Conversation
    <2>3. CASE ~\E j \in JobsOf(jobs', c) : jobs'[j].state = "needs_reconciliation"
      <3>1. conversations'[c] = conversations[c]
        BY <2>3, <1>2
      <3>2. ~\E j \in JobIds : jobs[j].state = "needs_reconciliation"
                                /\ jobs[j].conversation = c
        BY <2>3, <1>1, <1>6 DEF JobsOf
      <3> QED BY <2>3, <3>1, <3>2 DEF IInv, HoldMatchesReviews, JobsOf
    <2> QED BY <2>2, <2>3
  <1>15. HeldIsIdle'
    BY <1>6, <1>7 DEF HeldIsIdle, Running, JobsOf
  <1> QED
    BY <1>9, <1>10, <1>11, <1>12, <1>13, <1>14, <1>15 DEF IInv

-----------------------------------------------------------------------------
(* The invariant of the specification *)

\* The invariant holds of empty tables.
LEMMA InitIInv ==
    Init => IInv
  <1> SUFFICES ASSUME Init PROVE IInv
    OBVIOUS
  <1>1. /\ runtime \in [epoch : {1}, enabled : BOOLEAN]
        /\ owners = [u \in Owners |-> TRUE]
        /\ conversations = [c \in Conversations |->
              [generation |-> 1, next_message_seq |-> 1, next_job_order |-> 1,
               reconciliation_hold |-> FALSE]]
        /\ jobs = [j \in JobIds |-> NoJob]
        /\ attempts = [j \in JobIds |-> [f \in 1 .. MaxAttempts |-> "none"]]
        /\ effects = [o \in Ops |-> NoEffect]
        /\ messages = {} /\ checks = [x \in Checks |-> "absent"]
        /\ quarantined = {} /\ reviewed = {} /\ wake = {}
    BY DEF Init
  <1>2. \A j \in JobIds : jobs[j].state = "none"
    BY <1>1 DEF NoJob
  <1>3. \A c \in Conversations : conversations[c].reconciliation_hold = FALSE
    BY <1>1
  <1>4. TypeOK
    <2>1. jobs \in [JobIds -> Job]
      BY <1>1 DEF NoJob, Job, JobStates
    <2>2. conversations \in [Conversations -> Conversation]
      BY <1>1 DEF Conversation
    <2>3. attempts \in [JobIds -> [1 .. MaxAttempts -> AttemptStates]]
      BY <1>1 DEF AttemptStates
    <2>4. effects \in [Ops -> Effect]
      BY <1>1 DEF NoEffect, Effect, EffectStates
    <2>5. runtime \in [epoch : 1 .. MaxEpoch, enabled : BOOLEAN]
      BY <1>1
    <2> QED BY <2>1, <2>2, <2>3, <2>4, <2>5, <1>1 DEF TypeOK
  <1>5. RowsOK /\ OrdersUnique
    BY <1>2 DEF RowsOK, OrdersUnique
  <1>6. NoStaleWork /\ TurnsInOrder
    BY <1>2 DEF NoStaleWork, TurnsInOrder, Unfinished, Waiting
  <1>7. EffectsOK
    BY <1>1 DEF EffectsOK, NoEffect
  <1>8. HoldMatchesReviews /\ HeldIsIdle
    BY <1>2, <1>3 DEF HoldMatchesReviews, HeldIsIdle, JobsOf
  <1> QED BY <1>4, <1>5, <1>6, <1>7, <1>8 DEF IInv

\* It is about the variables only.
LEMMA StutterKeepsIInv ==
    ASSUME IInv, UNCHANGED vars PROVE IInv'
  <1>1. TypeOK' /\ EffectsOK' /\ jobs' = jobs /\ conversations' = conversations
        /\ runtime' = runtime
    BY DEF vars, IInv, TypeOK, EffectsOK
  <1> QED BY <1>1, UnchangedRows

\* Every step of a worker keeps it.
LEMMA AttemptingKeepsIInv ==
    ASSUME IInv, NEW j \in JobIds, NEW f \in 1 .. MaxAttempts, Attempting(j, f)
    PROVE  IInv'
  <1>1. CASE Finish(j, f)
    BY <1>1, FinishKeepsIInv
  <1>2. CASE \E retryable \in BOOLEAN : Fail(j, f, retryable)
    BY <1>2, FailKeepsIInv
  <1>3. CASE \E o \in Ops : Prepare(j, f, o)
    BY <1>3, PrepareKeepsIInv
  <1>4. CASE \E o \in Ops, outcome \in Outcomes : Record(j, f, o, outcome)
    BY <1>4, RecordKeepsIInv
  <1> QED BY <1>1, <1>2, <1>3, <1>4 DEF Attempting

\* The strengthened invariant is inductive: one step per disjunct of Next.
LEMMA NextKeepsIInv ==
    ASSUME IInv, [Next]_vars PROVE IInv'
  <1>1. CASE \E c \in Conversations, k \in Keys : Accept(c, k)
    BY <1>1, AcceptKeepsIInv
  <1>2. CASE \E c \in Conversations, o \in Origins : Notice(c, o)
    BY <1>2, NoticeKeepsIInv
  <1>3. CASE \E c \in Conversations : Reset(c)
    BY <1>3, ResetKeepsIInv
  <1>4. CASE \E j \in JobIds : Cancel(j)
    BY <1>4, CancelKeepsIInv
  <1>5. CASE \E j \in JobIds, d \in {"succeeded", "cancelled"} : Reconcile(j, d)
    BY <1>5, ReconcileKeepsIInv
  <1>6. CASE \E j \in JobIds : Claim(j) \/ RefuseClaim(j)
    BY <1>6, ClaimKeepsIInv, RefuseClaimKeepsIInv
  <1>7. CASE \E j \in JobIds, f \in 1 .. MaxAttempts : Attempting(j, f)
    BY <1>7, AttemptingKeepsIInv
  <1>8. CASE \E j \in JobIds : Sweep(j) \/ Redispatch(j) \/ Poison(j)
    BY <1>8, SweepKeepsIInv, RedispatchKeepsIInv, PoisonKeepsIInv
  <1>9. CASE BeginRestore
    BY <1>9, BeginRestoreKeepsIInv
  <1>10. CASE \/ \E x \in Checks : ReviewCheck(x)
              \/ ResumeAfterReview
              \/ \E u \in Owners : DisableOwner(u)
    BY <1>10, OperatorKeepsIInv
  <1>11. CASE \E j \in JobIds : Passing(j)
    BY <1>11, PassingKeepsIInv
  <1>12. CASE UNCHANGED vars
    BY <1>12, StutterKeepsIInv
  <1> QED
    BY <1>1, <1>2, <1>3, <1>4, <1>5, <1>6, <1>7, <1>8, <1>9, <1>10, <1>11, <1>12
       DEF Next

\* The strengthened invariant holds of every behaviour of the durable-work core,
\* whatever the interleaving of requests, workers, scheduler and operator.
THEOREM Invariance == Spec => []IInv
  <1>1. Init => IInv
    BY InitIInv
  <1>2. IInv /\ [Next]_vars => IInv'
    BY NextKeepsIInv
  <1> QED BY <1>1, <1>2, PTL DEF Spec

\* Every table keeps its type: no handler writes a state, counter or reference
\* the schema of cloud/migrations does not know.
THEOREM TypeCorrect == Spec => []TypeOK
  <1>1. IInv => TypeOK
    BY DEF IInv
  <1> QED BY <1>1, Invariance, PTL

\* Work of an older generation or epoch never waits or runs (Control.reset,
\* Recovery.begin_restore and every transition in between).
THEOREM StaleWorkIsSettled == Spec => []NoStaleWork
  <1>1. IInv => NoStaleWork
    BY DEF IInv
  <1> QED BY <1>1, Invariance, PTL

\* A conversation is held exactly while one of its jobs awaits review, and no
\* job of it runs meanwhile (transition, reset, begin_restore, reconcile).
THEOREM HoldIsExact == Spec => [](HoldMatchesReviews /\ HeldIsIdle)
  <1>1. IInv => HoldMatchesReviews /\ HeldIsIdle
    BY DEF IInv
  <1> QED BY <1>1, Invariance, PTL

\* A job that announced an effect never waits for another attempt
\* (Effects.prepare against the retries of Leases.fail and Recovery.sweep).
THEOREM IntentStopsRetries == Spec => []IntentIsNotRetried
  <1>1. IInv => IntentIsNotRetried
    BY DEF IInv, EffectsOK, IntentIsNotRetried
  <1> QED BY <1>1, Invariance, PTL

\* A running job is the only one of its conversation, of the current
\* generation, and has no unsettled turn before it (Leases.claim).
THEOREM TurnsAreExclusive == Spec => []ExclusiveTurn
  <1>1. IInv => ExclusiveTurn
    <2>1. SUFFICES ASSUME IInv, NEW c \in Conversations, NEW j \in Running(c)
                   PROVE  /\ Running(c) = {j}
                          /\ jobs[j].generation = conversations[c].generation
                          /\ ~EarlierActive(j)
      BY DEF ExclusiveTurn
    <2>2. j \in JobIds /\ jobs[j].state = "running" /\ jobs[j].conversation = c
      BY DEF Running, JobsOf
    <2>3. \A k \in Running(c) : k = j
      BY <2>1, <2>2, OneRuns DEF Running, JobsOf, IInv
    <2>4. jobs[j].generation = conversations[c].generation
      BY <2>1, <2>2 DEF IInv, NoStaleWork, Unfinished, ConversationOf
    <2>5. ~EarlierActive(j)
      BY <2>1, <2>2 DEF IInv, TurnsInOrder
    <2> QED BY <2>3, <2>4, <2>5
  <1> QED BY <1>1, Invariance, PTL

\* "At most one currently authorized attempt per conversation" (the fence and
\* state checks of leases.authorized), however many claims are still held.
THEOREM AuthorityIsUnique == Spec => []OneAuthorizedAttempt
  <1>1. IInv => OneAuthorizedAttempt
    <2>1. SUFFICES ASSUME IInv, NEW j \in JobIds, NEW k \in JobIds,
                          NEW f \in 1 .. MaxAttempts, NEW g \in 1 .. MaxAttempts,
                          Authorized(j, f), Authorized(k, g),
                          jobs[j].conversation = jobs[k].conversation
                   PROVE  j = k /\ f = g
      BY DEF OneAuthorizedAttempt
    <2>2. jobs[j].state = "running" /\ jobs[k].state = "running"
      BY <2>1, AuthorizedRuns
    <2>3. j = k
      BY <2>1, <2>2, OneRuns DEF IInv
    <2>4. f = jobs[j].fence /\ g = jobs[k].fence
      BY <2>1 DEF Authorized
    <2> QED BY <2>3, <2>4
  <1> QED BY <1>1, Invariance, PTL

-----------------------------------------------------------------------------
(* What kinds of steps there are: the properties of steps and the messages *)
(* need no more of an action than its kind                                 *)

\* The transaction writes no message.
MessagesKept ==
    /\ messages' = messages
    /\ \A c \in Conversations :
          conversations'[c].next_message_seq = conversations[c].next_message_seq

\* The transaction appends one message to conversation c, if it is not there yet.
Adds(c, role, origin) ==
    LET post == AppendTo(conversations[c], c, role, origin)
    IN  /\ messages' = post.rows
        /\ \A d \in Conversations :
              conversations'[d].next_message_seq
                 = (IF d = c THEN post.conversation ELSE conversations[d]).next_message_seq

\* transition settles job j as s.
Settles(j, s) ==
    /\ jobs[j].state \in Unfinished
    /\ s \in Targets
    /\ SettlesTo(j, s)
    /\ wake' = IF s = "retry_pending" THEN {j}
               ELSE WakeNext(jobs', conversations', jobs[j].conversation)
    /\ s = "retry_pending" => ~jobs'[j].due
    /\ UNCHANGED <<runtime, owners, reviewed>>
    /\ \/ MessagesKept
       \/ jobs[j].state = "running" /\ s = "succeeded"
          /\ Adds(jobs[j].conversation, "assistant", j)

\* No job changes its place or its state.
KeepsPlaces ==
    /\ \A k \in JobIds :
          /\ jobs'[k].state = jobs[k].state
          /\ jobs'[k].conversation = jobs[k].conversation
          /\ jobs'[k].generation = jobs[k].generation
          /\ jobs'[k].order = jobs[k].order
          /\ jobs'[k].epoch = jobs[k].epoch
          /\ jobs'[k].cancel = jobs[k].cancel
    /\ \A c \in Conversations :
          /\ conversations'[c].generation = conversations[c].generation
          /\ conversations'[c].reconciliation_hold = conversations[c].reconciliation_hold
    /\ reviewed' = reviewed

\* Nor does the service get more ready to run any.
Calm ==
    /\ KeepsPlaces
    /\ \A k \in JobIds : jobs[k].due => jobs'[k].due
    /\ runtime'.epoch = runtime.epoch
    /\ runtime.enabled => runtime' = runtime
    /\ \A u \in Owners : owners'[u] => owners[u]
    /\ MessagesKept \/ \E c \in Conversations, o \in Origins : Adds(c, "notice", o)

\* What transition sends a wake-up for, and what it leaves of the message counter.
LEMMA TransitionWakes ==
    ASSUME IInv, NEW j \in JobIds, jobs[j].state # "none",
           NEW target \in Targets, NEW row, SameRow(j, row, target),
           NEW crow, SameConversation(jobs[j].conversation, crow),
           Transition(j, row, crow, target)
    PROVE  LET s == Settled(j, target)
               c == jobs[j].conversation
           IN  /\ wake' = IF s = "retry_pending" THEN {j}
                          ELSE WakeNext(jobs', conversations', c)
               /\ s = "retry_pending" => ~jobs'[j].due
               /\ \A d \in Conversations : conversations'[d].next_message_seq
                     = (IF d = c THEN crow ELSE conversations[d]).next_message_seq
  <1> DEFINE c == jobs[j].conversation
             s == Settled(j, target)
             r == JobAfter(j, row, target)
             h == HoldAfter(crow, s)
  <1>1. jobs[j] \in Job /\ c \in Conversations /\ jobs \in [JobIds -> Job]
        /\ conversations \in [Conversations -> Conversation] /\ crow \in Conversation
    BY DEF IInv, TypeOK, RowsOK, SameConversation
  <1>2. row \in Job
    BY <1>1 DEF SameRow, Job
  <1>3. r.due = (s # "retry_pending")
    BY <1>2 DEF JobAfter, Job
  <1>4. h.next_message_seq = crow.next_message_seq
    BY <1>1 DEF HoldAfter, Conversation
  <1>5. /\ jobs' = [jobs EXCEPT ![j] = r]
        /\ conversations' = [conversations EXCEPT ![c] = h]
        /\ wake' = IF s = "retry_pending" THEN {j} ELSE WakeNext(jobs', conversations', c)
    BY DEF Transition
  <1> HIDE DEF r, h, c, s
  <1>6. jobs'[j] = r /\ \A d \in Conversations : conversations'[d] = IF d = c THEN h ELSE conversations[d]
    BY <1>1, <1>5
  <1>7. \A d \in Conversations : conversations'[d].next_message_seq
                     = (IF d = c THEN crow ELSE conversations[d]).next_message_seq
    BY <1>4, <1>6
  <1> QED BY <1>3, <1>5, <1>6, <1>7 DEF c, s

\* A call of transition that writes no message settles its job.
LEMMA TransitionIsSettling ==
    ASSUME IInv, NEW j \in JobIds, jobs[j].state \in Unfinished,
           NEW target \in Targets, NEW row, SameRow(j, row, target),
           Transition(j, row, ConversationOf(j), target),
           UNCHANGED <<runtime, owners, messages, reviewed>>
    PROVE  Settles(j, Settled(j, target))
  <1>1. jobs[j].state # "none"
    BY DEF Unfinished, Waiting
  <1>2. SameConversation(jobs[j].conversation, ConversationOf(j))
    BY <1>1, OwnConversation
  <1>3. SettlesTo(j, Settled(j, target))
    BY <1>1, <1>2, TransitionSettles DEF IInv
  <1>4. Settled(j, target) \in Targets
    BY SettledInTargets
  <1>5. /\ wake' = IF Settled(j, target) = "retry_pending" THEN {j}
                   ELSE WakeNext(jobs', conversations', jobs[j].conversation)
        /\ Settled(j, target) = "retry_pending" => ~jobs'[j].due
        /\ \A d \in Conversations : conversations'[d].next_message_seq
              = (IF d = jobs[j].conversation THEN ConversationOf(j)
                 ELSE conversations[d]).next_message_seq
    BY <1>1, <1>2, TransitionWakes
  <1>6. MessagesKept
    BY <1>5 DEF MessagesKept, ConversationOf
  <1> QED BY <1>3, <1>4, <1>5, <1>6 DEF Settles

\* Every step that ends an attempt or a job settles one, or changes no place.
LEMMA CancelIsSettling ==
    ASSUME IInv, NEW j \in JobIds, Cancel(j)
    PROVE  \E k \in JobIds, s \in Targets : Settles(k, s)
  <1>1. /\ jobs[j].state \in Unfinished /\ "cancelled" \in Targets
        /\ SameRow(j, [jobs[j] EXCEPT !.cancel = TRUE], "cancelled")
        /\ Transition(j, [jobs[j] EXCEPT !.cancel = TRUE], ConversationOf(j), "cancelled")
        /\ UNCHANGED <<runtime, owners, messages, reviewed>>
    BY KeptRow DEF Cancel, Targets, Final
  <1> QED BY <1>1, TransitionIsSettling, SettledInTargets

\* A refused claim settles its job.
LEMMA RefuseClaimIsSettling ==
    ASSUME IInv, NEW j \in JobIds, RefuseClaim(j)
    PROVE  \E k \in JobIds, s \in Targets : Settles(k, s)
  <1>1. /\ jobs[j].state \in Unfinished
        /\ SameRow(j, jobs[j], ClaimVerdict(j))
        /\ Transition(j, jobs[j], ConversationOf(j), ClaimVerdict(j))
        /\ UNCHANGED <<runtime, owners, messages, reviewed>>
    BY KeptRow DEF RefuseClaim, Unfinished
  <1>2. ClaimVerdict(j) \in Targets
    BY DEF RefuseClaim, ClaimVerdict, Targets, Final
  <1> QED BY <1>1, <1>2, TransitionIsSettling, SettledInTargets

\* Leases.fail settles its job.
LEMMA FailIsSettling ==
    ASSUME IInv, NEW j \in JobIds, NEW f \in 1 .. MaxAttempts, NEW retryable \in BOOLEAN,
           Fail(j, f, retryable)
    PROVE  \E k \in JobIds, s \in Targets : Settles(k, s)
  <1>1. /\ jobs[j].state \in Unfinished
        /\ SameRow(j, jobs[j], RetryOrFail(j, retryable))
        /\ Transition(j, jobs[j], ConversationOf(j), RetryOrFail(j, retryable))
        /\ UNCHANGED <<runtime, owners, messages, reviewed>>
    BY KeptRow, AuthorizedRuns DEF Fail
  <1> QED BY <1>1, RetryOrFailInTargets, TransitionIsSettling, SettledInTargets

\* A candidate of the sweep is settled.
LEMMA SweepIsSettling ==
    ASSUME IInv, NEW j \in JobIds, Sweep(j)
    PROVE  \E k \in JobIds, s \in Targets : Settles(k, s)
  <1>1. /\ jobs[j].state \in Unfinished
        /\ SameRow(j, jobs[j], SweepVerdict(j))
        /\ Transition(j, jobs[j], ConversationOf(j), SweepVerdict(j))
        /\ UNCHANGED <<runtime, owners, messages, reviewed>>
    BY KeptRow DEF Sweep
  <1>2. SweepVerdict(j) \in Targets
    BY RetryOrFailInTargets DEF Sweep, SweepVerdict, Targets, Final
  <1> QED BY <1>1, <1>2, TransitionIsSettling, SettledInTargets

\* Leases.finish settles its job, with the reply or without it.
LEMMA FinishIsSettling ==
    ASSUME IInv, NEW j \in JobIds, NEW f \in 1 .. MaxAttempts, Finish(j, f)
    PROVE  \E k \in JobIds, s \in Targets : Settles(k, s)
  <1>1. /\ jobs[j].state = "running" /\ jobs[j].state \in Unfinished /\ jobs[j].state # "none"
        /\ "succeeded" \in Targets /\ "needs_reconciliation" \in Targets
        /\ UNCHANGED <<runtime, owners, reviewed>>
    BY AuthorizedRuns DEF Finish, Targets, Final
  <1>2. CASE HasUnresolved(j)
    <2>1. /\ Transition(j, jobs[j], ConversationOf(j), "needs_reconciliation")
          /\ UNCHANGED <<runtime, owners, messages, reviewed>>
          /\ SameRow(j, jobs[j], "needs_reconciliation")
      BY <1>1, <1>2, KeptRow DEF Finish
    <2> QED BY <1>1, <2>1, TransitionIsSettling, SettledInTargets
  <1>3. CASE ~HasUnresolved(j)
    <2> DEFINE c == jobs[j].conversation
               post == AppendTo(conversations[c], c, "assistant", j)
    <2>1. messages' = post.rows /\ Transition(j, jobs[j], post.conversation, "succeeded")
      BY <1>3 DEF Finish, ConversationOf
    <2>2. /\ c \in Conversations /\ conversations[c] \in Conversation
          /\ SameConversation(c, conversations[c])
      BY <1>1, OwnConversation DEF ConversationOf
    <2>3. "assistant" \in Roles /\ j \in JobIds \cup Origins /\ messages \in SUBSET Message
      BY DEF Roles, IInv, TypeOK
    <2>4. /\ post.conversation \in Conversation
          /\ post.conversation.generation = conversations[c].generation
          /\ post.conversation.next_job_order = conversations[c].next_job_order
          /\ post.conversation.reconciliation_hold = conversations[c].reconciliation_hold
      BY <2>2, <2>3, AppendType
    <2>5. SameConversation(c, post.conversation)
      BY <2>2, <2>4 DEF SameConversation
    <2>6. Settled(j, "succeeded") = "succeeded" /\ SameRow(j, jobs[j], "succeeded")
      BY KeptRow DEF Settled
    <2>7. /\ wake' = WakeNext(jobs', conversations', c)
          /\ \A d \in Conversations : conversations'[d].next_message_seq
                = (IF d = c THEN post.conversation ELSE conversations[d]).next_message_seq
      <3> HIDE DEF post
      <3> QED BY <1>1, <2>1, <2>5, <2>6, TransitionWakes
    <2>8. SettlesTo(j, "succeeded")
      <3> HIDE DEF post
      <3> QED BY <1>1, <2>1, <2>5, <2>6, TransitionSettles DEF IInv
    <2>9. Adds(c, "assistant", j)
      BY <2>1, <2>7 DEF Adds
    <2>10. Settles(j, "succeeded")
      BY <1>1, <2>7, <2>8, <2>9 DEF Settles
    <2> QED BY <1>1, <2>10
  <1> QED BY <1>2, <1>3

\* A transaction that leaves the rows alone is calm.
LEMMA SameRowsAreCalm ==
    ASSUME jobs' = jobs, conversations' = conversations, messages' = messages,
           reviewed' = reviewed, runtime' = runtime, owners' = owners
    PROVE  Calm
  BY DEF Calm, KeepsPlaces, MessagesKept

\* Evidence that needs a review settles the job.
LEMMA RecordKind ==
    ASSUME IInv, NEW j \in JobIds, NEW f \in 1 .. MaxAttempts, NEW o \in Ops,
           NEW outcome \in Outcomes, Record(j, f, o, outcome)
    PROVE  Calm \/ \E k \in JobIds, s \in Targets : Settles(k, s)
  <1>1. UNCHANGED <<runtime, owners, messages, reviewed>>
    BY DEF Record
  <1>2. CASE outcome = "uncertain" /\ Authorized(j, f)
    <2>1. /\ Transition(j, jobs[j], ConversationOf(j), "needs_reconciliation")
          /\ jobs[j].state \in Unfinished /\ "needs_reconciliation" \in Targets
          /\ SameRow(j, jobs[j], "needs_reconciliation")
      BY <1>2, AuthorizedRuns, KeptRow DEF Record, Targets
    <2> QED BY <1>1, <2>1, TransitionIsSettling, SettledInTargets
  <1>3. CASE ~(outcome = "uncertain" /\ Authorized(j, f))
    BY <1>1, <1>3, SameRowsAreCalm DEF Record
  <1> QED BY <1>2, <1>3

\* A quarantined job is failed, not dispatched again.
LEMMA RedispatchKind ==
    ASSUME IInv, NEW j \in JobIds, Redispatch(j)
    PROVE  Calm \/ \E k \in JobIds, s \in Targets : Settles(k, s)
  <1>1. UNCHANGED <<runtime, owners, messages, reviewed>>
    BY DEF Redispatch
  <1>2. CASE j \in quarantined
    <2>1. /\ Transition(j, jobs[j], ConversationOf(j), "failed")
          /\ jobs[j].state \in Unfinished /\ "failed" \in Targets
          /\ SameRow(j, jobs[j], "failed")
      BY <1>2, KeptRow DEF Redispatch, Targets, Final, Unfinished
    <2> QED BY <1>1, <2>1, TransitionIsSettling, SettledInTargets
  <1>3. CASE j \notin quarantined
    BY <1>1, <1>3, SameRowsAreCalm DEF Redispatch
  <1> QED BY <1>2, <1>3

\* A job whose envelope is unusable is failed if it waits.
LEMMA PoisonKind ==
    ASSUME IInv, NEW j \in JobIds, Poison(j)
    PROVE  Calm \/ \E k \in JobIds, s \in Targets : Settles(k, s)
  <1>1. UNCHANGED <<runtime, owners, messages, reviewed>>
    BY DEF Poison
  <1>2. CASE jobs[j].state \in Waiting
    <2>1. /\ Transition(j, jobs[j], ConversationOf(j), "failed")
          /\ jobs[j].state \in Unfinished /\ "failed" \in Targets
          /\ SameRow(j, jobs[j], "failed")
      BY <1>2, KeptRow DEF Poison, Targets, Final, Unfinished
    <2> QED BY <1>1, <2>1, TransitionIsSettling, SettledInTargets
  <1>3. CASE jobs[j].state \notin Waiting
    BY <1>1, <1>3, SameRowsAreCalm DEF Poison
  <1> QED BY <1>2, <1>3

\* A notice only adds a message.
LEMMA NoticeIsCalm ==
    ASSUME IInv, NEW c \in Conversations, NEW o \in Origins, Notice(c, o)
    PROVE  Calm
  <1> DEFINE post == AppendTo(conversations[c], c, "notice", o)
  <1>1. /\ messages' = post.rows
        /\ conversations' = [conversations EXCEPT ![c] = post.conversation]
        /\ UNCHANGED <<runtime, owners, jobs, reviewed>>
    BY DEF Notice
  <1>2. /\ conversations \in [Conversations -> Conversation]
        /\ conversations[c] \in Conversation /\ messages \in SUBSET Message
        /\ "notice" \in Roles /\ o \in JobIds \cup Origins
    BY DEF IInv, TypeOK, Roles
  <1>3. /\ post.conversation.generation = conversations[c].generation
        /\ post.conversation.reconciliation_hold = conversations[c].reconciliation_hold
    BY <1>2, AppendType
  <1>4. Adds(c, "notice", o)
    <2>1. messages' = post.rows
      BY <1>1
    <2>2. \A d \in Conversations : conversations'[d].next_message_seq
                 = (IF d = c THEN post.conversation ELSE conversations[d]).next_message_seq
      <3> HIDE DEF post
      <3> QED BY <1>1, <1>2
    <2> QED BY <2>1, <2>2 DEF Adds
  <1>5. KeepsPlaces
    <2> HIDE DEF post
    <2> QED BY <1>1, <1>2, <1>3 DEF KeepsPlaces
  <1> QED BY <1>1, <1>4, <1>5 DEF Calm

\* Time moves no job to another place.
LEMMA PassingIsCalm ==
    ASSUME IInv, NEW j \in JobIds, Passing(j) PROVE Calm
  <1>1. PICK over \in BOOLEAN, late \in BOOLEAN, lapsed \in BOOLEAN, ready \in BOOLEAN :
            TimePasses(j, over, late, lapsed, ready)
    BY DEF Passing
  <1> DEFINE row == Later(jobs[j], over, late, lapsed, ready)
  <1>2. jobs[j] \in Job /\ jobs \in [JobIds -> Job]
    BY DEF IInv, TypeOK
  <1>3. /\ row.state = jobs[j].state /\ row.conversation = jobs[j].conversation
        /\ row.generation = jobs[j].generation /\ row.order = jobs[j].order
        /\ row.epoch = jobs[j].epoch /\ row.cancel = jobs[j].cancel
        /\ (jobs[j].due => row.due)
    BY <1>2 DEF Later, Job
  <1>4. jobs' = [jobs EXCEPT ![j] = row]
        /\ UNCHANGED <<runtime, owners, conversations, messages, reviewed>>
    BY <1>1 DEF TimePasses
  <1> HIDE DEF row
  <1>5. jobs'[j] = row /\ \A k \in JobIds : k # j => jobs'[k] = jobs[k]
    BY <1>2, <1>4
  <1> QED BY <1>3, <1>4, <1>5 DEF Calm, KeepsPlaces, MessagesKept

\* The operator's steps outside a restore are calm.
LEMMA OperatorIsCalm ==
    ASSUME IInv,
           \/ \E x \in Checks : ReviewCheck(x)
           \/ ResumeAfterReview
           \/ \E u \in Owners : DisableOwner(u)
    PROVE  Calm
  <1>1. CASE \E x \in Checks : ReviewCheck(x)
    BY <1>1, SameRowsAreCalm DEF ReviewCheck
  <1>2. CASE ResumeAfterReview
    <2>1. /\ ~runtime.enabled /\ runtime'.epoch = runtime.epoch
          /\ UNCHANGED <<owners, jobs, conversations, messages, reviewed>>
      BY <1>2 DEF ResumeAfterReview, IInv, TypeOK
    <2> QED BY <2>1 DEF Calm, KeepsPlaces, MessagesKept
  <1>3. CASE \E u \in Owners : DisableOwner(u)
    <2>1. PICK u \in Owners : DisableOwner(u)
      BY <1>3
    <2>2. /\ owners' = [owners EXCEPT ![u] = FALSE]
          /\ UNCHANGED <<runtime, jobs, conversations, messages, reviewed>>
      BY <2>1 DEF DisableOwner
    <2>3. \A v \in Owners : owners'[v] => owners[v]
      BY <2>2, Zenon DEF IInv, TypeOK
    <2> QED BY <2>2, <2>3 DEF Calm, KeepsPlaces, MessagesKept
  <1> QED BY <1>1, <1>2, <1>3

\* An announced effect, or nothing at all, is calm.
LEMMA PrepareIsCalm ==
    ASSUME NEW j, NEW f, NEW o, Prepare(j, f, o) \/ UNCHANGED vars
    PROVE  Calm
  BY SameRowsAreCalm DEF Prepare, vars

\* Every step is of one of these kinds.
LEMMA StepKinds ==
    ASSUME IInv, [Next]_vars
    PROVE  \/ Calm
           \/ \E k \in JobIds, s \in Targets : Settles(k, s)
           \/ \E c \in Conversations, k \in Keys : Accept(c, k)
           \/ \E c \in Conversations : Reset(c)
           \/ \E j \in JobIds, d \in {"succeeded", "cancelled"} : Reconcile(j, d)
           \/ \E j \in JobIds : Claim(j)
           \/ BeginRestore
  <1>1. CASE UNCHANGED vars
    BY <1>1, PrepareIsCalm
  <1>2. CASE \E c \in Conversations, o \in Origins : Notice(c, o)
    BY <1>2, NoticeIsCalm
  <1>3. CASE \E j \in JobIds : Cancel(j) \/ RefuseClaim(j) \/ Sweep(j)
    BY <1>3, CancelIsSettling, RefuseClaimIsSettling, SweepIsSettling
  <1>4. CASE \E j \in JobIds, f \in 1 .. MaxAttempts : Attempting(j, f)
    BY <1>4, FinishIsSettling, FailIsSettling, RecordKind, PrepareIsCalm DEF Attempting
  <1>5. CASE \E j \in JobIds : Redispatch(j) \/ Poison(j) \/ Passing(j)
    BY <1>5, RedispatchKind, PoisonKind, PassingIsCalm
  <1>6. CASE (\E x \in Checks : ReviewCheck(x)) \/ ResumeAfterReview
             \/ (\E u \in Owners : DisableOwner(u))
    BY <1>6, OperatorIsCalm
  <1> QED BY <1>1, <1>2, <1>3, <1>4, <1>5, <1>6, Zenon DEF Next

-----------------------------------------------------------------------------
(* What the other kinds of steps do to the rows *)

PlaceKept(k) ==
    /\ jobs'[k].conversation = jobs[k].conversation
    /\ jobs'[k].generation = jobs[k].generation
    /\ jobs'[k].order = jobs[k].order

Accepts(c, j) ==
    /\ HasRoom(c)
    /\ jobs[j].state = "none" /\ jobs'[j].state = "queued"
    /\ jobs'[j].conversation = c
    /\ jobs'[j].generation = conversations[c].generation
    /\ jobs'[j].order = conversations[c].next_job_order
    /\ \A k \in JobIds : k # j => jobs'[k] = jobs[k]
    /\ \A d \in Conversations :
          /\ conversations'[d].generation = conversations[d].generation
          /\ conversations'[d].reconciliation_hold = conversations[d].reconciliation_hold
    /\ wake' = {j}
    /\ UNCHANGED <<runtime, owners, reviewed>>
    /\ Adds(c, "user", j)

Claims(j) ==
    /\ jobs[j].state \in Waiting /\ jobs'[j].state = "running" /\ PlaceKept(j)
    /\ ~EarlierActive(j)
    /\ \A k \in JobIds : k # j => jobs'[k] = jobs[k]
    /\ UNCHANGED <<runtime, owners, conversations, messages, reviewed>>

Resets(c) ==
    /\ \A k \in JobIds :
          /\ PlaceKept(k)
          /\ IF jobs[k].state \in Unfinished /\ jobs[k].conversation = c
             THEN jobs'[k].state \in {"cancelled", "needs_reconciliation"}
             ELSE jobs'[k] = jobs[k]
    /\ conversations'[c].generation = conversations[c].generation + 1
    /\ \A d \in Conversations : d # c => conversations'[d] = conversations[d]
    /\ UNCHANGED <<runtime, owners, messages, reviewed>>

\* The conversation is released when no other job of it is in review.
Reconciles(j, decision) ==
    LET c == jobs[j].conversation
        outstanding == \E k \in JobIds : /\ jobs'[k].state = "needs_reconciliation"
                                         /\ jobs'[k].conversation = c
    IN  /\ jobs[j].state = "needs_reconciliation" /\ jobs'[j].state = decision /\ PlaceKept(j)
        /\ \A k \in JobIds : k # j => jobs'[k] = jobs[k]
        /\ \A d \in Conversations : conversations'[d].generation = conversations[d].generation
        /\ \A d \in Conversations :
              d # c \/ outstanding => conversations'[d] = conversations[d]
        /\ ~outstanding => wake' = WakeNext(jobs', conversations', c)
        /\ reviewed' = reviewed \cup {j}
        /\ UNCHANGED <<runtime, owners>>
        /\ MessagesKept

Restores ==
    /\ \A k \in JobIds :
          /\ PlaceKept(k)
          /\ IF jobs[k].state \in Unfinished
             THEN jobs'[k].state = "needs_reconciliation" ELSE jobs'[k] = jobs[k]
    /\ \A c \in Conversations : conversations'[c].generation = conversations[c].generation
    /\ ~runtime'.enabled
    /\ reviewed' = reviewed
    /\ MessagesKept

\* Work.accept adds one job at the end of its conversation and its message.
LEMMA AcceptShape ==
    ASSUME IInv, NEW c \in Conversations, NEW key \in Keys, Accept(c, key)
    PROVE  \E j \in JobIds : Accepts(c, j)
  <1>1. PICK j \in JobIds :
          LET post == AppendTo(conversations[c], c, "user", j)
          IN  /\ jobs[j].state = "none"
              /\ jobs' = [jobs EXCEPT ![j] =
                    [NoJob EXCEPT !.conversation = c,
                                  !.generation = conversations[c].generation,
                                  !.order = conversations[c].next_job_order,
                                  !.key = key, !.state = "queued",
                                  !.epoch = runtime.epoch]]
              /\ messages' = post.rows
              /\ conversations' = [conversations EXCEPT ![c] =
                    [post.conversation EXCEPT !.next_job_order = @ + 1]]
              /\ wake' = {j}
    BY DEF Accept
  <1>2. HasRoom(c) /\ UNCHANGED <<runtime, owners, reviewed>>
    BY DEF Accept
  <1> DEFINE post == AppendTo(conversations[c], c, "user", j)
             r == [NoJob EXCEPT !.conversation = c,
                                !.generation = conversations[c].generation,
                                !.order = conversations[c].next_job_order,
                                !.key = key, !.state = "queued",
                                !.epoch = runtime.epoch]
             h == [post.conversation EXCEPT !.next_job_order = @ + 1]
  <1>3. /\ jobs[j].state = "none" /\ jobs' = [jobs EXCEPT ![j] = r]
        /\ messages' = post.rows /\ conversations' = [conversations EXCEPT ![c] = h]
        /\ wake' = {j}
    BY <1>1
  <1>4. "user" \in Roles /\ j \in JobIds \cup Origins /\ messages \in SUBSET Message
        /\ conversations[c] \in Conversation
        /\ conversations \in [Conversations -> Conversation] /\ jobs \in [JobIds -> Job]
    BY DEF Roles, IInv, TypeOK
  <1>5. /\ post.conversation \in Conversation
        /\ post.conversation.generation = conversations[c].generation
        /\ post.conversation.reconciliation_hold = conversations[c].reconciliation_hold
    BY <1>4, AppendType
  <1>6. /\ h.generation = conversations[c].generation
        /\ h.reconciliation_hold = conversations[c].reconciliation_hold
        /\ h.next_message_seq = post.conversation.next_message_seq
    <2> HIDE DEF post
    <2> QED BY <1>5 DEF Conversation
  <1>7. /\ r.conversation = c /\ r.state = "queued"
        /\ r.generation = conversations[c].generation
        /\ r.order = conversations[c].next_job_order
    BY DEF NoJob
  <1> HIDE DEF r, h
  <1>8. jobs'[j] = r /\ \A k \in JobIds : k # j => jobs'[k] = jobs[k]
    BY <1>3, <1>4
  <1>9. \A d \in Conversations : conversations'[d] = IF d = c THEN h ELSE conversations[d]
    BY <1>3, <1>4
  <1>10. \A d \in Conversations :
            /\ conversations'[d].generation = conversations[d].generation
            /\ conversations'[d].reconciliation_hold = conversations[d].reconciliation_hold
            /\ conversations'[d].next_message_seq
                  = (IF d = c THEN post.conversation ELSE conversations[d]).next_message_seq
    <2> HIDE DEF post
    <2> QED BY <1>6, <1>9
  <1>11. Adds(c, "user", j)
    BY <1>3, <1>10 DEF Adds
  <1>12. Accepts(c, j)
    BY <1>2, <1>3, <1>7, <1>8, <1>10, <1>11 DEF Accepts
  <1> QED BY <1>12

\* Leases.claim starts one waiting job.
LEMMA ClaimShape ==
    ASSUME IInv, NEW j \in JobIds, Claim(j) PROVE Claims(j)
  <1> DEFINE r == Started(jobs[j])
  <1>1. /\ jobs[j].state \in Waiting /\ jobs' = [jobs EXCEPT ![j] = r] /\ ~EarlierActive(j)
        /\ UNCHANGED <<runtime, owners, conversations, messages, reviewed>>
    BY DEF Claim
  <1>2. jobs[j] \in Job /\ jobs \in [JobIds -> Job]
    BY DEF IInv, TypeOK
  <1>3. /\ r.state = "running" /\ r.conversation = jobs[j].conversation
        /\ r.generation = jobs[j].generation /\ r.order = jobs[j].order
    BY <1>2 DEF Started, Job
  <1> HIDE DEF r
  <1>4. jobs'[j] = r /\ \A k \in JobIds : k # j => jobs'[k] = jobs[k]
    BY <1>1, <1>2
  <1> QED BY <1>1, <1>3, <1>4 DEF Claims, PlaceKept

\* Control.reset ends the unfinished jobs of one conversation.
LEMMA ResetShape ==
    ASSUME IInv, NEW c \in Conversations, Reset(c) PROVE Resets(c)
  <1> DEFINE gone == UnfinishedJobs(c)
             After(j) == JobAfter(j, [jobs[j] EXCEPT !.cancel = TRUE], "cancelled")
             held == \E j \in gone : Settled(j, "cancelled") = "needs_reconciliation"
             row == [generation |-> conversations[c].generation + 1,
                     next_message_seq |-> 1, next_job_order |-> 1,
                     reconciliation_hold |-> conversations[c].reconciliation_hold \/ held]
  <1>1. /\ jobs' = [j \in JobIds |-> IF j \in gone THEN After(j) ELSE jobs[j]]
        /\ conversations' = [conversations EXCEPT ![c] = row]
        /\ UNCHANGED <<runtime, owners, messages, reviewed>>
    BY DEF Reset
  <1>2. \A j \in JobIds :
            j \in gone <=> jobs[j].state \in Unfinished /\ jobs[j].conversation = c
    BY DEF UnfinishedJobs, JobsOf, Unfinished, Waiting
  <1>3. \A j \in JobIds :
            /\ After(j).state = Settled(j, "cancelled")
            /\ After(j).conversation = jobs[j].conversation
            /\ After(j).generation = jobs[j].generation
            /\ After(j).order = jobs[j].order
    <2>1. SUFFICES ASSUME NEW j \in JobIds
                   PROVE  /\ After(j).state = Settled(j, "cancelled")
                          /\ After(j).conversation = jobs[j].conversation
                          /\ After(j).generation = jobs[j].generation
                          /\ After(j).order = jobs[j].order
      OBVIOUS
    <2> DEFINE r == [jobs[j] EXCEPT !.cancel = TRUE]
    <2>2. jobs[j] \in Job
      BY DEF IInv, TypeOK
    <2>3. r \in Job /\ r.conversation = jobs[j].conversation
          /\ r.generation = jobs[j].generation /\ r.order = jobs[j].order
      BY <2>2 DEF Job
    <2> QED BY <2>3 DEF JobAfter, Job
  <1> HIDE DEF After
  <1>4. \A j \in JobIds : Settled(j, "cancelled") \in {"cancelled", "needs_reconciliation"}
    BY SettledInTargets DEF Targets, Final
  <1>5. \A j \in JobIds : jobs'[j] = IF j \in gone THEN After(j) ELSE jobs[j]
    BY <1>1
  <1>6. row.generation = conversations[c].generation + 1
    OBVIOUS
  <1> HIDE DEF row, gone
  <1>7. conversations'[c] = row
        /\ \A d \in Conversations : d # c => conversations'[d] = conversations[d]
    BY <1>1 DEF IInv, TypeOK
  <1> QED BY <1>1, <1>2, <1>3, <1>4, <1>5, <1>6, <1>7 DEF Resets, PlaceKept

\* Control.reconcile settles one job in review.
LEMMA ReconcileShape ==
    ASSUME IInv, NEW j \in JobIds, NEW decision \in {"succeeded", "cancelled"},
           Reconcile(j, decision)
    PROVE  Reconciles(j, decision)
  <1> DEFINE c == jobs[j].conversation
             r == [jobs[j] EXCEPT !.state = decision, !.lease = "none", !.cancel = TRUE]
             h == [conversations[c] EXCEPT !.reconciliation_hold = FALSE]
             outstanding == \E k \in JobIds : /\ jobs'[k].state = "needs_reconciliation"
                                              /\ jobs'[k].conversation = c
  <1>1. /\ jobs[j].state = "needs_reconciliation" /\ jobs' = [jobs EXCEPT ![j] = r]
        /\ reviewed' = reviewed \cup {j}
        /\ UNCHANGED <<runtime, owners, messages>>
    BY DEF Reconcile
  <1>2. /\ conversations' = IF outstanding THEN conversations
                            ELSE [conversations EXCEPT ![c].reconciliation_hold = FALSE]
        /\ ~outstanding => wake' = WakeNext(jobs', conversations', c)
    BY <1>1 DEF Reconcile, JobsOf
  <1>3. jobs \in [JobIds -> Job] /\ c \in Conversations /\ conversations[c] \in Conversation
        /\ conversations \in [Conversations -> Conversation]
    BY <1>1 DEF IInv, TypeOK, RowsOK
  <1>4. /\ r.state = decision /\ r.conversation = c
        /\ r.generation = jobs[j].generation /\ r.order = jobs[j].order
    BY <1>3 DEF Job
  <1>5. /\ h.generation = conversations[c].generation
        /\ h.next_message_seq = conversations[c].next_message_seq
    BY <1>3 DEF Conversation
  <1>6. conversations' = IF outstanding THEN conversations ELSE [conversations EXCEPT ![c] = h]
    BY <1>2
  <1> HIDE DEF r, h, outstanding
  <1>7. jobs'[j] = r /\ \A k \in JobIds : k # j => jobs'[k] = jobs[k]
    BY <1>1, <1>3
  <1>8. \A d \in Conversations :
            /\ conversations'[d].generation = conversations[d].generation
            /\ conversations'[d].next_message_seq = conversations[d].next_message_seq
            /\ d # c \/ outstanding => conversations'[d] = conversations[d]
    BY <1>3, <1>5, <1>6
  <1>9. MessagesKept
    BY <1>1, <1>8 DEF MessagesKept
  <1> QED BY <1>1, <1>2, <1>4, <1>7, <1>8, <1>9 DEF Reconciles, PlaceKept, outstanding

\* Recovery.begin_restore puts all unfinished work in review.
LEMMA RestoreShape ==
    ASSUME IInv, BeginRestore PROVE Restores
  <1> DEFINE After(j) == [jobs[j] EXCEPT !.state = "needs_reconciliation",
                                         !.lease = "none", !.overtime = FALSE,
                                         !.expired = FALSE, !.cancel = TRUE]
             Held(c) == [conversations[c] EXCEPT !.reconciliation_hold = TRUE]
             caught == {j \in JobIds : jobs[j].state \in Unfinished}
  <1>1. jobs' = [j \in JobIds |-> IF j \in caught THEN After(j) ELSE jobs[j]]
    BY DEF BeginRestore
  <1>2. conversations' = [c \in Conversations |->
            IF \E j \in JobsOf(jobs', c) : jobs'[j].state = "needs_reconciliation"
            THEN Held(c) ELSE conversations[c]]
    BY <1>1 DEF BeginRestore
  <1>3. ~runtime'.enabled /\ UNCHANGED <<messages, reviewed>>
    BY DEF BeginRestore
  <1>4. \A j \in JobIds :
            /\ After(j).state = "needs_reconciliation"
            /\ After(j).conversation = jobs[j].conversation
            /\ After(j).generation = jobs[j].generation
            /\ After(j).order = jobs[j].order
    <2>1. \A j \in JobIds : jobs[j] \in Job
      BY DEF IInv, TypeOK
    <2> QED BY <2>1 DEF Job
  <1>5. \A c \in Conversations :
            /\ Held(c).generation = conversations[c].generation
            /\ Held(c).next_message_seq = conversations[c].next_message_seq
    <2>1. \A c \in Conversations : conversations[c] \in Conversation
      BY DEF IInv, TypeOK
    <2> QED BY <2>1 DEF Conversation
  <1> HIDE DEF After, Held
  <1>6. \A c \in Conversations :
            /\ conversations'[c].generation = conversations[c].generation
            /\ conversations'[c].next_message_seq = conversations[c].next_message_seq
    BY <1>2, <1>5
  <1>7. MessagesKept
    BY <1>3, <1>6 DEF MessagesKept
  <1>8. \A k \in JobIds :
          /\ PlaceKept(k)
          /\ IF jobs[k].state \in Unfinished
             THEN jobs'[k].state = "needs_reconciliation" ELSE jobs'[k] = jobs[k]
    BY <1>1, <1>4 DEF PlaceKept
  <1> QED BY <1>3, <1>6, <1>7, <1>8 DEF Restores

\* Every step has one of these shapes.
LEMMA StepShapes ==
    ASSUME IInv, [Next]_vars
    PROVE  \/ Calm
           \/ \E j \in JobIds, s \in Targets : Settles(j, s)
           \/ \E c \in Conversations, j \in JobIds : Accepts(c, j)
           \/ \E c \in Conversations : Resets(c)
           \/ \E j \in JobIds, d \in {"succeeded", "cancelled"} : Reconciles(j, d)
           \/ \E j \in JobIds : Claims(j)
           \/ Restores
  BY StepKinds, AcceptShape, ResetShape, ReconcileShape, ClaimShape, RestoreShape, Zenon

-----------------------------------------------------------------------------
(* Outcomes *)

\* An audited job is settled.
ReviewedIsFinal == \A j \in reviewed : jobs[j].state \in Final

\* No kind of step takes a job out of a final state, or out of review but by a
\* decision about it.
LEMMA StatesAdvance ==
    ASSUME IInv, [Next]_vars
    PROVE  /\ \A j \in JobIds : jobs[j].state \in Final => jobs'[j].state = jobs[j].state
           /\ \A j \in JobIds :
                  jobs[j].state = "needs_reconciliation" /\ jobs'[j].state # jobs[j].state
                      => jobs'[j].state \in Final /\ j \in reviewed'
           /\ reviewed \subseteq reviewed'
           /\ \A j \in reviewed' \ reviewed : j \in JobIds /\ jobs'[j].state \in Final
  <1> DEFINE Advance ==
           /\ \A j \in JobIds : jobs[j].state \in Final => jobs'[j].state = jobs[j].state
           /\ \A j \in JobIds :
                  jobs[j].state = "needs_reconciliation" /\ jobs'[j].state # jobs[j].state
                      => jobs'[j].state \in Final /\ j \in reviewed'
           /\ reviewed \subseteq reviewed'
           /\ \A j \in reviewed' \ reviewed : j \in JobIds /\ jobs'[j].state \in Final
  <1>1. /\ Final \cap Unfinished = {} /\ "needs_reconciliation" \notin Unfinished \cup Final
        /\ "none" \notin Final \cup Unfinished /\ Waiting \subseteq Unfinished
        /\ {"succeeded", "cancelled"} \subseteq Final
    BY DEF Final, Unfinished, Waiting
  <1>2. ASSUME Calm PROVE Advance
    BY <1>2 DEF Calm, KeepsPlaces
  <1>3. ASSUME NEW k \in JobIds, NEW s \in Targets, Settles(k, s) PROVE Advance
    <2>1. jobs[k].state \in Unfinished /\ reviewed' = reviewed
          /\ \A j \in JobIds : j # k => jobs'[j] = jobs[j]
      BY <1>3 DEF Settles, SettlesTo
    <2> QED BY <2>1, <1>1
  <1>4. ASSUME NEW c \in Conversations, NEW k \in JobIds, Accepts(c, k) PROVE Advance
    <2>1. jobs[k].state = "none" /\ reviewed' = reviewed
          /\ \A j \in JobIds : j # k => jobs'[j] = jobs[j]
      BY <1>4 DEF Accepts
    <2> QED BY <2>1, <1>1
  <1>5. ASSUME NEW c \in Conversations, Resets(c) PROVE Advance
    BY <1>1, <1>5 DEF Resets
  <1>6. ASSUME NEW k \in JobIds, NEW d \in {"succeeded", "cancelled"}, Reconciles(k, d)
        PROVE  Advance
    <2>1. jobs[k].state = "needs_reconciliation" /\ jobs'[k].state = d
          /\ reviewed' = reviewed \cup {k}
          /\ \A j \in JobIds : j # k => jobs'[j] = jobs[j]
      BY <1>6 DEF Reconciles
    <2> QED BY <2>1, <1>1
  <1>7. ASSUME NEW k \in JobIds, Claims(k) PROVE Advance
    <2>1. jobs[k].state \in Waiting /\ reviewed' = reviewed
          /\ \A j \in JobIds : j # k => jobs'[j] = jobs[j]
      BY <1>7 DEF Claims
    <2> QED BY <2>1, <1>1
  <1>8. ASSUME Restores PROVE Advance
    BY <1>1, <1>8 DEF Restores
  <1> HIDE DEF Advance
  <1>9. Advance
    BY <1>2, <1>3, <1>4, <1>5, <1>6, <1>7, <1>8, StepShapes, Zenon
  <1> QED BY <1>9 DEF Advance

\* The audited jobs stay settled.
LEMMA ReviewedKept ==
    ASSUME IInv, ReviewedIsFinal, [Next]_vars PROVE ReviewedIsFinal'
  <1>1. reviewed \subseteq JobIds
    BY DEF IInv, TypeOK
  <1> QED BY <1>1, StatesAdvance DEF ReviewedIsFinal

\* Only an audited decision takes a job out of review, and nothing at all takes
\* it out of an outcome (leases.transition, Control.reconcile).
THEOREM OutcomesStayFinal == Spec => OutcomesAreFinal
  <1> DEFINE Step ==
          \A j \in JobIds :
             /\ jobs[j].state \in Final => jobs'[j].state = jobs[j].state
             /\ jobs[j].state = "needs_reconciliation" /\ jobs'[j].state # jobs[j].state
                    => j \in reviewed' \ reviewed
  <1>1. ASSUME IInv, ReviewedIsFinal, [Next]_vars PROVE [Step]_vars
    <2>1. "needs_reconciliation" \notin Final
      BY DEF Final
    <2>2. Step
      BY <1>1, <2>1, StatesAdvance DEF ReviewedIsFinal
    <2> QED BY <2>2
  <1>2. Init => ReviewedIsFinal
    BY DEF Init, ReviewedIsFinal
  <1>3. IInv /\ ReviewedIsFinal /\ [Next]_vars => ReviewedIsFinal'
    BY ReviewedKept
  <1>4. IInv /\ ReviewedIsFinal /\ [Next]_vars => [Step]_vars
    BY <1>1
  <1>5. OutcomesAreFinal <=> [][Step]_vars
    BY DEF OutcomesAreFinal
  <1> HIDE DEF Step
  <1> QED BY <1>2, <1>3, <1>4, <1>5, Invariance, PTL DEF Spec

-----------------------------------------------------------------------------
(* Wake-ups *)

\* What it takes to be runnable after a step.
LEMMA RunnableAfter ==
    ASSUME NEW j, Runnable(j)'
    PROVE  /\ jobs'[j].state \in Waiting
           /\ jobs'[j].state \in Unfinished /\ jobs'[j].state # "none"
           /\ jobs'[j].state # "running" /\ jobs'[j].state \notin Final
           /\ jobs'[j].state # "needs_reconciliation"
           /\ runtime'.enabled
           /\ jobs'[j].epoch = runtime'.epoch /\ ~jobs'[j].cancel
           /\ owners'[OwnerOf[jobs'[j].conversation]]
           /\ conversations'[jobs'[j].conversation].generation = jobs'[j].generation
           /\ ~conversations'[jobs'[j].conversation].reconciliation_hold
           /\ ~EarlierActive(j)'
  <1>1. /\ jobs'[j].state \in Waiting /\ runtime'.enabled
        /\ jobs'[j].epoch = runtime'.epoch /\ ~jobs'[j].cancel
        /\ owners'[OwnerOf[jobs'[j].conversation]]
        /\ conversations'[jobs'[j].conversation].generation = jobs'[j].generation
        /\ ~conversations'[jobs'[j].conversation].reconciliation_hold
        /\ ~EarlierActive(j)'
    BY DEF Runnable, Enabled, OwnerEnabled, ConversationOf
  <1> QED BY <1>1 DEF Waiting, Unfinished, Final

\* wake_next names the job that has become runnable in its conversation.
LEMMA NextIsNamed ==
    ASSUME IInv', NEW j \in JobIds, Runnable(j)', runtime' = runtime, owners' = owners
    PROVE  j \in WakeNext(jobs', conversations', jobs'[j].conversation)
  <1> DEFINE c == jobs'[j].conversation
  <1>1. j \in TurnsOf(jobs', c, conversations'[c].generation)
    BY RunnableAfter DEF TurnsOf, JobsOf
  <1>2. ~conversations'[c].reconciliation_hold /\ runtime.enabled /\ OwnerEnabled(c)
        /\ jobs'[j].state \in Waiting /\ jobs'[j].epoch = runtime.epoch
    BY RunnableAfter DEF OwnerEnabled
  <1>3. ASSUME NEW k \in TurnsOf(jobs', c, conversations'[c].generation),
               jobs'[k].state \in ACTIVE
        PROVE  jobs'[j].order <= jobs'[k].order
    <2>1. jobs'[j].order \in Nat /\ jobs'[k].order \in Nat
      BY <1>3 DEF IInv, TypeOK, Job, TurnsOf, JobsOf
    <2>2. conversations'[c].generation = jobs'[j].generation /\ ~EarlierActive(j)'
      BY RunnableAfter
    <2>3. ~(jobs'[k].order < jobs'[j].order)
      BY <2>2, <1>3 DEF EarlierActive
    <2> QED BY <2>1, <2>3
  <1> QED BY <1>1, <1>2, <1>3 DEF WakeNext

\* A job is as runnable as it was if its row and conversation are and no turn of
\* the conversation settled.
LEMMA StaysRunnable ==
    ASSUME NEW j \in JobIds, Runnable(j)', jobs[j].due, jobs'[j] = jobs[j],
           runtime' = runtime, owners' = owners,
           LET c == jobs[j].conversation
           IN  /\ conversations'[c].generation = conversations[c].generation
               /\ conversations'[c].reconciliation_hold = conversations[c].reconciliation_hold
               /\ \A k \in JobIds : jobs[k].state # "none" /\ jobs[k].conversation = c =>
                     PlaceKept(k) /\ (jobs[k].state \in ACTIVE => jobs'[k].state \in ACTIVE)
    PROVE  Runnable(j)
  <1>1. ~EarlierActive(j)
    <2>1. SUFFICES ASSUME EarlierActive(j) PROVE FALSE
      OBVIOUS
    <2>2. PICK k \in JobIds :
             /\ jobs[k].state # "none" /\ jobs[k].conversation = jobs[j].conversation
             /\ jobs[k].generation = jobs[j].generation
             /\ jobs[k].order < jobs[j].order /\ jobs[k].state \in ACTIVE
      BY <2>1 DEF EarlierActive, TurnsOf, JobsOf
    <2>3. PlaceKept(k) /\ jobs'[k].state \in ACTIVE /\ jobs'[k].state # "none"
      BY <2>2 DEF ACTIVE, Unfinished, Waiting
    <2>4. k \in TurnsOf(jobs', jobs'[j].conversation, jobs'[j].generation)
      BY <2>2, <2>3 DEF PlaceKept, TurnsOf, JobsOf
    <2>5. EarlierActive(j)'
      BY <2>2, <2>3, <2>4 DEF PlaceKept, EarlierActive
    <2> QED BY <2>5, RunnableAfter
  <1> QED BY <1>1, RunnableAfter DEF Runnable, Enabled, OwnerEnabled, ConversationOf

\* A step that makes a waiting, due job runnable names it in an outbox row.
LEMMA RunnableIsWoken ==
    ASSUME IInv, IInv', [Next]_vars, NEW j \in JobIds,
           ~Runnable(j), Runnable(j)', jobs[j].due
    PROVE  j \in wake'
  <1>1. /\ Waiting \subseteq Unfinished /\ Unfinished \subseteq ACTIVE /\ "running" \in ACTIVE
        /\ "none" \notin ACTIVE /\ "needs_reconciliation" \in ACTIVE
        /\ {"succeeded", "cancelled"} \cap Waiting = {}
        /\ Targets \cap Waiting = {"retry_pending"} /\ Targets \cap ACTIVE \subseteq
              {"retry_pending", "needs_reconciliation"}
    BY DEF Waiting, Unfinished, ACTIVE, Targets, Final
  <1>2. CASE Calm
    <2>1. KeepsPlaces /\ \A u \in Owners : owners'[u] => owners[u]
      BY <1>2 DEF Calm
    <2>2. jobs[j].state \in Waiting /\ jobs[j].state \in Unfinished /\ jobs[j].state # "none"
      BY <2>1, RunnableAfter DEF KeepsPlaces
    <2>3. runtime' = runtime
      BY <2>2, <1>2 DEF IInv, NoStaleWork, Calm
    <2>4. jobs[j].conversation \in Conversations
      BY <2>2 DEF IInv, RowsOK
    <2>5. owners[OwnerOf[jobs[j].conversation]]
      <3>1. OwnerOf[jobs[j].conversation] \in Owners
        BY <2>4, ConversationsAssumption
      <3>2. jobs'[j].conversation = jobs[j].conversation
        BY <2>1 DEF KeepsPlaces
      <3>3. owners'[OwnerOf[jobs'[j].conversation]]
        BY RunnableAfter, Zenon
      <3>4. owners'[OwnerOf[jobs[j].conversation]]
        BY <3>2, <3>3, Zenon
      <3> QED BY <2>1, <3>1, <3>4, Zenon
    <2>6. ~EarlierActive(j)
      BY <2>1, RunnableAfter DEF KeepsPlaces, EarlierActive, TurnsOf, JobsOf
    <2>7. Enabled(j)
      BY <2>1, <2>2, <2>3, <2>4, <2>5, RunnableAfter
      DEF KeepsPlaces, Enabled, OwnerEnabled, ConversationOf
    <2> QED BY <2>2, <2>6, <2>7 DEF Runnable
  <1>3. ASSUME NEW k \in JobIds, NEW s \in Targets, Settles(k, s) PROVE j \in wake'
    <2> DEFINE c == jobs[k].conversation
    <2>1. /\ jobs[k].state \in Unfinished /\ jobs'[k].state = s /\ PlaceKept(k)
          /\ runtime' = runtime /\ owners' = owners
          /\ \A i \in JobIds : i # k => jobs'[i] = jobs[i]
          /\ \A d \in Conversations :
                /\ conversations'[d].generation = conversations[d].generation
                /\ conversations'[d].reconciliation_hold =
                      (conversations[d].reconciliation_hold
                       \/ (d = c /\ s = "needs_reconciliation"))
          /\ wake' = IF s = "retry_pending" THEN {k} ELSE WakeNext(jobs', conversations', c)
      BY <1>3 DEF Settles, SettlesTo, PlaceKept
    <2>2. CASE j = k
      <3>1. s = "retry_pending"
        BY <2>1, <2>2, <1>1, RunnableAfter
      <3> QED BY <3>1, <2>1, <2>2
    <2>3. CASE j # k /\ jobs[j].conversation = c /\ s # "retry_pending"
      <3>1. jobs'[j].conversation = c
        BY <2>1, <2>3
      <3> QED BY <3>1, <2>1, <2>3, NextIsNamed
    <2>4. CASE j # k /\ (jobs[j].conversation # c \/ s = "retry_pending")
      <3>1. jobs'[j] = jobs[j] /\ jobs[j].state # "none"
        BY <2>1, <2>4, RunnableAfter
      <3>2. jobs[j].conversation \in Conversations
        BY <3>1 DEF IInv, RowsOK
      <3>3. conversations[jobs[j].conversation].reconciliation_hold \in BOOLEAN
        BY <3>2 DEF IInv, TypeOK, Conversation
      <3>4. /\ conversations'[jobs[j].conversation].generation
                  = conversations[jobs[j].conversation].generation
            /\ conversations'[jobs[j].conversation].reconciliation_hold
                  = conversations[jobs[j].conversation].reconciliation_hold
        BY <2>1, <2>4, <3>2, <3>3
      <3>5. \A i \in JobIds : jobs[i].state # "none" /\ jobs[i].conversation = jobs[j].conversation =>
                     PlaceKept(i) /\ (jobs[i].state \in ACTIVE => jobs'[i].state \in ACTIVE)
        <4>1. "retry_pending" \in ACTIVE
          BY DEF ACTIVE, Unfinished, Waiting
        <4> QED BY <2>1, <2>4, <4>1 DEF PlaceKept
      <3> QED BY <2>1, <3>1, <3>4, <3>5, StaysRunnable
    <2> QED BY <2>2, <2>3, <2>4
  <1>4. ASSUME NEW c \in Conversations, NEW k \in JobIds, Accepts(c, k) PROVE j \in wake'
    <2>1. /\ jobs[k].state = "none" /\ wake' = {k}
          /\ runtime' = runtime /\ owners' = owners
          /\ \A i \in JobIds : i # k => jobs'[i] = jobs[i]
          /\ \A d \in Conversations :
                /\ conversations'[d].generation = conversations[d].generation
                /\ conversations'[d].reconciliation_hold = conversations[d].reconciliation_hold
      BY <1>4 DEF Accepts
    <2>2. CASE j # k
      <3>1. jobs'[j] = jobs[j] /\ jobs[j].state # "none"
        BY <2>1, <2>2, RunnableAfter
      <3>2. jobs[j].conversation \in Conversations
        BY <3>1 DEF IInv, RowsOK
      <3>3. \A i \in JobIds : jobs[i].state # "none" => PlaceKept(i) /\ jobs'[i] = jobs[i]
        BY <2>1 DEF PlaceKept
      <3> QED BY <2>1, <3>1, <3>2, <3>3, StaysRunnable
    <2> QED BY <2>1, <2>2
  <1>5. ASSUME NEW c \in Conversations, Resets(c) PROVE j \in wake'
    <2>1. /\ jobs'[j] = jobs[j] /\ jobs[j].state # "none" /\ jobs[j].conversation \in Conversations
      <3>1. jobs'[j].state \notin {"cancelled", "needs_reconciliation"}
        BY RunnableAfter DEF Final
      <3>2. jobs'[j] = jobs[j] /\ jobs[j].state # "none"
        BY <3>1, <1>5, RunnableAfter DEF Resets
      <3> QED BY <3>2 DEF IInv, RowsOK
    <2>2. CASE jobs[j].conversation = c
      <3>1. jobs[j].generation <= conversations[c].generation
        BY <2>1, <2>2 DEF IInv, RowsOK, ConversationOf
      <3>2. jobs[j].generation \in Nat /\ conversations[c].generation \in Nat
        BY DEF IInv, TypeOK, Job, Conversation
      <3>3. jobs[j].generation = conversations[c].generation + 1
        BY <2>1, <2>2, <1>5, RunnableAfter DEF Resets
      <3> QED BY <3>1, <3>2, <3>3
    <2>3. CASE jobs[j].conversation # c
      <3>1. conversations'[jobs[j].conversation] = conversations[jobs[j].conversation]
            /\ runtime' = runtime /\ owners' = owners
        BY <2>1, <2>3, <1>5 DEF Resets
      <3>2. \A i \in JobIds : jobs[i].conversation = jobs[j].conversation =>
                PlaceKept(i) /\ jobs'[i] = jobs[i]
        BY <2>3, <1>5 DEF Resets, PlaceKept
      <3> QED BY <2>1, <3>1, <3>2, StaysRunnable
    <2> QED BY <2>2, <2>3
  <1>6. ASSUME NEW k \in JobIds, NEW d \in {"succeeded", "cancelled"}, Reconciles(k, d)
        PROVE  j \in wake'
    <2> DEFINE c == jobs[k].conversation
               outstanding == \E i \in JobIds : /\ jobs'[i].state = "needs_reconciliation"
                                                /\ jobs'[i].conversation = c
    <2>1. /\ jobs[k].state = "needs_reconciliation" /\ jobs'[k].state = d
          /\ \A i \in JobIds : i # k => jobs'[i] = jobs[i]
          /\ \A e \in Conversations : e # c \/ outstanding => conversations'[e] = conversations[e]
          /\ ~outstanding => wake' = WakeNext(jobs', conversations', c)
          /\ runtime' = runtime /\ owners' = owners
      BY <1>6 DEF Reconciles
    <2> HIDE DEF outstanding
    <2>2. j # k
      BY <2>1, <1>1, RunnableAfter
    <2>3. jobs'[j] = jobs[j] /\ jobs[j].state # "none"
      BY <2>1, <2>2, RunnableAfter
    <2>4. jobs[j].conversation \in Conversations /\ c \in Conversations
      BY <2>1, <2>3 DEF IInv, RowsOK
    <2>5. CASE jobs[j].conversation = c /\ outstanding
      <3>1. conversations[c].reconciliation_hold
        BY <2>1, <2>4 DEF IInv, HoldMatchesReviews, JobsOf
      <3> QED BY <3>1, <2>1, <2>3, <2>4, <2>5, RunnableAfter
    <2>6. CASE jobs[j].conversation = c /\ ~outstanding
      <3>1. jobs'[j].conversation = c
        BY <2>3, <2>6
      <3> QED BY <3>1, <2>1, <2>6, NextIsNamed
    <2>7. CASE jobs[j].conversation # c
      <3>1. \A i \in JobIds : jobs[i].conversation = jobs[j].conversation =>
                PlaceKept(i) /\ jobs'[i] = jobs[i]
        BY <2>1, <2>7 DEF PlaceKept
      <3> QED BY <2>1, <2>3, <2>4, <2>7, <3>1, StaysRunnable
    <2> QED BY <2>5, <2>6, <2>7
  <1>7. ASSUME NEW k \in JobIds, Claims(k) PROVE j \in wake'
    <2>1. /\ jobs'[k].state = "running" /\ PlaceKept(k)
          /\ \A i \in JobIds : i # k => jobs'[i] = jobs[i]
          /\ UNCHANGED <<runtime, owners, conversations>>
      BY <1>7 DEF Claims
    <2>2. j # k
      BY <2>1, RunnableAfter
    <2>3. \A i \in JobIds : PlaceKept(i) /\ (jobs[i].state \in ACTIVE => jobs'[i].state \in ACTIVE)
      BY <2>1, <1>1 DEF PlaceKept
    <2> QED BY <2>1, <2>2, <2>3, StaysRunnable
  <1>8. CASE Restores
    BY <1>8, RunnableAfter DEF Restores
  <1> QED BY <1>2, <1>3, <1>4, <1>5, <1>6, <1>7, <1>8, StepShapes, Zenon

\* A transaction that makes the next turn of a conversation runnable also puts
\* its wake-up in the outbox (leases.transition, Control.reconcile, wake_next).
THEOREM NextTurnGetsWoken == Spec => NextTurnIsWoken
  <1> DEFINE Step == \A j \in JobIds :
                ~Runnable(j) /\ Runnable(j)' /\ jobs[j].due => j \in wake'
  <1>1. IInv /\ IInv' /\ [Next]_vars => [Step]_vars
    BY RunnableIsWoken
  <1>2. NextTurnIsWoken <=> [][Step]_vars
    BY DEF NextTurnIsWoken
  <1> HIDE DEF Step
  <1> QED BY <1>1, <1>2, Invariance, PTL DEF Spec

-----------------------------------------------------------------------------
(* The messages of a conversation *)

Turn(m) == m.role # "notice"

\* The message of a turn belongs to a job that exists, in its conversation and
\* generation; a reply only to one that succeeded.
MessagesFromJobs ==
    \A m \in messages : Turn(m) =>
        /\ m.origin \in JobIds
        /\ jobs[m.origin].state # "none"
        /\ m.conversation = jobs[m.origin].conversation
        /\ m.generation = jobs[m.origin].generation
        /\ m.role = "assistant" => jobs[m.origin].state = "succeeded"

\* The counter of the current generation is past every number given out.
SequencesBelow ==
    \A m \in messages :
        /\ m.generation <= conversations[m.conversation].generation
        /\ m.generation = conversations[m.conversation].generation
               => m.sequence < conversations[m.conversation].next_message_seq

\* The unique constraints on messages: (conversation, generation, sequence) and
\* (conversation, generation, role, origin).
MessagesUnique ==
    \A m, n \in messages :
        SameGeneration(m, n) /\ (m.sequence = n.sequence \/ (m.role = n.role /\ m.origin = n.origin))
            => m = n

\* A turn has been answered only when no turn before it is unsettled.
RepliesAfterTurns ==
    \A m \in messages : m.role = "assistant" => ~EarlierActive(m.origin)

MInv == MessagesFromJobs /\ SequencesBelow /\ MessagesUnique /\ RepliesAfterTurns
        /\ RepliesInTurnOrder

\* A job that exists stays where it is, and once settled stays settled; one that
\* is new stands behind every other of its generation.
PlacesStay ==
    /\ \A j \in JobIds : jobs[j].state # "none" =>
          /\ PlaceKept(j) /\ jobs'[j].state # "none"
          /\ jobs'[j].state \in ACTIVE => jobs[j].state \in ACTIVE
          /\ jobs[j].state = "succeeded" => jobs'[j].state = "succeeded"
    /\ \A j, k \in JobIds :
          /\ jobs[j].state # "none"
          /\ jobs[k].state = "none" /\ jobs'[k].state # "none"
          /\ jobs'[k].conversation = jobs[j].conversation
          /\ jobs'[k].generation = jobs[j].generation
          => jobs[j].order < jobs'[k].order

\* So it is in every step.
LEMMA StepsKeepPlaces ==
    ASSUME IInv, [Next]_vars PROVE PlacesStay
  <1>1. /\ Unfinished \subseteq ACTIVE /\ "needs_reconciliation" \in ACTIVE
        /\ "none" \notin Targets /\ "none" \notin Unfinished /\ "cancelled" \notin ACTIVE
        /\ "running" \in ACTIVE /\ Waiting \subseteq Unfinished
        /\ "succeeded" \notin Unfinished \cup {"none"} /\ "succeeded" \notin ACTIVE
        /\ "none" \notin ACTIVE
    BY DEF Unfinished, Waiting, ACTIVE, Targets, Final
  <1>2. CASE Calm
    BY <1>2 DEF Calm, KeepsPlaces, PlacesStay, PlaceKept
  <1>3. ASSUME NEW k \in JobIds, NEW s \in Targets, Settles(k, s) PROVE PlacesStay
    <2>1. /\ jobs[k].state \in Unfinished /\ jobs'[k].state = s /\ PlaceKept(k)
          /\ \A i \in JobIds : i # k => jobs'[i] = jobs[i]
      BY <1>3 DEF Settles, SettlesTo, PlaceKept
    <2> QED BY <1>1, <2>1 DEF PlacesStay, PlaceKept
  <1>4. ASSUME NEW c \in Conversations, NEW k \in JobIds, Accepts(c, k) PROVE PlacesStay
    <2>1. /\ jobs[k].state = "none" /\ jobs'[k].conversation = c
          /\ jobs'[k].generation = conversations[c].generation
          /\ jobs'[k].order = conversations[c].next_job_order
          /\ \A i \in JobIds : i # k => jobs'[i] = jobs[i]
      BY <1>4 DEF Accepts
    <2>2. \A j \in JobIds : jobs[j].state # "none" /\ jobs[j].conversation = c
              /\ jobs[j].generation = conversations[c].generation
              => jobs[j].order < conversations[c].next_job_order
      BY DEF IInv, RowsOK, ConversationOf
    <2> QED BY <2>1, <2>2 DEF PlacesStay, PlaceKept
  <1>5. ASSUME NEW c \in Conversations, Resets(c) PROVE PlacesStay
    BY <1>1, <1>5 DEF Resets, PlacesStay, PlaceKept
  <1>6. ASSUME NEW k \in JobIds, NEW d \in {"succeeded", "cancelled"}, Reconciles(k, d)
        PROVE  PlacesStay
    <2>1. /\ jobs[k].state = "needs_reconciliation" /\ jobs'[k].state = d /\ PlaceKept(k)
          /\ \A i \in JobIds : i # k => jobs'[i] = jobs[i]
      BY <1>6 DEF Reconciles
    <2> QED BY <1>1, <2>1 DEF PlacesStay, PlaceKept
  <1>7. ASSUME NEW k \in JobIds, Claims(k) PROVE PlacesStay
    <2>1. /\ jobs[k].state \in Waiting /\ jobs'[k].state = "running" /\ PlaceKept(k)
          /\ \A i \in JobIds : i # k => jobs'[i] = jobs[i]
      BY <1>7 DEF Claims
    <2> QED BY <1>1, <2>1 DEF PlacesStay, PlaceKept
  <1>8. CASE Restores
    BY <1>1, <1>8 DEF Restores, PlacesStay, PlaceKept
  <1> QED BY <1>2, <1>3, <1>4, <1>5, <1>6, <1>7, <1>8, StepShapes, Zenon

\* What a message that was there before the step may go on saying.
LEMMA OldMessages ==
    ASSUME IInv, IInv', MInv, PlacesStay, NEW m \in messages,
           \A c \in Conversations :
              \/ /\ conversations'[c].generation = conversations[c].generation
                 /\ conversations[c].next_message_seq <= conversations'[c].next_message_seq
              \/ conversations[c].generation < conversations'[c].generation
    PROVE  /\ Turn(m) =>
                 /\ m.origin \in JobIds
                 /\ jobs'[m.origin].state # "none" /\ PlaceKept(m.origin)
                 /\ m.conversation = jobs'[m.origin].conversation
                 /\ m.generation = jobs'[m.origin].generation
                 /\ m.role = "assistant" => jobs'[m.origin].state = "succeeded"
           /\ m.generation <= conversations'[m.conversation].generation
           /\ m.generation = conversations'[m.conversation].generation
                 => m.sequence < conversations'[m.conversation].next_message_seq
           /\ m.role = "assistant" => ~EarlierActive(m.origin)'
  <1>1. Turn(m) =>
                 /\ m.origin \in JobIds
                 /\ jobs[m.origin].state # "none"
                 /\ m.conversation = jobs[m.origin].conversation
                 /\ m.generation = jobs[m.origin].generation
                 /\ m.role = "assistant" => jobs[m.origin].state = "succeeded"
    BY DEF MInv, MessagesFromJobs
  <1>2. Turn(m) => PlaceKept(m.origin) /\ jobs'[m.origin].state # "none"
                   /\ (m.role = "assistant" => jobs'[m.origin].state = "succeeded")
    BY <1>1 DEF PlacesStay
  <1>3. /\ m.conversation \in Conversations /\ m.generation \in Nat /\ m.sequence \in Nat
        /\ conversations[m.conversation] \in Conversation
        /\ conversations'[m.conversation] \in Conversation
    <2>1. m \in Message
      BY DEF IInv, TypeOK
    <2>2. m.conversation \in Conversations /\ m.generation \in Nat /\ m.sequence \in Nat
      BY <2>1 DEF Message
    <2> QED BY <2>2 DEF IInv, TypeOK
  <1>4. /\ m.generation <= conversations[m.conversation].generation
        /\ m.generation = conversations[m.conversation].generation
                 => m.sequence < conversations[m.conversation].next_message_seq
    BY DEF MInv, SequencesBelow
  <1>5. /\ m.generation <= conversations'[m.conversation].generation
        /\ m.generation = conversations'[m.conversation].generation
                 => m.sequence < conversations'[m.conversation].next_message_seq
    BY <1>3, <1>4 DEF Conversation
  <1>6. ASSUME m.role = "assistant" PROVE ~EarlierActive(m.origin)'
    <2> DEFINE o == m.origin
    <2>1. Turn(m) /\ ~EarlierActive(o) /\ o \in JobIds /\ PlaceKept(o) /\ jobs[o].state # "none"
      BY <1>1, <1>2, <1>6 DEF Turn, MInv, RepliesAfterTurns
    <2>2. SUFFICES ASSUME EarlierActive(o)' PROVE FALSE
      OBVIOUS
    <2>3. PICK k \in JobIds :
             /\ jobs'[k].state # "none" /\ jobs'[k].conversation = jobs'[o].conversation
             /\ jobs'[k].generation = jobs'[o].generation
             /\ jobs'[k].order < jobs'[o].order /\ jobs'[k].state \in ACTIVE
      BY <2>2 DEF EarlierActive, TurnsOf, JobsOf
    <2>4. jobs[o].order \in Nat /\ jobs'[k].order \in Nat
      BY <2>1 DEF IInv, TypeOK, Job
    <2>5. jobs[k].state # "none"
      BY <2>1, <2>3, <2>4 DEF PlacesStay, PlaceKept
    <2>6. PlaceKept(k) /\ jobs[k].state \in ACTIVE
      BY <2>3, <2>5 DEF PlacesStay
    <2>7. k \in TurnsOf(jobs, jobs[o].conversation, jobs[o].generation)
      BY <2>1, <2>3, <2>5, <2>6 DEF TurnsOf, JobsOf, PlaceKept
    <2> QED BY <2>1, <2>3, <2>6, <2>7 DEF EarlierActive, PlaceKept
  <1> QED BY <1>1, <1>2, <1>5, <1>6 DEF PlaceKept

\* A step that writes no message keeps them in order.
LEMMA KeptMessages ==
    ASSUME IInv, IInv', MInv, PlacesStay, messages' = messages,
           \A c \in Conversations :
              \/ /\ conversations'[c].generation = conversations[c].generation
                 /\ conversations[c].next_message_seq <= conversations'[c].next_message_seq
              \/ conversations[c].generation < conversations'[c].generation
    PROVE  MInv'
  <1>1. MessagesFromJobs' /\ SequencesBelow' /\ RepliesAfterTurns'
    BY OldMessages DEF MessagesFromJobs, SequencesBelow, RepliesAfterTurns
  <1>2. MessagesUnique'
    BY DEF MInv, MessagesUnique, SameGeneration
  <1>3. RepliesInTurnOrder'
    <2>1. \A m \in messages : m.role = "assistant" =>
             /\ jobs'[m.origin].state = "succeeded"
             /\ m.generation = jobs'[m.origin].generation
             /\ PlaceKept(m.origin)
      BY OldMessages DEF Turn
    <2> QED BY <2>1 DEF MInv, RepliesInTurnOrder, PlaceKept, SameGeneration
  <1> QED BY <1>1, <1>2, <1>3 DEF MInv

\* The message a step adds.
IsNext(m) ==
    /\ m \in Message
    /\ messages' = messages \cup {m}
    /\ m.generation = conversations[m.conversation].generation
    /\ m.sequence = conversations[m.conversation].next_message_seq
    /\ conversations'[m.conversation].next_message_seq
          = conversations[m.conversation].next_message_seq + 1
    /\ \A n \in messages : ~(SameGeneration(m, n) /\ m.role = n.role /\ m.origin = n.origin)

\* A step that adds the next message of a turn keeps them in order.
LEMMA AddedMessage ==
    ASSUME IInv, IInv', MInv, PlacesStay, NEW m, IsNext(m),
           \A c \in Conversations :
              /\ conversations'[c].generation = conversations[c].generation
              /\ conversations[c].next_message_seq <= conversations'[c].next_message_seq,
           Turn(m) => /\ m.origin \in JobIds /\ jobs'[m.origin].state # "none"
                      /\ m.conversation = jobs'[m.origin].conversation
                      /\ m.generation = jobs'[m.origin].generation,
           m.role = "assistant" => /\ jobs[m.origin].state = "running"
                                   /\ jobs'[m.origin].state = "succeeded",
           m.role = "user" => jobs[m.origin].state = "none"
    PROVE  MInv'
  <1>1. /\ m.conversation \in Conversations /\ m.generation \in Nat /\ m.sequence \in Nat
        /\ m.role \in Roles /\ messages' = messages \cup {m}
        /\ m.sequence < conversations'[m.conversation].next_message_seq
        /\ m.generation = conversations'[m.conversation].generation
    <2>1. m.conversation \in Conversations /\ m.generation \in Nat /\ m.sequence \in Nat
          /\ m.role \in Roles
      BY DEF IsNext, Message
    <2> QED BY <2>1 DEF IsNext
  <1>2. \A n \in messages :
           /\ n.sequence \in Nat
           /\ SameGeneration(m, n) => n.sequence < m.sequence
    <2>1. \A n \in messages : n.sequence \in Nat
      BY DEF IInv, TypeOK, Message
    <2> QED BY <2>1 DEF MInv, SequencesBelow, SameGeneration, IsNext
  <1>3. ASSUME m.role = "assistant"
        PROVE  /\ m.origin \in JobIds /\ jobs[m.origin].state = "running"
               /\ PlaceKept(m.origin) /\ ~EarlierActive(m.origin)
               /\ m.conversation = jobs[m.origin].conversation
               /\ m.generation = jobs[m.origin].generation
    <2>1. Turn(m) /\ m.origin \in JobIds /\ jobs[m.origin].state = "running"
      BY <1>3 DEF Turn
    <2>2. PlaceKept(m.origin)
      BY <2>1 DEF PlacesStay
    <2> QED BY <2>1, <2>2 DEF IInv, TurnsInOrder, PlaceKept
  <1>4. MessagesFromJobs'
    <2>1. \A n \in messages : Turn(n) =>
                 /\ n.origin \in JobIds
                 /\ jobs'[n.origin].state # "none"
                 /\ n.conversation = jobs'[n.origin].conversation
                 /\ n.generation = jobs'[n.origin].generation
                 /\ n.role = "assistant" => jobs'[n.origin].state = "succeeded"
      BY OldMessages
    <2> QED BY <1>1, <2>1 DEF MessagesFromJobs, Turn
  <1>5. SequencesBelow'
    <2>1. \A n \in messages :
             /\ n.generation <= conversations'[n.conversation].generation
             /\ n.generation = conversations'[n.conversation].generation
                   => n.sequence < conversations'[n.conversation].next_message_seq
      BY OldMessages
    <2> QED BY <1>1, <2>1 DEF SequencesBelow
  <1>6. MessagesUnique'
    <2>1. \A n \in messages :
             SameGeneration(m, n) => n.sequence # m.sequence /\ ~(m.role = n.role /\ m.origin = n.origin)
      BY <1>1, <1>2 DEF IsNext
    <2> QED BY <1>1, <2>1 DEF MInv, MessagesUnique, SameGeneration
  <1>7. RepliesAfterTurns'
    <2>1. \A n \in messages : n.role = "assistant" => ~EarlierActive(n.origin)'
      BY OldMessages
    <2>2. ASSUME m.role = "assistant" PROVE ~EarlierActive(m.origin)'
      <3> DEFINE o == m.origin
      <3>1. SUFFICES ASSUME EarlierActive(o)' PROVE FALSE
        OBVIOUS
      <3>2. PICK k \in JobIds :
               /\ jobs'[k].state # "none" /\ jobs'[k].conversation = jobs'[o].conversation
               /\ jobs'[k].generation = jobs'[o].generation
               /\ jobs'[k].order < jobs'[o].order /\ jobs'[k].state \in ACTIVE
        BY <3>1 DEF EarlierActive, TurnsOf, JobsOf
      <3>3. o \in JobIds /\ jobs[o].state # "none" /\ PlaceKept(o) /\ ~EarlierActive(o)
        BY <1>3, <2>2
      <3>4. jobs[o].order \in Nat /\ jobs'[k].order \in Nat
        BY <3>3 DEF IInv, TypeOK, Job
      <3>5. jobs[k].state # "none"
        BY <3>2, <3>3, <3>4 DEF PlacesStay, PlaceKept
      <3>6. PlaceKept(k) /\ jobs[k].state \in ACTIVE
        BY <3>2, <3>5 DEF PlacesStay
      <3>7. k \in TurnsOf(jobs, jobs[o].conversation, jobs[o].generation)
        BY <3>2, <3>3, <3>5, <3>6 DEF TurnsOf, JobsOf, PlaceKept
      <3> QED BY <3>2, <3>3, <3>6, <3>7 DEF EarlierActive, PlaceKept
    <2> QED BY <1>1, <2>1, <2>2 DEF RepliesAfterTurns
  <1>8. RepliesInTurnOrder'
    <2> DEFINE Fine(x, y) ==
            /\ y # x /\ y.role # "notice" /\ y.origin = x.origin
                   => y.role = "user" /\ y.sequence < x.sequence
            /\ y # x /\ y.role = "assistant" /\ SameGeneration(x, y)
                   => (y.sequence < x.sequence
                           <=> jobs'[y.origin].order < jobs'[x.origin].order)
    <2>1. \A n \in messages' : n.role = "assistant" =>
             /\ jobs'[n.origin].state = "succeeded"
             /\ n.generation = jobs'[n.origin].generation
      BY <1>4 DEF MessagesFromJobs, Turn
    <2>2. ASSUME NEW n \in messages, n.role = "assistant"
          PROVE  /\ n.origin \in JobIds /\ jobs[n.origin].state = "succeeded"
                 /\ PlaceKept(n.origin) /\ ~EarlierActive(n.origin)
                 /\ n.conversation = jobs[n.origin].conversation
                 /\ n.generation = jobs[n.origin].generation
      BY <2>2 DEF MInv, MessagesFromJobs, Turn, RepliesAfterTurns, PlacesStay
    <2>3. ASSUME NEW x \in messages, NEW y \in messages, x.role = "assistant"
          PROVE  Fine(x, y)
      BY <2>2, <2>3 DEF MInv, RepliesInTurnOrder, PlaceKept
    <2>4. ASSUME NEW n \in messages, n.role = "assistant", m.role = "assistant",
                 SameGeneration(m, n)
          PROVE  /\ jobs'[n.origin].order < jobs'[m.origin].order
                 /\ n.origin # m.origin
                 /\ jobs'[n.origin].order \in Nat /\ jobs'[m.origin].order \in Nat
      <3> DEFINE o == m.origin
                 p == n.origin
      <3>1. /\ o \in JobIds /\ jobs[o].state = "running" /\ PlaceKept(o)
            /\ p \in JobIds /\ jobs[p].state = "succeeded" /\ PlaceKept(p)
            /\ ~EarlierActive(p)
            /\ jobs[o].conversation = jobs[p].conversation
            /\ jobs[o].generation = jobs[p].generation
        BY <1>3, <2>2, <2>4 DEF SameGeneration
      <3>2. jobs[o].order \in Nat /\ jobs[p].order \in Nat
        BY <3>1 DEF IInv, TypeOK, Job
      <3>3. ~(jobs[o].order < jobs[p].order)
        <4>1. o \in TurnsOf(jobs, jobs[p].conversation, jobs[p].generation)
              /\ jobs[o].state \in ACTIVE
          BY <3>1 DEF TurnsOf, JobsOf, ACTIVE, Unfinished
        <4> QED BY <4>1, <3>1 DEF EarlierActive
      <3>4. o # p /\ jobs[o].order # jobs[p].order
        BY <3>1 DEF IInv, OrdersUnique
      <3> QED BY <3>1, <3>2, <3>3, <3>4 DEF PlaceKept
    <2>5. ASSUME NEW y \in messages, m.role = "assistant" PROVE Fine(m, y)
      <3>1. ASSUME Turn(y), y.origin = m.origin
            PROVE  y.role = "user" /\ y.sequence < m.sequence
        <4>1. y.role # "assistant"
          BY <3>1, <2>2, <1>3, <2>5
        <4>2. y.role \in Roles
          BY DEF IInv, TypeOK, Message
        <4>3. y.role = "user"
          BY <3>1, <4>1, <4>2 DEF Roles, Turn
        <4>4. SameGeneration(m, y)
          BY <1>3, <2>5, <3>1 DEF SameGeneration, MInv, MessagesFromJobs
        <4> QED BY <4>3, <4>4, <1>2
      <3>2. ASSUME y.role = "assistant", SameGeneration(m, y)
            PROVE  y.sequence < m.sequence /\ jobs'[y.origin].order < jobs'[m.origin].order
        BY <3>2, <2>4, <2>5, <1>2
      <3> QED BY <3>1, <3>2 DEF Turn
    <2>6. ASSUME NEW x \in messages, x.role = "assistant" PROVE Fine(x, m)
      <3>1. ASSUME Turn(m) PROVE m.origin # x.origin
        <4>1. m.role \in {"user", "assistant"}
          BY <3>1, <1>1 DEF Turn, Roles
        <4>2. jobs[x.origin].state = "succeeded"
          BY <2>2, <2>6
        <4> QED BY <4>1, <4>2
      <3>2. ASSUME m.role = "assistant", SameGeneration(x, m)
            PROVE  m.sequence < x.sequence <=> jobs'[m.origin].order < jobs'[x.origin].order
        <4>1. SameGeneration(m, x)
          BY <3>2 DEF SameGeneration
        <4>2. x.sequence < m.sequence /\ x.sequence \in Nat
          BY <4>1, <1>2
        <4>3. /\ jobs'[x.origin].order < jobs'[m.origin].order
              /\ jobs'[x.origin].order \in Nat /\ jobs'[m.origin].order \in Nat
          BY <4>1, <3>2, <2>4, <2>6
        <4> QED BY <4>2, <4>3, <1>1
      <3> QED BY <3>1, <3>2 DEF Turn
    <2>7. \A x, y \in messages' : x.role = "assistant" => Fine(x, y)
      <3>1. Fine(m, m)
        OBVIOUS
      <3> HIDE DEF Fine
      <3> QED BY <1>1, <2>3, <2>5, <2>6, <3>1
    <2> QED BY <2>1, <2>7 DEF RepliesInTurnOrder, SameGeneration
  <1> QED BY <1>4, <1>5, <1>6, <1>7, <1>8 DEF MInv


\* append_message adds the next message of the conversation, or finds it there.
LEMMA AddsOne ==
    ASSUME IInv, NEW c \in Conversations, NEW role \in Roles,
           NEW origin \in JobIds \cup Origins, Adds(c, role, origin)
    PROVE  \/ MessagesKept
           \/ /\ \A d \in Conversations :
                    conversations[d].next_message_seq <= conversations'[d].next_message_seq
              /\ \E m \in Message : /\ IsNext(m) /\ m.conversation = c
                                    /\ m.role = role /\ m.origin = origin
  <1> DEFINE crow == conversations[c]
             there == \E n \in messages : /\ n.conversation = c /\ n.generation = crow.generation
                                          /\ n.role = role /\ n.origin = origin
             m == [conversation |-> c, generation |-> crow.generation,
                   sequence |-> crow.next_message_seq, role |-> role, origin |-> origin]
             up == [crow EXCEPT !.next_message_seq = @ + 1]
             post == AppendTo(crow, c, role, origin)
  <1>1. /\ messages' = post.rows
        /\ \A d \in Conversations :
              conversations'[d].next_message_seq
                 = (IF d = c THEN post.conversation ELSE conversations[d]).next_message_seq
    BY DEF Adds
  <1>2. crow \in Conversation /\ crow.next_message_seq \in Nat /\ crow.generation \in Nat
        /\ \A d \in Conversations : conversations[d].next_message_seq \in Nat
    BY DEF IInv, TypeOK, Conversation
  <1>3. CASE there
    <2>1. post.rows = messages /\ post.conversation = crow
      BY <1>3 DEF AppendTo
    <2> HIDE DEF post
    <2> QED BY <1>1, <2>1 DEF MessagesKept
  <1>4. CASE ~there
    <2>1. post = [rows |-> messages \cup {m}, conversation |-> up]
      BY <1>4 DEF AppendTo
    <2>2. up.next_message_seq = crow.next_message_seq + 1
      BY <1>2 DEF Conversation
    <2>3. m \in Message
      BY <1>2 DEF Message
    <2>4. /\ m.conversation = c /\ m.generation = crow.generation
          /\ m.sequence = crow.next_message_seq /\ m.role = role /\ m.origin = origin
      OBVIOUS
    <2>5. \A n \in messages : ~(SameGeneration(m, n) /\ m.role = n.role /\ m.origin = n.origin)
      BY <1>4, <2>4 DEF SameGeneration
    <2> HIDE DEF post, up, m
    <2>6. post.rows = messages \cup {m} /\ post.conversation = up
      BY <2>1
    <2>7. \A d \in Conversations :
             conversations[d].next_message_seq <= conversations'[d].next_message_seq
      BY <1>1, <1>2, <2>2, <2>6
    <2>8. IsNext(m)
      BY <1>1, <2>2, <2>3, <2>4, <2>5, <2>6 DEF IsNext
    <2> QED BY <2>3, <2>4, <2>7, <2>8
  <1> QED BY <1>3, <1>4

\* A notice, a submission or a reply in its place keeps the messages in order.
LEMMA AddsKeepsMessages ==
    ASSUME IInv, IInv', MInv, PlacesStay,
           NEW c \in Conversations, NEW role \in Roles, NEW origin \in JobIds \cup Origins,
           Adds(c, role, origin),
           \A d \in Conversations : conversations'[d].generation = conversations[d].generation,
           role # "notice" => /\ origin \in JobIds /\ jobs'[origin].state # "none"
                              /\ jobs'[origin].conversation = c
                              /\ jobs'[origin].generation = conversations[c].generation,
           role = "assistant" => /\ jobs[origin].state = "running"
                                 /\ jobs'[origin].state = "succeeded",
           role = "user" => jobs[origin].state = "none"
    PROVE  MInv'
  <1>1. CASE MessagesKept
    <2>1. \A d \in Conversations :
              /\ conversations'[d].generation = conversations[d].generation
              /\ conversations[d].next_message_seq <= conversations'[d].next_message_seq
      BY <1>1 DEF MessagesKept, IInv, TypeOK, Conversation
    <2> QED BY <1>1, <2>1, KeptMessages DEF MessagesKept
  <1>2. CASE ~MessagesKept
    <2>1. PICK m \in Message : /\ IsNext(m) /\ m.conversation = c
                               /\ m.role = role /\ m.origin = origin
      BY <1>2, AddsOne
    <2>2. \A d \in Conversations :
              conversations[d].next_message_seq <= conversations'[d].next_message_seq
      BY <1>2, AddsOne
    <2>3. m.generation = conversations[c].generation
      BY <2>1 DEF IsNext
    <2> QED BY <2>1, <2>2, <2>3, AddedMessage DEF Turn
  <1> QED BY <1>1, <1>2

\* The messages stay in order in every step.
LEMMA MessagesStayInOrder ==
    ASSUME IInv, IInv', MInv, [Next]_vars PROVE MInv'
  <1>1. PlacesStay
    BY StepsKeepPlaces
  <1>2. {"notice", "user", "assistant"} \subseteq Roles
    BY DEF Roles
  <1>3. \A d \in Conversations : conversations[d].next_message_seq \in Nat
                                 /\ conversations[d].generation \in Nat
    BY DEF IInv, TypeOK, Conversation
  <1>4. ASSUME MessagesKept,
               \A d \in Conversations : conversations'[d].generation = conversations[d].generation
        PROVE  MInv'
    <2>1. messages' = messages
          /\ \A d \in Conversations :
                /\ conversations'[d].generation = conversations[d].generation
                /\ conversations[d].next_message_seq <= conversations'[d].next_message_seq
      BY <1>3, <1>4 DEF MessagesKept
    <2> QED BY <1>1, <2>1, KeptMessages
  <1>5. CASE Calm
    <2>1. \A d \in Conversations : conversations'[d].generation = conversations[d].generation
      BY <1>5 DEF Calm, KeepsPlaces
    <2>2. ASSUME NEW c \in Conversations, NEW o \in Origins, Adds(c, "notice", o) PROVE MInv'
      <3>1. /\ "notice" \in Roles /\ o \in JobIds \cup Origins
            /\ "notice" # "user" /\ "notice" # "assistant"
        BY <1>2
      <3> QED BY <1>1, <2>1, <2>2, <3>1, AddsKeepsMessages
    <2> QED BY <1>4, <1>5, <2>1, <2>2 DEF Calm
  <1>6. ASSUME NEW k \in JobIds, NEW s \in Targets, Settles(k, s) PROVE MInv'
    <2>1. \A d \in Conversations : conversations'[d].generation = conversations[d].generation
      BY <1>6 DEF Settles, SettlesTo
    <2>2. CASE MessagesKept
      BY <2>1, <2>2, <1>4
    <2>3. CASE ~MessagesKept
      <3> DEFINE c == jobs[k].conversation
      <3>1. jobs[k].state = "running" /\ s = "succeeded" /\ Adds(c, "assistant", k)
            /\ jobs'[k].state = s
        BY <1>6, <2>3 DEF Settles, SettlesTo
      <3>2. /\ PlaceKept(k) /\ c \in Conversations
            /\ jobs[k].generation = conversations[c].generation
        BY <1>1, <3>1 DEF PlacesStay, IInv, RowsOK, NoStaleWork, Unfinished, ConversationOf
      <3>3. /\ jobs'[k].state # "none" /\ jobs'[k].conversation = c
            /\ jobs'[k].generation = conversations[c].generation
            /\ "assistant" \in Roles /\ k \in JobIds \cup Origins /\ "assistant" # "user"
        BY <3>1, <3>2, <1>2 DEF PlaceKept
      <3> QED BY <1>1, <2>1, <3>1, <3>2, <3>3, AddsKeepsMessages
    <2> QED BY <2>2, <2>3
  <1>7. ASSUME NEW c \in Conversations, NEW k \in JobIds, Accepts(c, k) PROVE MInv'
    <2>1. /\ jobs[k].state = "none" /\ jobs'[k].state = "queued"
          /\ jobs'[k].conversation = c
          /\ jobs'[k].generation = conversations[c].generation
          /\ \A d \in Conversations : conversations'[d].generation = conversations[d].generation
          /\ Adds(c, "user", k)
      BY <1>7 DEF Accepts
    <2>2. /\ "user" \in Roles /\ k \in JobIds \cup Origins /\ "user" # "assistant"
          /\ jobs'[k].state # "none"
      BY <1>2, <2>1
    <2> QED BY <1>1, <2>1, <2>2, AddsKeepsMessages
  <1>8. ASSUME NEW c \in Conversations, Resets(c) PROVE MInv'
    <2>1. messages' = messages
          /\ \A d \in Conversations :
                \/ /\ conversations'[d].generation = conversations[d].generation
                   /\ conversations[d].next_message_seq <= conversations'[d].next_message_seq
                \/ conversations[d].generation < conversations'[d].generation
      BY <1>3, <1>8 DEF Resets
    <2> QED BY <1>1, <2>1, KeptMessages
  <1>9. ASSUME NEW k \in JobIds, NEW d \in {"succeeded", "cancelled"}, Reconciles(k, d)
        PROVE  MInv'
    BY <1>4, <1>9 DEF Reconciles
  <1>10. ASSUME NEW k \in JobIds, Claims(k) PROVE MInv'
    BY <1>4, <1>10 DEF Claims, MessagesKept
  <1>11. CASE Restores
    BY <1>4, <1>11 DEF Restores
  <1> QED BY <1>5, <1>6, <1>7, <1>8, <1>9, <1>10, <1>11, StepShapes, Zenon

-----------------------------------------------------------------------------
(* The limits of the queues *)

Existing == {j \in JobIds : jobs[j].state # "none"}

\* Only finitely many jobs were ever accepted.
FewJobs == IsFiniteSet(Existing)

\* A set of rows no bigger than before has no bigger backlog.
LEMMA BacklogShrinks ==
    ASSUME FewJobs, NEW J, NEW K, J \subseteq Existing,
           {j \in K : jobs'[j].state \in ACTIVE} \subseteq {j \in J : jobs[j].state \in ACTIVE}
    PROVE  Cardinality({j \in K : jobs'[j].state \in ACTIVE}) <= Backlog(J)
  <1> DEFINE A == {j \in J : jobs[j].state \in ACTIVE}
             B == {j \in K : jobs'[j].state \in ACTIVE}
  <1>1. IsFiniteSet(A)
    BY FS_Subset DEF FewJobs
  <1>2. Cardinality(B) <= Cardinality(A)
    BY <1>1, FS_Subset
  <1> QED BY <1>2 DEF Backlog

\* One more row is one more in the backlog.
LEMMA BacklogGrows ==
    ASSUME FewJobs, NEW J, NEW K, J \subseteq Existing, NEW i,
           {j \in K : jobs'[j].state \in ACTIVE}
               \subseteq {j \in J : jobs[j].state \in ACTIVE} \cup {i},
           NEW limit \in Nat, Backlog(J) < limit
    PROVE  Cardinality({j \in K : jobs'[j].state \in ACTIVE}) <= limit
  <1> DEFINE A == {j \in J : jobs[j].state \in ACTIVE}
             B == {j \in K : jobs'[j].state \in ACTIVE}
  <1>1. IsFiniteSet(A)
    BY FS_Subset DEF FewJobs
  <1>2. IsFiniteSet(A \cup {i}) /\ Cardinality(A \cup {i}) <= Cardinality(A) + 1
    <2> HIDE DEF A
    <2>1. Cardinality(A) \in Nat
      BY <1>1, FS_CardinalityType
    <2>2. IsFiniteSet(A \cup {i}) /\ (Cardinality(A \cup {i}) = Cardinality(A)
                                      \/ Cardinality(A \cup {i}) = Cardinality(A) + 1)
      <3>1. CASE i \in A
        <4>1. A \cup {i} = A
          BY <3>1
        <4> QED BY <4>1, <1>1
      <3>2. CASE i \notin A
        BY <3>2, <1>1, FS_AddElement
      <3> QED BY <3>1, <3>2
    <2> QED BY <2>1, <2>2
  <1>3. Cardinality(B) <= Cardinality(A \cup {i}) /\ IsFiniteSet(B)
    BY <1>2, FS_Subset
  <1>4. Cardinality(A) \in Nat /\ Cardinality(B) \in Nat /\ Cardinality(A \cup {i}) \in Nat
    BY <1>1, <1>2, <1>3, FS_CardinalityType
  <1>5. Cardinality(A) < limit
    BY DEF Backlog
  <1> HIDE DEF A, B
  <1>6. Cardinality(B) <= limit
    BY <1>2, <1>3, <1>4, <1>5
  <1> QED BY <1>6 DEF B

\* The jobs of an owner, for any contents of the jobs table.
LEMMA OwnerJobsAre ==
    ASSUME NEW u
    PROVE  /\ OwnerJobs(u) = {j \in JobIds : /\ jobs[j].state # "none"
                                             /\ jobs[j].conversation \in Conversations
                                             /\ OwnerOf[jobs[j].conversation] = u}
           /\ OwnerJobs(u) \subseteq Existing
  BY DEF OwnerJobs, JobsOf, Existing

\* The limits hold after every step.
LEMMA BacklogStaysBounded ==
    ASSUME IInv, IInv', FewJobs, BacklogBounded, [Next]_vars
    PROVE  FewJobs' /\ BacklogBounded'
  <1>1. PlacesStay
    BY StepsKeepPlaces
  <1>2. \A c : JobsOf(jobs, c) \subseteq Existing
    BY DEF JobsOf, Existing
  <1>3. ASSUME \A j \in JobIds : jobs'[j].state # "none" => jobs[j].state # "none"
        PROVE  FewJobs' /\ BacklogBounded'
    <2>1. FewJobs'
      <3>1. Existing' \subseteq Existing
        BY <1>3 DEF Existing
      <3> QED BY <3>1, FS_Subset DEF FewJobs
    <2>2. \A j \in JobIds : jobs'[j].state \in ACTIVE =>
              jobs[j].state \in ACTIVE /\ jobs[j].state # "none" /\ PlaceKept(j)
      BY <1>1, <1>3 DEF PlacesStay, ACTIVE, Unfinished, Waiting
    <2>3. ASSUME NEW c \in Conversations PROVE Backlog(JobsOf(jobs, c))' <= ConversationLimit
      <3>1. {j \in JobsOf(jobs', c) : jobs'[j].state \in ACTIVE}
                \subseteq {j \in JobsOf(jobs, c) : jobs[j].state \in ACTIVE}
        BY <2>2 DEF JobsOf, PlaceKept
      <3> DEFINE n == Cardinality({j \in JobsOf(jobs', c) : jobs'[j].state \in ACTIVE})
      <3>2. n <= Backlog(JobsOf(jobs, c))
        BY <1>2, <3>1, BacklogShrinks
      <3>3. Backlog(JobsOf(jobs, c)) <= ConversationLimit
        BY DEF BacklogBounded
      <3>4. /\ Backlog(JobsOf(jobs, c)) \in Nat /\ n \in Nat
        <4>1. IsFiniteSet({j \in JobsOf(jobs, c) : jobs[j].state \in ACTIVE})
          BY <1>2, FS_Subset DEF FewJobs
        <4>2. IsFiniteSet({j \in JobsOf(jobs', c) : jobs'[j].state \in ACTIVE})
          BY <4>1, <3>1, FS_Subset
        <4> QED BY <4>1, <4>2, FS_CardinalityType DEF Backlog
      <3>5. n <= ConversationLimit
        <4> HIDE DEF n
        <4> QED BY <3>2, <3>3, <3>4, LimitsAssumption
      <3> QED BY <3>5 DEF Backlog
    <2>4. ASSUME NEW u \in Owners PROVE Backlog(OwnerJobs(u))' <= OwnerLimit
      <3>1. {j \in OwnerJobs(u)' : jobs'[j].state \in ACTIVE}
                \subseteq {j \in OwnerJobs(u) : jobs[j].state \in ACTIVE}
        BY <2>2 DEF OwnerJobs, JobsOf, PlaceKept
      <3> DEFINE K == OwnerJobs(u)'
                 n == Cardinality({j \in K : jobs'[j].state \in ACTIVE})
      <3>2. n <= Backlog(OwnerJobs(u))
        BY <3>1, OwnerJobsAre, BacklogShrinks
      <3>3. Backlog(OwnerJobs(u)) <= OwnerLimit
        BY DEF BacklogBounded
      <3>4. /\ Backlog(OwnerJobs(u)) \in Nat /\ n \in Nat
        <4>1. IsFiniteSet({j \in OwnerJobs(u) : jobs[j].state \in ACTIVE})
          BY OwnerJobsAre, FS_Subset DEF FewJobs
        <4>2. IsFiniteSet({j \in K : jobs'[j].state \in ACTIVE})
          BY <4>1, <3>1, FS_Subset
        <4> QED BY <4>1, <4>2, FS_CardinalityType DEF Backlog
      <3>5. n <= OwnerLimit
        <4> HIDE DEF n
        <4> QED BY <3>2, <3>3, <3>4, LimitsAssumption
      <3> QED BY <3>5 DEF Backlog
    <2> QED BY <2>1, <2>3, <2>4 DEF BacklogBounded
  <1>4. ASSUME NEW c \in Conversations, NEW k \in JobIds, Accepts(c, k)
        PROVE  FewJobs' /\ BacklogBounded'
    <2>1. /\ jobs[k].state = "none" /\ jobs'[k].conversation = c /\ HasRoom(c)
          /\ \A i \in JobIds : i # k => jobs'[i] = jobs[i]
      BY <1>4 DEF Accepts
    <2>2. FewJobs'
      <3>1. Existing' \subseteq Existing \cup {k}
        BY <2>1 DEF Existing
      <3>2. IsFiniteSet(Existing \cup {k})
        BY FS_AddElement DEF FewJobs
      <3> QED BY <3>1, <3>2, FS_Subset DEF FewJobs
    <2>3. ConversationLimit \in Nat /\ OwnerLimit \in Nat
      BY LimitsAssumption
    <2>4. ASSUME NEW d \in Conversations
          PROVE  Backlog(JobsOf(jobs, d))' <= ConversationLimit
      <3> DEFINE A == {j \in JobsOf(jobs, d) : jobs[j].state \in ACTIVE}
                 B == {j \in JobsOf(jobs', d) : jobs'[j].state \in ACTIVE}
      <3>1. CASE d = c
        <4>1. Backlog(JobsOf(jobs, d)) < ConversationLimit
          BY <2>1, <3>1 DEF HasRoom
        <4>2. B \subseteq A \cup {k}
          BY <2>1 DEF JobsOf
        <4>3. Cardinality(B) <= ConversationLimit
          BY <1>2, <2>3, <4>1, <4>2, BacklogGrows
        <4> QED BY <4>3 DEF Backlog
      <3>2. CASE d # c
        <4>1. B = A
          BY <2>1, <3>2 DEF JobsOf
        <4> QED BY <4>1 DEF BacklogBounded, Backlog
      <3> QED BY <3>1, <3>2
    <2>5. ASSUME NEW u \in Owners PROVE Backlog(OwnerJobs(u))' <= OwnerLimit
      <3> DEFINE K == OwnerJobs(u)'
                 A == {j \in OwnerJobs(u) : jobs[j].state \in ACTIVE}
                 B == {j \in K : jobs'[j].state \in ACTIVE}
      <3>1. CASE u = OwnerOf[c]
        <4>1. Backlog(OwnerJobs(u)) < OwnerLimit
          BY <2>1, <3>1 DEF HasRoom
        <4>2. B \subseteq A \cup {k}
          BY <2>1 DEF OwnerJobs, JobsOf
        <4>3. Cardinality(B) <= OwnerLimit
          BY <2>3, <4>1, <4>2, OwnerJobsAre, BacklogGrows
        <4> QED BY <4>3 DEF Backlog
      <3>2. CASE u # OwnerOf[c]
        <4>1. B = A
          BY <2>1, <3>2 DEF OwnerJobs, JobsOf
        <4> QED BY <4>1 DEF BacklogBounded, Backlog
      <3> QED BY <3>1, <3>2
    <2> QED BY <2>2, <2>4, <2>5 DEF BacklogBounded
  <1>5. (\E c \in Conversations, k \in JobIds : Accepts(c, k))
        \/ \A j \in JobIds : jobs'[j].state # "none" => jobs[j].state # "none"
    <2>1. CASE Calm
      BY <2>1 DEF Calm, KeepsPlaces
    <2>2. ASSUME NEW k \in JobIds, NEW s \in Targets, Settles(k, s)
          PROVE  \A j \in JobIds : jobs'[j].state # "none" => jobs[j].state # "none"
      BY <2>2 DEF Settles, SettlesTo, Unfinished, Waiting
    <2>3. ASSUME NEW c \in Conversations, Resets(c)
          PROVE  \A j \in JobIds : jobs'[j].state # "none" => jobs[j].state # "none"
      BY <2>3 DEF Resets, Unfinished, Waiting
    <2>4. ASSUME NEW k \in JobIds, NEW d \in {"succeeded", "cancelled"}, Reconciles(k, d)
          PROVE  \A j \in JobIds : jobs'[j].state # "none" => jobs[j].state # "none"
      BY <2>4 DEF Reconciles
    <2>5. ASSUME NEW k \in JobIds, Claims(k)
          PROVE  \A j \in JobIds : jobs'[j].state # "none" => jobs[j].state # "none"
      BY <2>5 DEF Claims, Waiting
    <2>6. CASE Restores
      BY <2>6 DEF Restores, Unfinished, Waiting
    <2> QED BY <2>1, <2>2, <2>3, <2>4, <2>5, <2>6, StepShapes, Zenon
  <1> QED BY <1>3, <1>4, <1>5, Zenon

\* A conversation stays in order: each turn has at most one reply, behind its
\* submission and in its place, and the open turns respect both limits
\* (Leases.finish, append_message, the capacity checks of Work.accept).
THEOREM ConversationsStayOrderly == Spec => []ConversationIsOrderly
  <1> DEFINE Orderly == MInv /\ FewJobs /\ BacklogBounded
  <1>1. Init => Orderly
    <2> SUFFICES ASSUME Init PROVE Orderly
      OBVIOUS
    <2>1. messages = {} /\ jobs = [j \in JobIds |-> NoJob]
      BY DEF Init
    <2>2. MInv
      BY <2>1 DEF MInv, MessagesFromJobs, SequencesBelow, MessagesUnique, RepliesAfterTurns,
                  RepliesInTurnOrder
    <2>3. \A j \in JobIds : jobs[j].state = "none"
      BY <2>1 DEF NoJob
    <2>4. Existing = {} /\ (\A c : JobsOf(jobs, c) = {})
      BY <2>3 DEF Existing, JobsOf
    <2>5. FewJobs
      BY <2>4, FS_EmptySet DEF FewJobs
    <2>6. Backlog({}) = 0
      <3>1. {j \in {} : jobs[j].state \in ACTIVE} = {}
        OBVIOUS
      <3> QED BY <3>1, FS_EmptySet DEF Backlog
    <2>7. \A u : OwnerJobs(u) = {}
      BY <2>4 DEF OwnerJobs
    <2>8. BacklogBounded
      BY <2>4, <2>6, <2>7, LimitsAssumption DEF BacklogBounded
    <2> QED BY <2>2, <2>5, <2>8
  <1>2. IInv /\ IInv' /\ Orderly /\ [Next]_vars => Orderly'
    BY MessagesStayInOrder, BacklogStaysBounded
  <1>3. Orderly => ConversationIsOrderly
    BY DEF MInv, ConversationIsOrderly
  <1> HIDE DEF Orderly
  <1> QED BY <1>1, <1>2, <1>3, Invariance, PTL DEF Spec

-----------------------------------------------------------------------------
(* What an attempt was told *)

\* A new message is a notice, a new submission or the reply of a turn that ran.
LEMMA NewMessages ==
    ASSUME IInv, [Next]_vars, NEW m \in messages', m \notin messages
    PROVE  \/ ~Turn(m)
           \/ /\ m.origin \in JobIds
              /\ jobs[m.origin].state = "none" /\ jobs'[m.origin].state = "queued"
           \/ /\ m.origin \in JobIds
              /\ jobs[m.origin].state = "running" /\ jobs'[m.origin].state = "succeeded"
              /\ m.conversation = jobs[m.origin].conversation
  <1> DEFINE Allowed ==
           \/ ~Turn(m)
           \/ /\ m.origin \in JobIds
              /\ jobs[m.origin].state = "none" /\ jobs'[m.origin].state = "queued"
           \/ /\ m.origin \in JobIds
              /\ jobs[m.origin].state = "running" /\ jobs'[m.origin].state = "succeeded"
              /\ m.conversation = jobs[m.origin].conversation
  <1>1. ~MessagesKept
    BY DEF MessagesKept
  <1>2. ASSUME NEW c \in Conversations, NEW role \in Roles, NEW origin \in JobIds \cup Origins,
               Adds(c, role, origin)
        PROVE  m.conversation = c /\ m.role = role /\ m.origin = origin
    <2>1. PICK n \in Message : IsNext(n) /\ n.conversation = c /\ n.role = role /\ n.origin = origin
      BY <1>1, <1>2, AddsOne
    <2>2. m = n
      BY <2>1 DEF IsNext
    <2> QED BY <2>1, <2>2
  <1>3. {"notice", "user", "assistant"} \subseteq Roles
    BY DEF Roles
  <1>4. CASE Calm
    <2>1. PICK c \in Conversations, o \in Origins : Adds(c, "notice", o)
      BY <1>1, <1>4 DEF Calm
    <2>2. m.role = "notice"
      BY <2>1, <1>2, <1>3
    <2> QED BY <2>2 DEF Turn
  <1>5. ASSUME NEW k \in JobIds, NEW s \in Targets, Settles(k, s) PROVE Allowed
    <2>1. /\ jobs[k].state = "running" /\ jobs'[k].state = "succeeded"
          /\ Adds(jobs[k].conversation, "assistant", k)
      BY <1>1, <1>5 DEF Settles, SettlesTo
    <2>2. jobs[k].conversation \in Conversations
      BY <2>1 DEF IInv, RowsOK
    <2>3. m.conversation = jobs[k].conversation /\ m.origin = k
      BY <2>1, <2>2, <1>2, <1>3
    <2> QED BY <2>1, <2>3
  <1>6. ASSUME NEW c \in Conversations, NEW k \in JobIds, Accepts(c, k) PROVE Allowed
    <2>1. jobs[k].state = "none" /\ jobs'[k].state = "queued" /\ Adds(c, "user", k)
      BY <1>6 DEF Accepts
    <2>2. m.origin = k
      BY <2>1, <1>2, <1>3
    <2> QED BY <2>1, <2>2
  <1>7. ASSUME \/ \E c \in Conversations : Resets(c)
               \/ \E k \in JobIds, d \in {"succeeded", "cancelled"} : Reconciles(k, d)
               \/ \E k \in JobIds : Claims(k)
               \/ Restores
        PROVE  FALSE
    <2>1. messages' = messages
      BY <1>7 DEF Resets, Reconciles, Claims, Restores, MessagesKept
    <2> QED BY <2>1
  <1> HIDE DEF Allowed
  <1>8. Allowed
    BY <1>4, <1>5, <1>6, <1>7, StepShapes, Zenon DEF Allowed
  <1> QED BY <1>8 DEF Allowed

\* While an attempt runs, its context does not change.
LEMMA ContextStays ==
    ASSUME IInv, MInv, [Next]_vars, NEW j \in JobIds,
           jobs[j].state = "running", jobs'[j].state = "running"
    PROVE  TurnContext(j)' = TurnContext(j)
  <1>1. PlacesStay
    BY StepsKeepPlaces
  <1>2. PlaceKept(j)
    BY <1>1 DEF PlacesStay
  <1>3. messages \subseteq messages'
    <2>1. \A c, role, origin : Adds(c, role, origin) => messages \subseteq messages'
      <3> SUFFICES ASSUME NEW c, NEW role, NEW origin, Adds(c, role, origin)
                   PROVE  messages \subseteq messages'
        OBVIOUS
      <3> DEFINE crow == conversations[c]
                 there == \E n \in messages :
                              /\ n.conversation = c /\ n.generation = crow.generation
                              /\ n.role = role /\ n.origin = origin
      <3>1. CASE there
        BY <3>1 DEF Adds, AppendTo
      <3>2. CASE ~there
        BY <3>2 DEF Adds, AppendTo
      <3> QED BY <3>1, <3>2
    <2>2. CASE Calm
      BY <2>1, <2>2, Zenon DEF Calm, MessagesKept
    <2>3. CASE \E k \in JobIds, s \in Targets : Settles(k, s)
      BY <2>1, <2>3 DEF Settles, MessagesKept
    <2>4. CASE \E c \in Conversations, k \in JobIds : Accepts(c, k)
      BY <2>1, <2>4 DEF Accepts
    <2>5. CASE \/ \E c \in Conversations : Resets(c)
               \/ \E k \in JobIds, d \in {"succeeded", "cancelled"} : Reconciles(k, d)
               \/ \E k \in JobIds : Claims(k)
               \/ Restores
      BY <2>5 DEF Resets, Reconciles, Claims, Restores, MessagesKept
    <2> QED BY <2>2, <2>3, <2>4, <2>5, StepShapes, Zenon
  <1>4. ASSUME NEW m \in messages, Turn(m),
               m.conversation = jobs[j].conversation, m.generation = jobs[j].generation
        PROVE  (m.origin = j \/ (/\ jobs'[m.origin].state = "succeeded"
                                 /\ jobs'[m.origin].order < jobs'[j].order))
               <=> (m.origin = j \/ (/\ jobs[m.origin].state = "succeeded"
                                     /\ jobs[m.origin].order < jobs[j].order))
    <2> DEFINE o == m.origin
    <2>1. /\ o \in JobIds /\ jobs[o].state # "none"
          /\ jobs[o].conversation = jobs[j].conversation
          /\ jobs[o].generation = jobs[j].generation
      BY <1>4 DEF MInv, MessagesFromJobs
    <2>2. PlaceKept(o) /\ (jobs[o].state = "succeeded" => jobs'[o].state = "succeeded")
      BY <1>1, <2>1 DEF PlacesStay
    <2>3. ASSUME jobs'[o].state = "succeeded", jobs[o].order < jobs[j].order
          PROVE  jobs[o].state = "succeeded"
      <3>1. jobs[o].state \notin ACTIVE
        <4>1. ~EarlierActive(j)
          BY DEF IInv, TurnsInOrder
        <4>2. o \in TurnsOf(jobs, jobs[j].conversation, jobs[j].generation)
          BY <2>1 DEF TurnsOf, JobsOf
        <4> QED BY <4>1, <4>2, <2>3 DEF EarlierActive
      <3>2. jobs[o].state \in JobStates
        BY <2>1 DEF IInv, TypeOK, Job
      <3>3. jobs[o].state \in Final
        BY <3>1, <3>2, <2>1 DEF JobStates
      <3> QED BY <3>3, <2>1, <2>3, StatesAdvance
    <2> QED BY <1>2, <2>2, <2>3 DEF PlaceKept
  <1>5. ASSUME NEW m \in messages', m \notin messages PROVE m \notin TurnContext(j)'
    <2>1. SUFFICES ASSUME Turn(m), m.conversation = jobs[j].conversation,
                          m.origin = j \/ jobs'[m.origin].state = "succeeded"
                   PROVE  FALSE
      BY <1>2 DEF TurnContext, Turn, PlaceKept
    <2>2. CASE /\ m.origin \in JobIds
               /\ jobs[m.origin].state = "none" /\ jobs'[m.origin].state = "queued"
      BY <2>1, <2>2
    <2>3. CASE /\ m.origin \in JobIds
               /\ jobs[m.origin].state = "running" /\ jobs'[m.origin].state = "succeeded"
               /\ m.conversation = jobs[m.origin].conversation
      <3>1. m.origin = j
        BY <2>1, <2>3, OneRuns DEF IInv
      <3> QED BY <3>1, <2>3
    <2> QED BY <2>1, <2>2, <2>3, <1>5, NewMessages
  <1>6. ASSUME NEW m \in messages PROVE m \in TurnContext(j)' <=> m \in TurnContext(j)
    BY <1>2, <1>3, <1>4 DEF TurnContext, Turn, PlaceKept
  <1>7. \A m \in TurnContext(j)' : m \in messages'
    BY DEF TurnContext
  <1>8. \A m \in TurnContext(j) : m \in messages
    BY DEF TurnContext
  <1> QED BY <1>5, <1>6, <1>7, <1>8

\* What Leases.context told a running attempt stays true until it commits or
\* loses its authority: no earlier turn settles and no message of a turn is
\* added or withdrawn meanwhile.
THEOREM ContextStaysStable == Spec => ContextIsStable
  <1> DEFINE Step == \A j \in JobIds :
                jobs[j].state = "running" /\ jobs'[j].state = "running"
                    => TurnContext(j)' = TurnContext(j)
  <1>1. Init => MInv
    BY DEF Init, MInv, MessagesFromJobs, SequencesBelow, MessagesUnique, RepliesAfterTurns,
           RepliesInTurnOrder
  <1>2. IInv /\ IInv' /\ MInv /\ [Next]_vars => MInv'
    BY MessagesStayInOrder
  <1>3. IInv /\ MInv /\ [Next]_vars => [Step]_vars
    BY ContextStays
  <1>4. ContextIsStable <=> [][Step]_vars
    BY DEF ContextIsStable
  <1> HIDE DEF Step
  <1> QED BY <1>1, <1>2, <1>3, <1>4, Invariance, PTL DEF Spec

-----------------------------------------------------------------------------
(* Sets that are listed in the order of numbers *)

\* s lists the members of S in the order of their numbers.
Lists(s, S, number) ==
    /\ s \in Seq(S)
    /\ \A x \in S : number[x] \in Nat
    /\ \A x \in S : \E i \in 1 .. Len(s) : s[i] = x
    /\ \A i, k \in 1 .. Len(s) : i < k => number[s[i]] < number[s[k]]

\* A set of naturals that is not empty has a least element.
LEMMA LeastIsThere ==
    ASSUME NEW S, S \subseteq Nat, S # {}
    PROVE  \E x \in S : \A y \in S : x <= y
  <1> DEFINE R == OpToRel(<, Nat)
  <1>1. R = {ss \in Nat \X Nat : ss[1] < ss[2]}
    BY DEF OpToRel
  <1>2. \E x \in S : \A y \in S : <<y, x>> \notin R
    <2>1. IsWellFoundedOn(R, Nat)
      BY NatLessThanWellFounded, Zenon
    <2> HIDE DEF R
    <2> QED BY <2>1, WFMin
  <1> HIDE DEF R
  <1>3. \A x, y \in S : <<y, x>> \notin R => x <= y
    BY <1>1
  <1> QED BY <1>2, <1>3

\* There is one order only: at the least place where two lists differ, each would have a
\* smaller number than the other.
LEMMA ListsAgree ==
    ASSUME NEW S, NEW number, NEW s, NEW t, Lists(s, S, number), Lists(t, S, number),
           Len(s) = Len(t)
    PROVE  s = t
  <1> DEFINE n == Len(s)
             Odd == {i \in 1 .. n : s[i] # t[i]}
  <1>1. n \in Nat /\ n = Len(t) /\ s \in Seq(S) /\ t \in Seq(S)
    BY LenProperties DEF Lists
  <1>2. SUFFICES ASSUME Odd # {} PROVE FALSE
    <2>1. Odd = {} => \A i \in 1 .. Len(s) : s[i] = t[i]
      OBVIOUS
    <2> QED BY <1>1, <2>1, SeqEqual
  <1>3. PICK i \in Odd : \A k \in Odd : i <= k
    <2>1. Odd \subseteq Nat
      BY <1>1
    <2> HIDE DEF Odd
    <2> QED BY <1>2, <2>1, LeastIsThere
  <1>4. i \in 1 .. n /\ s[i] # t[i] /\ \A k \in 1 .. n : k < i => s[k] = t[k]
    <2>1. i \in 1 .. n /\ s[i] # t[i]
      BY <1>3
    <2>2. ASSUME NEW k \in 1 .. n, k < i, s[k] # t[k] PROVE FALSE
      <3>1. k \in Odd
        BY <2>2
      <3> QED BY <1>1, <1>3, <2>1, <2>2, <3>1
    <2> QED BY <2>1, <2>2
  <1>5. s[i] \in S /\ t[i] \in S
    BY <1>1, <1>4, ElementOfSeq
  <1>6. PICK a \in 1 .. n : t[a] = s[i]
    BY <1>1, <1>5 DEF Lists
  <1>7. PICK b \in 1 .. n : s[b] = t[i]
    BY <1>1, <1>5 DEF Lists
  <1>8. \A j, k \in 1 .. n : j < k => number[s[j]] < number[s[k]] /\ number[t[j]] < number[t[k]]
    BY <1>1 DEF Lists
  <1>9. number[s[i]] \in Nat /\ number[t[i]] \in Nat
    BY <1>5 DEF Lists
  <1> HIDE DEF n, Odd
  <1>10. ~ (a < i)
    <2> SUFFICES ASSUME a < i PROVE FALSE
      OBVIOUS
    <2>1. s[a] = s[i] /\ number[s[a]] < number[s[i]]
      BY <1>4, <1>6, <1>8
    <2> QED BY <1>9, <2>1
  <1>11. ~ (b < i)
    <2> SUFFICES ASSUME b < i PROVE FALSE
      OBVIOUS
    <2>1. t[b] = t[i] /\ number[t[b]] < number[t[i]]
      BY <1>4, <1>7, <1>8
    <2> QED BY <1>9, <2>1
  <1>12. i < a /\ i < b
    BY <1>1, <1>4, <1>6, <1>7, <1>10, <1>11
  <1>13. number[t[i]] < number[t[a]] /\ number[s[i]] < number[s[b]]
    BY <1>4, <1>8, <1>12
  <1> QED BY <1>6, <1>7, <1>9, <1>13

\* A set that is listed is finite, and as long as its list.
LEMMA ListsCount ==
    ASSUME NEW S, NEW number, NEW s, Lists(s, S, number)
    PROVE  IsFiniteSet(S) /\ Cardinality(S) = Len(s)
  <1>1. Len(s) \in Nat /\ s \in [1 .. Len(s) -> S]
    BY LenProperties DEF Lists
  <1>2. \A i, k \in 1 .. Len(s) : s[i] = s[k] => i = k
    <2> SUFFICES ASSUME NEW i \in 1 .. Len(s), NEW k \in 1 .. Len(s), s[i] = s[k], i < k
                 PROVE  FALSE
      BY <1>1
    <2>1. number[s[i]] < number[s[k]] /\ number[s[i]] \in Nat
      BY <1>1 DEF Lists
    <2> QED BY <2>1
  <1>3. s \in Bijection(1 .. Len(s), S)
    BY <1>1, <1>2 DEF Lists, Bijection, Injection, Surjection, IsInjective, Range
  <1>4. ExistsBijection(1 .. Len(s), S)
    BY <1>3 DEF ExistsBijection
  <1>5. IsFiniteSet(1 .. Len(s)) /\ Cardinality(1 .. Len(s)) = Len(s)
    BY <1>1, FS_Interval
  <1> QED BY <1>4, <1>5, FS_Bijection

\* So the definition finds the list that there is.
LEMMA ListingIsList ==
    ASSUME NEW S, NEW number, NEW s, Lists(s, S, number)
    PROVE  Listing(S, number) = s
  <1> DEFINE n == Cardinality(S)
             Fits(t) == \A i, k \in DOMAIN t : i < k => number[t[i]] < number[t[k]]
             t == CHOOSE t \in [1 .. n -> S] : Fits(t)
  <1>1. IsFiniteSet(S) /\ n = Len(s) /\ n \in Nat
    BY ListsCount, LenProperties DEF Lists
  <1>2. s \in [1 .. n -> S] /\ DOMAIN s = 1 .. n
    BY <1>1, LenProperties DEF Lists
  <1>3. Fits(s)
    BY <1>1, <1>2 DEF Lists
  <1> HIDE DEF n
  <1>4. t \in [1 .. n -> S] /\ Fits(t)
    <2> HIDE DEF Fits
    <2> QED BY <1>2, <1>3
  <1> HIDE DEF t
  <1>5. DOMAIN t = 1 .. n
    BY <1>4
  <1>6. t \in Seq(S) /\ Len(t) = n
    BY <1>1, <1>4, <1>5
  <1>7. \A i, k \in 1 .. n : i < k => number[t[i]] < number[t[k]]
    BY <1>4, <1>5
  <1>8. \A i, k \in 1 .. n : t[i] = t[k] => i = k
    <2> SUFFICES ASSUME NEW i \in 1 .. n, NEW k \in 1 .. n, t[i] = t[k], i < k
                 PROVE  FALSE
      BY <1>1
    <2>1. number[t[i]] < number[t[k]] /\ number[t[i]] \in Nat
      BY <1>4, <1>7 DEF Lists
    <2> QED BY <2>1
  <1>9. t \in Injection(1 .. n, S)
    BY <1>4, <1>8 DEF Injection, IsInjective
  <1>10. IsFiniteSet(1 .. n) /\ Cardinality(1 .. n) = n
    <2>1. n \in Nat /\ n \in Int /\ 1 \in Int
      BY <1>1
    <2>2. /\ IsFiniteSet(1 .. n)
          /\ Cardinality(1 .. n) = (IF 1 > n THEN 0 ELSE n - 1 + 1)
      BY <2>1, FS_Interval
    <2> QED BY <2>1, <2>2
  <1>11. t \in Surjection(1 .. n, S)
    BY <1>1, <1>9, <1>10, FS_Injection DEF n
  <1>12. \A x \in S : \E i \in 1 .. n : t[i] = x
    BY <1>11 DEF Surjection, Range
  <1>13. Lists(t, S, number)
    BY <1>6, <1>7, <1>12 DEF Lists
  <1>14. s = t
    BY <1>1, <1>6, <1>13, ListsAgree
  <1> QED BY <1>14 DEF t, Listing, n

\* A list and its set grow and shrink together.
LEMMA NothingIsListed ==
    ASSUME NEW number PROVE Lists(<<>>, {}, number)
BY DEF Lists

LEMMA ListGrows ==
    ASSUME NEW S, NEW number, NEW s, Lists(s, S, number), NEW x,
           number[x] \in Nat, \A y \in S : number[y] < number[x]
    PROVE  Lists(Append(s, x), S \cup {x}, number)
  <1> DEFINE T == S \cup {x}
             t == Append(s, x)
  <1>1. Len(s) \in Nat /\ s \in Seq(S) /\ s \in Seq(T)
    BY LenProperties, SeqMonotonic DEF Lists
  <1>2. /\ t \in Seq(T) /\ Len(t) = Len(s) + 1
        /\ (\A i \in 1 .. Len(s) : t[i] = s[i]) /\ t[Len(s) + 1] = x
    BY <1>1, AppendProperties
  <1>3. \A i \in 1 .. Len(s) : s[i] \in S
    BY <1>1, ElementOfSeq
  <1> HIDE DEF t
  <1>4. \A y \in T : number[y] \in Nat
    BY DEF Lists
  <1>5. \A y \in T : \E i \in 1 .. Len(t) : t[i] = y
    <2>1. ASSUME NEW y \in S PROVE \E i \in 1 .. Len(t) : t[i] = y
      <3>1. PICK i \in 1 .. Len(s) : s[i] = y
        BY DEF Lists
      <3>2. i \in 1 .. Len(t) /\ t[i] = y
        BY <1>1, <1>2, <3>1
      <3> QED BY <3>2
    <2>2. Len(s) + 1 \in 1 .. Len(t)
      BY <1>1, <1>2
    <2> QED BY <1>2, <2>1, <2>2
  <1>6. ASSUME NEW i \in 1 .. Len(t), NEW k \in 1 .. Len(t), i < k
        PROVE  number[t[i]] < number[t[k]]
    <2>1. i \in 1 .. Len(s) /\ t[i] = s[i]
      BY <1>1, <1>2, <1>6
    <2>2. CASE k \in 1 .. Len(s)
      BY <1>2, <1>6, <2>1, <2>2 DEF Lists
    <2>3. CASE k = Len(s) + 1
      BY <1>2, <1>3, <2>1, <2>3
    <2> QED BY <1>1, <1>2, <2>2, <2>3
  <1> QED BY <1>2, <1>4, <1>5, <1>6 DEF Lists, t

LEMMA ListShrinks ==
    ASSUME NEW S, NEW number, NEW s, Lists(s, S, number), NEW i \in 1 .. Len(s)
    PROVE  /\ Lists(Log!RemoveAt(s, i), S \ {s[i]}, number)
           /\ i = 1 => Log!RemoveAt(s, i) = Tail(s)
  <1> DEFINE T == S \ {s[i]}
             a == SubSeq(s, 1, i - 1)
             b == SubSeq(s, i + 1, Len(s))
             t == a \o b
             n == Len(s)
  <1>1. n \in Nat /\ s \in Seq(S) /\ i \in 1 .. n
    BY LenProperties DEF Lists
  <1>2. \A k \in 1 .. n : s[k] \in S
    BY <1>1, ElementOfSeq
  <1>3. \A k \in 1 .. n : k # i => s[k] \in T
    <2> SUFFICES ASSUME NEW k \in 1 .. n, k # i, s[k] = s[i] PROVE FALSE
      BY <1>2
    <2>1. number[s[i]] < number[s[k]] \/ number[s[k]] < number[s[i]]
      <3>1. k < i \/ i < k
        BY <1>1
      <3> QED BY <1>1, <3>1 DEF Lists
    <2>2. number[s[i]] \in Nat
      BY <1>1, <1>2 DEF Lists
    <2> QED BY <2>1, <2>2
  <1>4. /\ a \in Seq(T) /\ Len(a) = i - 1 /\ \A k \in 1 .. i - 1 : a[k] = s[k]
    <2>1. \A k \in 1 .. i - 1 : s[k] \in T
      BY <1>1, <1>3
    <2>2. i - 1 \in Int /\ 1 \in Int
      BY <1>1
    <2>3. /\ a \in Seq(T) /\ Len(a) = (IF 1 <= i - 1 THEN i - 1 - 1 + 1 ELSE 0)
          /\ \A k \in 1 .. (i - 1) - 1 + 1 : a[k] = s[1 + k - 1]
      BY <2>1, <2>2, SubSeqProperties
    <2> HIDE DEF a
    <2> QED BY <1>1, <2>3
  <1>5. /\ b \in Seq(T) /\ Len(b) = n - i /\ \A k \in 1 .. n - i : b[k] = s[i + k]
    <2>1. \A k \in i + 1 .. n : s[k] \in T
      BY <1>1, <1>3
    <2>2. i + 1 \in Int /\ n \in Int
      BY <1>1
    <2>3. /\ b \in Seq(T) /\ Len(b) = (IF i + 1 <= n THEN n - (i + 1) + 1 ELSE 0)
          /\ \A k \in 1 .. n - (i + 1) + 1 : b[k] = s[(i + 1) + k - 1]
      BY <2>1, <2>2, SubSeqProperties
    <2> HIDE DEF b
    <2> QED BY <1>1, <2>3
  <1> HIDE DEF a, b
  <1>6. /\ t \in Seq(T) /\ Len(t) = n - 1
        /\ \A k \in 1 .. n - 1 : t[k] = IF k <= i - 1 THEN a[k] ELSE b[k - (i - 1)]
    <2>1. /\ t \in Seq(T) /\ Len(t) = Len(a) + Len(b)
          /\ \A k \in 1 .. Len(a) + Len(b) : t[k] = IF k <= Len(a) THEN a[k] ELSE b[k - Len(a)]
      <3>1. a \in Seq(T) /\ b \in Seq(T)
        BY <1>4, <1>5
      <3> HIDE DEF T
      <3> QED BY <3>1, ConcatProperties
    <2>2. Len(a) + Len(b) = n - 1
      BY <1>1, <1>4, <1>5
    <2> QED BY <1>4, <2>1, <2>2
  <1> HIDE DEF t
  <1>7. \A k \in 1 .. n - 1 : t[k] = IF k < i THEN s[k] ELSE s[k + 1]
    <2> SUFFICES ASSUME NEW k \in 1 .. n - 1
                 PROVE  t[k] = IF k < i THEN s[k] ELSE s[k + 1]
      OBVIOUS
    <2>1. CASE k < i
      <3>1. k \in 1 .. i - 1
        BY <1>1, <2>1
      <3> QED BY <1>4, <1>6, <2>1, <3>1
    <2>2. CASE ~ (k < i)
      <3>1. k - (i - 1) \in 1 .. n - i /\ i + (k - (i - 1)) = k + 1 /\ ~ (k <= i - 1)
        BY <1>1, <2>2
      <3> QED BY <1>5, <1>6, <2>2, <3>1
    <2> QED BY <2>1, <2>2
  <1>8. ASSUME NEW x \in T PROVE \E k \in 1 .. n - 1 : t[k] = x
    <2>1. PICK k \in 1 .. n : s[k] = x
      BY DEF Lists
    <2>2. k # i
      BY <2>1
    <2>3. CASE k < i
      <3>1. k \in 1 .. n - 1
        BY <1>1, <2>3
      <3> QED BY <1>7, <2>1, <2>3, <3>1
    <2>4. CASE i < k
      <3>1. k - 1 \in 1 .. n - 1 /\ ~ (k - 1 < i) /\ (k - 1) + 1 = k
        BY <1>1, <2>4
      <3> QED BY <1>7, <2>1, <3>1
    <2> QED BY <1>1, <2>2, <2>3, <2>4
  <1>9. ASSUME NEW j \in 1 .. n - 1, NEW k \in 1 .. n - 1, j < k
        PROVE  number[t[j]] < number[t[k]]
    <2> DEFINE p(m) == IF m < i THEN m ELSE m + 1
    <2>1. p(j) \in 1 .. n /\ p(k) \in 1 .. n /\ p(j) < p(k)
      BY <1>1, <1>9
    <2>2. t[j] = s[p(j)] /\ t[k] = s[p(k)]
      BY <1>7
    <2> HIDE DEF p
    <2> QED BY <2>1, <2>2 DEF Lists
  <1>10. Lists(t, T, number)
    BY <1>6, <1>8, <1>9 DEF Lists
  <1>11. i = 1 => t = Tail(s)
    <2> SUFFICES ASSUME i = 1 PROVE t = Tail(s)
      OBVIOUS
    <2>1. s # <<>>
      BY <1>1, EmptySeq
    <2>2. /\ Tail(s) \in Seq(S) /\ Len(Tail(s)) = n - 1
          /\ \A k \in 1 .. Len(Tail(s)) : Tail(s)[k] = s[k + 1]
      BY <1>1, <2>1, HeadTailProperties
    <2>3. T \subseteq S
      OBVIOUS
    <2>4. t \in Seq(S)
      BY <1>6, <2>3, SeqMonotonic
    <2>5. Len(t) = Len(Tail(s)) /\ \A k \in 1 .. Len(t) : t[k] = Tail(s)[k]
      BY <1>6, <1>7, <2>2
    <2> QED BY <2>2, <2>4, <2>5, SeqEqual
  <1>12. t = Log!RemoveAt(s, i)
    BY DEF t, a, b, n, Log!RemoveAt
  <1> QED BY <1>10, <1>11, <1>12 DEF T

\* Only the numbers of the members count.
LEMMA ListKeeps ==
    ASSUME NEW S, NEW number, NEW other, NEW s, Lists(s, S, number),
           \A x \in S : other[x] = number[x]
    PROVE  Lists(s, S, other)
  <1>1. \A i \in 1 .. Len(s) : s[i] \in S
    BY ElementOfSeq DEF Lists
  <1> QED BY <1>1 DEF Lists

-----------------------------------------------------------------------------
(* The log of turns *)

\* The list of the open turns, and that of the replies, exist.
Listed ==
    \A c \in Conversations :
        /\ Lists(OpenTurns(c), UnfinishedJobs(c), Orders)
        /\ Lists(Listing(ReplyRows(c), Places), ReplyRows(c), Places)

\* Nothing happens to the open turns of c, or to its replies.
QueueStays(c) ==
    /\ UnfinishedJobs(c)' = UnfinishedJobs(c)
    /\ \A j \in UnfinishedJobs(c) : jobs'[j].order = jobs[j].order

RepliesStay(c) == ReplyRows(c)' = ReplyRows(c)

LEMMA QueueKept ==
    ASSUME Listed, NEW c \in Conversations, QueueStays(c)
    PROVE  OpenTurns(c)' = OpenTurns(c) /\ Lists(OpenTurns(c), UnfinishedJobs(c), Orders)'
  <1> DEFINE s == OpenTurns(c)
             S == UnfinishedJobs(c)
  <1>1. Lists(s, S, Orders)
    BY DEF Listed
  <1>2. S \subseteq JobIds
    BY DEF UnfinishedJobs, JobsOf
  <1>3. S' = S /\ \A j \in S : Orders'[j] = Orders[j]
    BY <1>2 DEF QueueStays, Orders
  <1>4. OpenTurns(c)' = Listing(S', Orders')
    BY DEF OpenTurns
  <1> HIDE DEF s, S
  <1>5. Lists(s, S, Orders')
    BY <1>1, <1>3, ListKeeps
  <1>6. Listing(S', Orders') = s
    BY <1>3, <1>5, ListingIsList
  <1>7. OpenTurns(c)' = s
    BY <1>4, <1>6
  <1> QED BY <1>3, <1>5, <1>7 DEF s, S

LEMMA RepliesKept ==
    ASSUME Listed, NEW c \in Conversations, RepliesStay(c)
    PROVE  RepliesOf(c)' = RepliesOf(c)
           /\ Lists(Listing(ReplyRows(c), Places), ReplyRows(c), Places)'
  <1> DEFINE S == ReplyRows(c)
             s == Listing(S, Places)
  <1>1. Lists(s, S, Places)
    BY DEF Listed
  <1>2. S \subseteq messages /\ S' \subseteq messages'
    BY DEF ReplyRows
  <1>3. S' = S /\ \A m \in S : Places'[m] = Places[m]
    BY <1>2 DEF RepliesStay, Places
  <1>4. RepliesOf(c) = [i \in 1 .. Len(s) |-> s[i].origin]
    BY DEF RepliesOf
  <1>5. RepliesOf(c)' = [i \in 1 .. Len(Listing(S', Places')) |-> Listing(S', Places')[i].origin]
    BY DEF RepliesOf
  <1> HIDE DEF S
  <1>6. Lists(s, S, Places')
    <2> HIDE DEF s
    <2> QED BY <1>1, <1>3, ListKeeps
  <1>7. Listing(S', Places') = s
    <2> HIDE DEF s
    <2> QED BY <1>3, <1>6, ListingIsList
  <1>8. Lists(Listing(S', Places'), S', Places')
    BY <1>3, <1>6, <1>7
  <1> HIDE DEF s
  <1>9. RepliesOf(c)' = RepliesOf(c)
    BY <1>4, <1>5, <1>7
  <1> QED BY <1>8, <1>9 DEF S

\* One entry of a table changes.
LEMMA OneEntry ==
    ASSUME NEW D, NEW f, NEW g, NEW c \in D, NEW x,
           f = [d \in D |-> f[d]], g = [d \in D |-> g[d]],
           g[c] = x, \A d \in D : d # c => g[d] = f[d]
    PROVE  g = [f EXCEPT ![c] = x]
  OBVIOUS

\* What the tables read as, before and after.
LEMMA Entries ==
    /\ \A c \in Conversations : Queues[c] = OpenTurns(c) /\ Queues'[c] = OpenTurns(c)'
    /\ \A c \in Conversations : Replies[c] = RepliesOf(c) /\ Replies'[c] = RepliesOf(c)'
    /\ Queues = [c \in Conversations |-> Queues[c]]
    /\ Queues' = [c \in Conversations |-> Queues'[c]]
    /\ Replies = [c \in Conversations |-> Replies[c]]
    /\ Replies' = [c \in Conversations |-> Replies'[c]]
    /\ Reviews = [c \in Conversations |-> Reviews[c]]
    /\ Reviews' = [c \in Conversations |-> Reviews'[c]]
    /\ \A c \in Conversations, j \in JobIds :
          /\ j \in Reviews[c] <=> /\ jobs[j].state = "needs_reconciliation"
                                  /\ jobs[j].conversation = c
          /\ j \in Reviews'[c] <=> /\ jobs'[j].state = "needs_reconciliation"
                                   /\ jobs'[j].conversation = c
    /\ \A c \in Conversations : Reviews[c] \subseteq JobIds /\ Reviews'[c] \subseteq JobIds
    /\ \A j \in JobIds : /\ j \in Ended <=> jobs[j].state \in Final
                         /\ j \in Ended' <=> jobs'[j].state \in Final
    /\ Ended \subseteq JobIds /\ Ended' \subseteq JobIds
    /\ \A c \in Conversations, j \in JobIds :
          /\ j \in UnfinishedJobs(c) <=> jobs[j].state \in Unfinished /\ jobs[j].conversation = c
          /\ j \in UnfinishedJobs(c)' <=> jobs'[j].state \in Unfinished /\ jobs'[j].conversation = c
    /\ \A c \in Conversations : UnfinishedJobs(c) \subseteq JobIds /\ UnfinishedJobs(c)' \subseteq JobIds
  <1>1. /\ \A c \in Conversations : Queues[c] = OpenTurns(c) /\ Queues'[c] = OpenTurns(c)'
        /\ Queues = [c \in Conversations |-> Queues[c]]
    /\ Queues' = [c \in Conversations |-> Queues'[c]]
    BY DEF Queues
  <1>2. /\ \A c \in Conversations : Replies[c] = RepliesOf(c) /\ Replies'[c] = RepliesOf(c)'
        /\ Replies = [c \in Conversations |-> Replies[c]]
        /\ Replies' = [c \in Conversations |-> Replies'[c]]
    BY DEF Replies
  <1>3. /\ Reviews = [c \in Conversations |-> Reviews[c]]
        /\ Reviews' = [c \in Conversations |-> Reviews'[c]]
        /\ \A c \in Conversations : Reviews[c] \subseteq JobIds /\ Reviews'[c] \subseteq JobIds
    BY DEF Reviews, JobsOf
  <1>4. \A c \in Conversations, j \in JobIds :
          /\ j \in Reviews[c] <=> /\ jobs[j].state = "needs_reconciliation"
                                  /\ jobs[j].conversation = c
          /\ j \in Reviews'[c] <=> /\ jobs'[j].state = "needs_reconciliation"
                                   /\ jobs'[j].conversation = c
    BY DEF Reviews, JobsOf
  <1>5. /\ \A j \in JobIds : /\ j \in Ended <=> jobs[j].state \in Final
                             /\ j \in Ended' <=> jobs'[j].state \in Final
        /\ Ended \subseteq JobIds /\ Ended' \subseteq JobIds
    BY DEF Ended
  <1>6. \A c \in Conversations, j \in JobIds :
          /\ j \in UnfinishedJobs(c) <=> jobs[j].state \in Unfinished /\ jobs[j].conversation = c
          /\ j \in UnfinishedJobs(c)' <=> jobs'[j].state \in Unfinished /\ jobs'[j].conversation = c
    BY DEF UnfinishedJobs, JobsOf, Unfinished, Waiting
  <1>7. \A c \in Conversations : UnfinishedJobs(c) \subseteq JobIds /\ UnfinishedJobs(c)' \subseteq JobIds
    BY DEF UnfinishedJobs, JobsOf
  <1> QED BY <1>1, <1>2, <1>3, <1>4, <1>5, <1>6, <1>7

\* A turn leaves its queue.
LEMMA QueueShrinks ==
    ASSUME Listed, NEW c \in Conversations, NEW j \in UnfinishedJobs(c),
           UnfinishedJobs(c)' = UnfinishedJobs(c) \ {j},
           \A k \in UnfinishedJobs(c) : jobs'[k].order = jobs[k].order
    PROVE  /\ Lists(OpenTurns(c), UnfinishedJobs(c), Orders)'
           /\ \E i \in DOMAIN OpenTurns(c) :
                 /\ OpenTurns(c)[i] = j
                 /\ OpenTurns(c)' = Log!RemoveAt(OpenTurns(c), i)
           /\ (\A k \in UnfinishedJobs(c) : ~ (jobs[k].order < jobs[j].order))
                 => /\ OpenTurns(c) # <<>> /\ Head(OpenTurns(c)) = j
                    /\ OpenTurns(c)' = Tail(OpenTurns(c))
  <1> DEFINE s == OpenTurns(c)
             S == UnfinishedJobs(c)
             n == Len(s)
  <1>1. Lists(s, S, Orders)
    BY DEF Listed
  <1>2. S \subseteq JobIds
    BY Entries
  <1>3. S' = S \ {j} /\ \A k \in S : Orders'[k] = Orders[k] /\ Orders[k] = jobs[k].order
    BY <1>2 DEF Orders
  <1>4. OpenTurns(c)' = Listing(S', Orders')
    BY DEF OpenTurns
  <1>5. j \in S
    OBVIOUS
  <1> HIDE DEF s, S
  <1>6. s \in Seq(S) /\ n \in Nat /\ DOMAIN s = 1 .. n /\ \A k \in 1 .. n : s[k] \in S
    <2>1. s \in Seq(S)
      BY <1>1 DEF Lists
    <2> QED BY <2>1, LenProperties, ElementOfSeq
  <1>7. PICK i \in 1 .. n : s[i] = j
    BY <1>1, <1>5 DEF Lists
  <1> DEFINE t == Log!RemoveAt(s, i)
  <1>8. Lists(t, S \ {j}, Orders) /\ (i = 1 => t = Tail(s))
    <2>1. i \in 1 .. Len(s)
      BY <1>7
    <2>2. Lists(Log!RemoveAt(s, i), S \ {s[i]}, Orders)
      BY <1>1, <2>1, ListShrinks
    <2>3. i = 1 => Log!RemoveAt(s, i) = Tail(s)
      BY <1>1, <2>1, ListShrinks
    <2>4. S \ {s[i]} = S \ {j}
      BY <1>7
    <2> QED BY <2>2, <2>3, <2>4
  <1>9. t = Log!RemoveAt(s, i)
    OBVIOUS
  <1> HIDE DEF t, n
  <1>10. Lists(t, S', Orders')
    <2>1. \A k \in S \ {j} : Orders'[k] = Orders[k]
      BY <1>3
    <2>2. Lists(t, S \ {j}, Orders')
      BY <1>8, <2>1, ListKeeps
    <2> QED BY <1>3, <2>2
  <1>11. OpenTurns(c)' = t
    BY <1>4, <1>10, ListingIsList
  <1>12. ASSUME \A k \in S : ~ (jobs[k].order < jobs[j].order)
         PROVE  s # <<>> /\ Head(s) = j /\ t = Tail(s)
    <2>1. i = 1
      <3> SUFFICES ASSUME i # 1 PROVE FALSE
        OBVIOUS
      <3>1. 1 \in 1 .. n /\ 1 < i
        BY <1>6, <1>7
      <3>2. Orders[s[1]] < Orders[s[i]]
        BY <1>1, <1>7, <3>1 DEF Lists, n
      <3>3. s[1] \in S
        BY <1>6, <3>1
      <3> QED BY <1>3, <1>5, <1>7, <1>12, <3>2, <3>3
    <2>2. s # <<>>
      BY <1>6, <1>7, EmptySeq DEF n
    <2>3. Head(s) = s[1]
      BY <1>6, <2>2
    <2> QED BY <1>7, <1>8, <2>1, <2>2, <2>3
  <1>13. Lists(OpenTurns(c), UnfinishedJobs(c), Orders)'
    BY <1>10, <1>11 DEF S
  <1>14. \E k \in DOMAIN s : s[k] = j /\ OpenTurns(c)' = Log!RemoveAt(s, k)
    BY <1>6, <1>7, <1>9, <1>11
  <1> QED BY <1>11, <1>12, <1>13, <1>14 DEF s, S

\* A turn joins it, with a number above all.
LEMMA QueueGrows ==
    ASSUME Listed, NEW c \in Conversations, NEW j \in JobIds,
           UnfinishedJobs(c)' = UnfinishedJobs(c) \cup {j},
           jobs'[j].order \in Nat,
           \A k \in UnfinishedJobs(c) : /\ jobs'[k].order = jobs[k].order
                                        /\ jobs[k].order < jobs'[j].order
    PROVE  /\ Lists(OpenTurns(c), UnfinishedJobs(c), Orders)'
           /\ OpenTurns(c)' = Append(OpenTurns(c), j)
  <1> DEFINE s == OpenTurns(c)
             S == UnfinishedJobs(c)
             t == Append(s, j)
  <1>1. Lists(s, S, Orders)
    BY DEF Listed
  <1>2. S \subseteq JobIds
    BY Entries
  <1>3. S' = S \cup {j} /\ Orders'[j] \in Nat
        /\ \A k \in S : Orders'[k] = Orders[k] /\ Orders'[k] < Orders'[j]
    BY <1>2 DEF Orders
  <1>4. OpenTurns(c)' = Listing(S', Orders')
    BY DEF OpenTurns
  <1> HIDE DEF s, S
  <1>5. Lists(s, S, Orders')
    BY <1>1, <1>3, ListKeeps
  <1>6. Lists(t, S', Orders')
    <2>1. Lists(t, S \cup {j}, Orders')
      BY <1>3, <1>5, ListGrows
    <2> QED BY <1>3, <2>1
  <1> HIDE DEF t
  <1>7. OpenTurns(c)' = t
    BY <1>4, <1>6, ListingIsList
  <1>8. Lists(OpenTurns(c), UnfinishedJobs(c), Orders)'
    BY <1>6, <1>7 DEF S
  <1> QED BY <1>7, <1>8 DEF t, s

\* All turns leave it.
LEMMA QueueEmptied ==
    ASSUME NEW c \in Conversations, UnfinishedJobs(c)' = {}
    PROVE  OpenTurns(c)' = <<>> /\ Lists(OpenTurns(c), UnfinishedJobs(c), Orders)'
  <1> DEFINE S == UnfinishedJobs(c)
  <1>1. OpenTurns(c)' = Listing(S', Orders')
    BY DEF OpenTurns
  <1> HIDE DEF S
  <1>2. S' = {}
    BY DEF S
  <1>3. Lists(<<>>, S', Orders')
    BY <1>2, NothingIsListed
  <1>4. OpenTurns(c)' = <<>>
    BY <1>1, <1>3, ListingIsList
  <1>5. Lists(OpenTurns(c)', S', Orders')
    BY <1>3, <1>4
  <1> QED BY <1>4, <1>5 DEF S

\* The replies of the new generation are yet to come.
LEMMA RepliesEmptied ==
    ASSUME NEW c \in Conversations, ReplyRows(c)' = {}
    PROVE  RepliesOf(c)' = <<>> /\ Lists(Listing(ReplyRows(c), Places), ReplyRows(c), Places)'
  <1> DEFINE S == ReplyRows(c)
  <1>1. RepliesOf(c)' = [i \in 1 .. Len(Listing(S', Places')) |-> Listing(S', Places')[i].origin]
    BY DEF RepliesOf
  <1> HIDE DEF S
  <1>2. S' = {}
    BY DEF S
  <1>3. Lists(<<>>, S', Places')
    BY <1>2, NothingIsListed
  <1>4. Listing(S', Places') = <<>>
    BY <1>3, ListingIsList
  <1>5. Lists(Listing(S', Places'), S', Places')
    BY <1>3, <1>4
  <1>6. RepliesOf(c)' = <<>>
    BY <1>1, <1>4
  <1> QED BY <1>5, <1>6 DEF S

\* A reply comes last.
LEMMA RepliesGrow ==
    ASSUME Listed, NEW c \in Conversations, NEW m,
           ReplyRows(c)' = ReplyRows(c) \cup {m}, m.sequence \in Nat,
           \A n \in ReplyRows(c) : n.sequence < m.sequence
    PROVE  /\ Lists(Listing(ReplyRows(c), Places), ReplyRows(c), Places)'
           /\ RepliesOf(c)' = Append(RepliesOf(c), m.origin)
  <1> DEFINE S == ReplyRows(c)
             s == Listing(S, Places)
             t == Append(s, m)
             r == RepliesOf(c)
  <1>1. Lists(s, S, Places)
    BY DEF Listed
  <1>2. S \subseteq messages /\ S' \subseteq messages'
    BY DEF ReplyRows
  <1>3. S' = S \cup {m} /\ Places'[m] \in Nat
        /\ \A n \in S : Places'[n] = Places[n] /\ Places'[n] < Places'[m]
    BY <1>2 DEF Places
  <1>4. r = [i \in 1 .. Len(s) |-> s[i].origin]
    BY DEF RepliesOf
  <1>5. RepliesOf(c)' = [i \in 1 .. Len(Listing(S', Places')) |-> Listing(S', Places')[i].origin]
    BY DEF RepliesOf
  <1> HIDE DEF s, S, r
  <1>6. Lists(s, S, Places')
    BY <1>1, <1>3, ListKeeps
  <1>7. Lists(t, S', Places')
    <2>1. Lists(t, S \cup {m}, Places')
      BY <1>3, <1>6, ListGrows
    <2> QED BY <1>3, <2>1
  <1>8. s \in Seq(S) /\ Len(s) \in Nat
    BY <1>1, LenProperties DEF Lists
  <1>9. Len(t) = Len(s) + 1 /\ (\A i \in 1 .. Len(s) : t[i] = s[i]) /\ t[Len(s) + 1] = m
    BY <1>8, AppendProperties
  <1> HIDE DEF t
  <1>10. Listing(S', Places') = t
    BY <1>7, ListingIsList
  <1>11. Lists(Listing(S', Places'), S', Places')
    BY <1>7, <1>10
  <1> DEFINE n == Len(s)
  <1>12. RepliesOf(c)' = [i \in 1 .. n + 1 |-> t[i].origin]
    BY <1>5, <1>9, <1>10
  <1>13. [i \in 1 .. n + 1 |-> t[i].origin] = Append([i \in 1 .. n |-> s[i].origin], m.origin)
    <2> DEFINE a == [i \in 1 .. n |-> s[i].origin]
               T == {s[i].origin : i \in 1 .. n} \cup {m.origin}
               b == [i \in 1 .. n + 1 |-> t[i].origin]
    <2> HIDE DEF n
    <2>1. n \in Nat
      BY <1>8 DEF n
    <2>2. a \in [1 .. n -> T] /\ a \in Seq(T) /\ Len(a) = n
      BY <2>1
    <2>3. m.origin \in T
      OBVIOUS
    <2> HIDE DEF T
    <2>4. /\ Append(a, m.origin) \in Seq(T) /\ Len(Append(a, m.origin)) = n + 1
          /\ (\A i \in 1 .. n : Append(a, m.origin)[i] = a[i])
          /\ Append(a, m.origin)[n + 1] = m.origin
      <3> HIDE DEF a
      <3> QED BY <2>2, <2>3, AppendProperties
    <2>5. DOMAIN b = 1 .. n + 1 /\ \A i \in 1 .. n + 1 : b[i] = t[i].origin
      OBVIOUS
    <2>6. \A i \in 1 .. n + 1 : b[i] = Append(a, m.origin)[i]
      <3> SUFFICES ASSUME NEW i \in 1 .. n + 1 PROVE b[i] = Append(a, m.origin)[i]
        OBVIOUS
      <3>1. CASE i \in 1 .. n
        <4>1. t[i] = s[i]
          BY <1>9, <3>1 DEF n
        <4> QED BY <2>4, <2>5, <3>1, <4>1
      <3>2. CASE i = n + 1
        <4>1. t[n + 1] = m
          BY <1>9 DEF n
        <4> HIDE DEF b, a
        <4> QED BY <2>4, <2>5, <3>2, <4>1
      <3> QED BY <2>1, <3>1, <3>2
    <2> HIDE DEF a
    <2>7. Append(a, m.origin) = [i \in 1 .. n + 1 |-> Append(a, m.origin)[i]]
      BY <2>1, <2>4, LenProperties
    <2> QED BY <2>5, <2>6, <2>7 DEF a
  <1>14. RepliesOf(c)' = Append(r, m.origin)
    BY <1>4, <1>12, <1>13
  <1> QED BY <1>11, <1>14 DEF S, r

\* How the states of a turn in the queue, in review and ended differ.
LEMMA TurnStates ==
    /\ Final \cap Unfinished = {} /\ "needs_reconciliation" \notin Unfinished \cup Final
    /\ "none" \notin Final \cup Unfinished /\ "none" # "needs_reconciliation"
    /\ Waiting \subseteq Unfinished /\ {"running", "retry_pending", "queued"} \subseteq Unfinished
    /\ "retry_pending" \notin Final /\ {"succeeded", "cancelled"} \subseteq Final
    /\ Unfinished \subseteq ACTIVE
  BY DEF Final, Unfinished, Waiting, ACTIVE

LEMMA QueuesKept ==
    ASSUME Listed, \A c \in Conversations : QueueStays(c)
    PROVE  /\ Queues' = Queues
           /\ \A c \in Conversations : Lists(OpenTurns(c), UnfinishedJobs(c), Orders)'
  <1>1. \A c \in Conversations :
            OpenTurns(c)' = OpenTurns(c) /\ Lists(OpenTurns(c), UnfinishedJobs(c), Orders)'
    BY QueueKept
  <1>2. Queues' = Queues
    BY <1>1 DEF Queues
  <1> QED BY <1>1, <1>2

LEMMA AllRepliesKept ==
    ASSUME Listed, \A c \in Conversations : RepliesStay(c)
    PROVE  /\ Replies' = Replies
           /\ \A c \in Conversations :
                 Lists(Listing(ReplyRows(c), Places), ReplyRows(c), Places)'
  <1>1. \A c \in Conversations :
            /\ RepliesOf(c)' = RepliesOf(c)
            /\ Lists(Listing(ReplyRows(c), Places), ReplyRows(c), Places)'
    BY RepliesKept
  <1>2. Replies' = Replies
    BY <1>1 DEF Replies
  <1> QED BY <1>1, <1>2

LEMMA ListedAfter ==
    ASSUME \A c \in Conversations : Lists(OpenTurns(c), UnfinishedJobs(c), Orders)',
           \A c \in Conversations :
                 Lists(Listing(ReplyRows(c), Places), ReplyRows(c), Places)'
    PROVE  Listed'
  BY DEF Listed

\* A step in which no job changes its standing.
LEMMA SameStanding ==
    ASSUME Listed,
           \A k \in JobIds :
              /\ jobs'[k].conversation = jobs[k].conversation
              /\ jobs'[k].order = jobs[k].order
              /\ \/ jobs'[k].state = jobs[k].state
                 \/ jobs[k].state \in Unfinished /\ jobs'[k].state \in Unfinished,
           \A c \in Conversations : RepliesStay(c)
    PROVE  Listed' /\ UNCHANGED Log!logVars
  <1>1. \A c \in Conversations : QueueStays(c)
    <2> SUFFICES ASSUME NEW c \in Conversations PROVE QueueStays(c)
      OBVIOUS
    <2>1. \A j \in JobIds : j \in UnfinishedJobs(c)' <=> j \in UnfinishedJobs(c)
      BY Entries
    <2>2. UnfinishedJobs(c) \subseteq JobIds /\ UnfinishedJobs(c)' \subseteq JobIds
      BY Entries
    <2> QED BY <2>1, <2>2 DEF QueueStays
  <1>2. Reviews' = Reviews
    <2>1. \A c \in Conversations, j \in JobIds : j \in Reviews'[c] <=> j \in Reviews[c]
      BY Entries, TurnStates
    <2>2. \A c \in Conversations : Reviews[c] \subseteq JobIds /\ Reviews'[c] \subseteq JobIds
      BY Entries
    <2>3. \A c \in Conversations : Reviews'[c] = Reviews[c]
      BY <2>1, <2>2
    <2> QED BY <2>3, Entries
  <1>3. Ended' = Ended
    <2>1. \A j \in JobIds : j \in Ended' <=> j \in Ended
      BY Entries, TurnStates
    <2>2. Ended \subseteq JobIds /\ Ended' \subseteq JobIds
      BY Entries
    <2> QED BY <2>1, <2>2
  <1>4. Queues' = Queues /\ Replies' = Replies /\ Listed'
    BY <1>1, QueuesKept, AllRepliesKept, ListedAfter
  <1> QED BY <1>2, <1>3, <1>4 DEF Log!logVars

\* Only the reply of a turn shows among the replies.
LEMMA MessagesKeptReplies ==
    ASSUME MessagesKept,
           \A d \in Conversations : conversations'[d].generation = conversations[d].generation
    PROVE  \A d \in Conversations : RepliesStay(d)
  BY DEF MessagesKept, RepliesStay, ReplyRows

LEMMA NextKeepsReplies ==
    ASSUME NEW m, IsNext(m), NEW d \in Conversations,
           m.role # "assistant" \/ m.conversation # d,
           conversations'[d].generation = conversations[d].generation
    PROVE  RepliesStay(d)
  <1>1. messages' = messages \cup {m}
    BY DEF IsNext
  <1> QED BY <1>1 DEF RepliesStay, ReplyRows

LEMMA AddsKeepsReplies ==
    ASSUME IInv, NEW c \in Conversations, NEW role \in Roles, role # "assistant",
           NEW origin \in JobIds \cup Origins, Adds(c, role, origin),
           \A d \in Conversations : conversations'[d].generation = conversations[d].generation
    PROVE  \A d \in Conversations : RepliesStay(d)
  <1>1. CASE MessagesKept
    BY <1>1, MessagesKeptReplies
  <1>2. CASE ~MessagesKept
    <2>1. PICK m \in Message : IsNext(m) /\ m.role = role
      BY <1>2, AddsOne
    <2> QED BY <2>1, NextKeepsReplies
  <1> QED BY <1>1, <1>2

\* Retries, deadlines, notices and what the operator does elsewhere are no steps of the log.
LEMMA CalmIsNoTurn ==
    ASSUME IInv, Listed, Calm PROVE Listed' /\ UNCHANGED Log!logVars
  <1>1. /\ \A k \in JobIds : /\ jobs'[k].state = jobs[k].state
                             /\ jobs'[k].conversation = jobs[k].conversation
                             /\ jobs'[k].order = jobs[k].order
        /\ \A d \in Conversations : conversations'[d].generation = conversations[d].generation
    BY DEF Calm, KeepsPlaces
  <1>2. \A d \in Conversations : RepliesStay(d)
    <2>1. CASE MessagesKept
      BY <1>1, <2>1, MessagesKeptReplies
    <2>2. ASSUME NEW c \in Conversations, NEW o \in Origins, Adds(c, "notice", o)
          PROVE  \A d \in Conversations : RepliesStay(d)
      <3>1. "notice" \in Roles /\ o \in JobIds \cup Origins /\ "notice" # "assistant"
        BY DEF Roles
      <3> QED BY <1>1, <2>2, <3>1, AddsKeepsReplies
    <2> QED BY <2>1, <2>2 DEF Calm
  <1> QED BY <1>1, <1>2, SameStanding

LEMMA ClaimIsNoTurn ==
    ASSUME IInv, Listed, NEW j \in JobIds, Claims(j) PROVE Listed' /\ UNCHANGED Log!logVars
  <1>1. /\ jobs[j].state \in Waiting /\ jobs'[j].state = "running" /\ PlaceKept(j)
        /\ \A k \in JobIds : k # j => jobs'[k] = jobs[k]
        /\ conversations' = conversations /\ messages' = messages
    BY DEF Claims
  <1>2. \A k \in JobIds :
              /\ jobs'[k].conversation = jobs[k].conversation
              /\ jobs'[k].order = jobs[k].order
              /\ \/ jobs'[k].state = jobs[k].state
                 \/ jobs[k].state \in Unfinished /\ jobs'[k].state \in Unfinished
    BY <1>1, TurnStates DEF PlaceKept
  <1>3. \A d \in Conversations : RepliesStay(d)
    BY <1>1, MessagesKeptReplies DEF MessagesKept
  <1> QED BY <1>2, <1>3, SameStanding

\* Work.accept submits a turn.
LEMMA AcceptSubmits ==
    ASSUME IInv, IInv', Listed, NEW c \in Conversations, NEW j \in JobIds, Accepts(c, j)
    PROVE  Listed' /\ Log!Submit(c, j)
  <1>1. /\ jobs[j].state = "none" /\ jobs'[j].state = "queued" /\ jobs'[j].conversation = c
        /\ jobs'[j].order = conversations[c].next_job_order
        /\ \A k \in JobIds : k # j => jobs'[k] = jobs[k]
        /\ \A d \in Conversations : conversations'[d].generation = conversations[d].generation
        /\ Adds(c, "user", j)
    BY DEF Accepts
  <1>2. \A d \in Conversations : RepliesStay(d)
    <2>1. "user" \in Roles /\ j \in JobIds \cup Origins /\ "user" # "assistant"
      BY DEF Roles
    <2> QED BY <1>1, <2>1, AddsKeepsReplies
  <1>3. \A d \in Conversations : d # c => QueueStays(d)
    <2> SUFFICES ASSUME NEW d \in Conversations, d # c PROVE QueueStays(d)
      OBVIOUS
    <2>1. \A k \in JobIds : k \in UnfinishedJobs(d)' <=> k \in UnfinishedJobs(d)
      BY <1>1, Entries, TurnStates
    <2>2. UnfinishedJobs(d) \subseteq JobIds /\ UnfinishedJobs(d)' \subseteq JobIds
      BY Entries
    <2>3. j \notin UnfinishedJobs(d)
      BY <1>1, Entries, TurnStates
    <2> QED BY <1>1, <2>1, <2>2, <2>3 DEF QueueStays
  <1>4. UnfinishedJobs(c)' = UnfinishedJobs(c) \cup {j}
    <2>1. \A k \in JobIds : k \in UnfinishedJobs(c)' <=> k \in UnfinishedJobs(c) \/ k = j
      BY <1>1, Entries, TurnStates
    <2>2. UnfinishedJobs(c) \subseteq JobIds /\ UnfinishedJobs(c)' \subseteq JobIds
      BY Entries
    <2> QED BY <2>1, <2>2
  <1>5. \A k \in UnfinishedJobs(c) : /\ jobs'[k].order = jobs[k].order
                                     /\ jobs[k].order < jobs'[j].order
    <2> SUFFICES ASSUME NEW k \in UnfinishedJobs(c)
                 PROVE  jobs'[k].order = jobs[k].order /\ jobs[k].order < jobs'[j].order
      OBVIOUS
    <2>1. k \in JobIds /\ jobs[k].state \in Unfinished /\ jobs[k].conversation = c
      BY Entries
    <2>2. k # j /\ jobs[k].state # "none"
      BY <1>1, <2>1, TurnStates
    <2>3. jobs[k].generation = conversations[c].generation
      BY <2>1 DEF IInv, NoStaleWork, ConversationOf
    <2>4. jobs[k].order < conversations[c].next_job_order
      BY <2>1, <2>2, <2>3 DEF IInv, RowsOK, ConversationOf
    <2> QED BY <1>1, <2>1, <2>2, <2>4
  <1>6. jobs'[j].order \in Nat
    BY DEF IInv, TypeOK, Job
  <1>7. /\ OpenTurns(c)' = Append(OpenTurns(c), j)
        /\ Lists(OpenTurns(c), UnfinishedJobs(c), Orders)'
    BY <1>4, <1>5, <1>6, QueueGrows
  <1>8. \A d \in Conversations : d # c =>
           OpenTurns(d)' = OpenTurns(d) /\ Lists(OpenTurns(d), UnfinishedJobs(d), Orders)'
    BY <1>3, QueueKept
  <1>9. Listed' /\ Replies' = Replies
    BY <1>2, <1>7, <1>8, AllRepliesKept, ListedAfter
  <1>10. Queues' = [Queues EXCEPT ![c] = Append(@, j)]
    BY <1>7, <1>8 DEF Queues
  <1>11. Reviews' = Reviews
    <2>1. \A d \in Conversations, k \in JobIds : k \in Reviews'[d] <=> k \in Reviews[d]
      BY <1>1, Entries, TurnStates
    <2>2. \A d \in Conversations : Reviews[d] \subseteq JobIds /\ Reviews'[d] \subseteq JobIds
      BY Entries
    <2>3. \A d \in Conversations : Reviews'[d] = Reviews[d]
      BY <2>1, <2>2
    <2> QED BY <2>3, Entries
  <1>12. Ended' = Ended
    <2>1. \A k \in JobIds : k \in Ended' <=> k \in Ended
      BY <1>1, Entries, TurnStates
    <2>2. Ended \subseteq JobIds /\ Ended' \subseteq JobIds
      BY Entries
    <2> QED BY <2>1, <2>2
  <1>13. ~Log!Known(j)
    <2>1. j \notin Ended /\ \A d \in Conversations : j \notin Reviews[d]
      BY <1>1, Entries, TurnStates
    <2>2. \A d \in Conversations : j \notin Log!Range(Queues[d])
      <3> SUFFICES ASSUME NEW d \in Conversations, j \in Log!Range(Queues[d]) PROVE FALSE
        OBVIOUS
      <3>1. Lists(OpenTurns(d), UnfinishedJobs(d), Orders) /\ Queues[d] = OpenTurns(d)
        BY Entries DEF Listed
      <3>2. \A i \in DOMAIN OpenTurns(d) : OpenTurns(d)[i] \in UnfinishedJobs(d)
        BY <3>1, LenProperties, ElementOfSeq DEF Lists
      <3>3. j \in UnfinishedJobs(d)
        BY <3>1, <3>2 DEF Log!Range
      <3> QED BY <1>1, <3>3, Entries, TurnStates
    <2> QED BY <2>1, <2>2 DEF Log!Known
  <1> QED BY <1>9, <1>10, <1>11, <1>12, <1>13 DEF Log!Submit

\* The queue holds the open turns, each of them.
LEMMA QueueRange ==
    ASSUME Listed, NEW c \in Conversations PROVE Log!Range(Queues[c]) = UnfinishedJobs(c)
  <1> DEFINE s == OpenTurns(c)
             S == UnfinishedJobs(c)
  <1>1. Lists(s, S, Orders) /\ Queues[c] = s
    BY Entries DEF Listed
  <1> HIDE DEF s, S
  <1>2. s \in Seq(S) /\ DOMAIN s = 1 .. Len(s) /\ \A i \in 1 .. Len(s) : s[i] \in S
    <2>1. s \in Seq(S)
      BY <1>1 DEF Lists
    <2> QED BY <2>1, LenProperties, ElementOfSeq
  <1>3. \A x \in S : \E i \in 1 .. Len(s) : s[i] = x
    BY <1>1 DEF Lists
  <1> QED BY <1>1, <1>2, <1>3 DEF Log!Range, S

\* Where a job that settles goes.
LEMMA SettledStanding ==
    ASSUME IInv, Listed, NEW j \in JobIds, NEW s \in Targets, Settles(j, s), s # "retry_pending",
           NEW c, jobs[j].conversation = c
    PROVE  /\ c \in Conversations /\ j \in UnfinishedJobs(c)
           /\ UnfinishedJobs(c)' = UnfinishedJobs(c) \ {j}
           /\ \A k \in JobIds : jobs'[k].order = jobs[k].order
           /\ \A d \in Conversations : d # c => QueueStays(d)
           /\ s = "needs_reconciliation" =>
                 Reviews' = [Reviews EXCEPT ![c] = @ \cup {j}] /\ Ended' = Ended
           /\ s # "needs_reconciliation" => Reviews' = Reviews /\ Ended' = Ended \cup {j}
  <1>1. /\ jobs[j].state \in Unfinished /\ jobs'[j].state = s
        /\ jobs'[j].conversation = c /\ jobs'[j].order = jobs[j].order
        /\ \A k \in JobIds : k # j => jobs'[k] = jobs[k]
    BY DEF Settles, SettlesTo
  <1>2. s \in Final \cup {"needs_reconciliation"}
    BY DEF Targets
  <1>3. jobs[j].state # "none" /\ s \notin Unfinished
    BY <1>1, <1>2, TurnStates
  <1>4. c \in Conversations
    BY <1>3 DEF IInv, RowsOK
  <1>5. j \in UnfinishedJobs(c)
    BY <1>1, <1>4, Entries
  <1>6. UnfinishedJobs(c)' = UnfinishedJobs(c) \ {j}
    <2>1. \A k \in JobIds : k \in UnfinishedJobs(c)' <=> k \in UnfinishedJobs(c) /\ k # j
      BY <1>1, <1>3, <1>4, Entries
    <2>2. UnfinishedJobs(c) \subseteq JobIds /\ UnfinishedJobs(c)' \subseteq JobIds
      BY <1>4, Entries
    <2> QED BY <2>1, <2>2
  <1>7. \A k \in JobIds : jobs'[k].order = jobs[k].order
    BY <1>1
  <1>8. ASSUME NEW d \in Conversations, d # c PROVE QueueStays(d)
    <2>1. \A k \in JobIds : k \in UnfinishedJobs(d)' <=> k \in UnfinishedJobs(d)
      BY <1>1, <1>3, <1>8, Entries
    <2>2. UnfinishedJobs(d) \subseteq JobIds /\ UnfinishedJobs(d)' \subseteq JobIds
      BY Entries
    <2> QED BY <1>7, <2>1, <2>2 DEF QueueStays
  <1>9. ASSUME s = "needs_reconciliation"
        PROVE  Reviews' = [Reviews EXCEPT ![c] = @ \cup {j}] /\ Ended' = Ended
    <2>1. \A d \in Conversations, k \in JobIds :
              k \in Reviews'[d] <=> k \in Reviews[d] \/ (d = c /\ k = j)
      BY <1>1, <1>9, Entries, TurnStates
    <2>2. \A d \in Conversations : Reviews[d] \subseteq JobIds /\ Reviews'[d] \subseteq JobIds
      BY Entries
    <2>3. Reviews'[c] = Reviews[c] \cup {j}
      BY <1>4, <2>1, <2>2
    <2>4. \A d \in Conversations : d # c => Reviews'[d] = Reviews[d]
      BY <2>1, <2>2
    <2>5. Reviews' = [Reviews EXCEPT ![c] = Reviews[c] \cup {j}]
      BY <1>4, <2>3, <2>4, Entries, OneEntry
    <2>6. \A k \in JobIds : k \in Ended' <=> k \in Ended
      BY <1>1, <1>9, Entries, TurnStates
    <2>7. Ended \subseteq JobIds /\ Ended' \subseteq JobIds
      BY Entries
    <2> QED BY <2>5, <2>6, <2>7
  <1>10. ASSUME s # "needs_reconciliation"
         PROVE  Reviews' = Reviews /\ Ended' = Ended \cup {j}
    <2>1. s \in Final
      BY <1>2, <1>10
    <2>2. \A d \in Conversations, k \in JobIds : k \in Reviews'[d] <=> k \in Reviews[d]
      BY <1>1, <1>10, Entries, TurnStates
    <2>3. \A d \in Conversations : Reviews[d] \subseteq JobIds /\ Reviews'[d] \subseteq JobIds
      BY Entries
    <2>4. \A d \in Conversations : Reviews'[d] = Reviews[d]
      BY <2>2, <2>3
    <2>5. Reviews' = Reviews
      BY <2>4, Entries
    <2>6. \A k \in JobIds : k \in Ended' <=> k \in Ended \/ k = j
      BY <1>1, <2>1, Entries
    <2>7. Ended \subseteq JobIds /\ Ended' \subseteq JobIds
      BY Entries
    <2> QED BY <2>5, <2>6, <2>7
  <1> QED BY <1>4, <1>5, <1>6, <1>7, <1>8, <1>9, <1>10

\* A job that runs stands at the head of its queue, and nothing before it is in review.
LEMMA RunningIsHead ==
    ASSUME IInv, NEW j \in JobIds, jobs[j].state = "running"
    PROVE  LET c == jobs[j].conversation
           IN  /\ \A k \in UnfinishedJobs(c) : ~ (jobs[k].order < jobs[j].order)
               /\ Reviews[c] = {}
  <1> DEFINE c == jobs[j].conversation
  <1>1. jobs[j].state # "none" /\ jobs[j].state \in Unfinished
    BY TurnStates
  <1>2. c \in Conversations
    BY <1>1 DEF IInv, RowsOK
  <1>3. ASSUME NEW k \in UnfinishedJobs(c), jobs[k].order < jobs[j].order PROVE FALSE
    <2>1. k \in JobIds /\ jobs[k].state \in Unfinished /\ jobs[k].conversation = c
          /\ jobs[k].state # "none"
      BY <1>2, Entries, TurnStates
    <2>2. jobs[k].generation = jobs[j].generation
      BY <1>1, <2>1 DEF IInv, NoStaleWork, ConversationOf
    <2>3. k \in TurnsOf(jobs, c, jobs[j].generation)
      BY <2>1, <2>2 DEF TurnsOf, JobsOf
    <2>4. EarlierActive(j)
      BY <1>3, <2>1, <2>3, TurnStates DEF EarlierActive
    <2> QED BY <2>4 DEF IInv, TurnsInOrder
  <1>4. j \in Running(c)
    BY <1>1 DEF Running, JobsOf
  <1>5. ~conversations[c].reconciliation_hold
    BY <1>2, <1>4 DEF IInv, HeldIsIdle
  <1>6. ~ \E k \in JobsOf(jobs, c) : jobs[k].state = "needs_reconciliation"
    BY <1>2, <1>5, Zenon DEF IInv, HoldMatchesReviews
  <1>7. Reviews[c] = {}
    BY <1>2, <1>6 DEF Reviews
  <1> QED BY <1>3, <1>7

\* transition ends a turn: answered, dropped or held.
LEMMA SettlingIsTurn ==
    ASSUME IInv, Listed, MInv, NEW j \in JobIds, NEW s \in Targets, Settles(j, s)
    PROVE  Listed' /\ [Log!Next]_(Log!logVars)
  <1> PICK c : jobs[j].conversation = c
    OBVIOUS
  <1>1. \A d \in Conversations : conversations'[d].generation = conversations[d].generation
    BY DEF Settles, SettlesTo
  <1>2. CASE s = "retry_pending"
    <2>1. \A k \in JobIds :
              /\ jobs'[k].conversation = jobs[k].conversation
              /\ jobs'[k].order = jobs[k].order
              /\ \/ jobs'[k].state = jobs[k].state
                 \/ jobs[k].state \in Unfinished /\ jobs'[k].state \in Unfinished
      BY <1>2, TurnStates DEF Settles, SettlesTo
    <2>2. MessagesKept
      BY <1>2 DEF Settles
    <2>3. \A d \in Conversations : RepliesStay(d)
      BY <1>1, <2>2, MessagesKeptReplies
    <2>4. Listed' /\ UNCHANGED Log!logVars
      BY <2>1, <2>3, SameStanding
    <2> QED BY <2>4
  <1>3. CASE s # "retry_pending"
    <2>1. /\ c \in Conversations /\ j \in UnfinishedJobs(c)
          /\ UnfinishedJobs(c)' = UnfinishedJobs(c) \ {j}
          /\ \A k \in JobIds : jobs'[k].order = jobs[k].order
          /\ \A d \in Conversations : d # c => QueueStays(d)
          /\ s = "needs_reconciliation" =>
                Reviews' = [Reviews EXCEPT ![c] = @ \cup {j}] /\ Ended' = Ended
          /\ s # "needs_reconciliation" => Reviews' = Reviews /\ Ended' = Ended \cup {j}
      BY <1>3, SettledStanding
    <2>2. \A k \in UnfinishedJobs(c) : jobs'[k].order = jobs[k].order
      BY <2>1, Entries
    <2>3. Lists(OpenTurns(c), UnfinishedJobs(c), Orders)'
      BY <2>1, <2>2, QueueShrinks
    <2>4. PICK i \in DOMAIN OpenTurns(c) :
              OpenTurns(c)[i] = j /\ OpenTurns(c)' = Log!RemoveAt(OpenTurns(c), i)
      BY <2>1, <2>2, QueueShrinks
    <2>5. (\A k \in UnfinishedJobs(c) : ~ (jobs[k].order < jobs[j].order))
                 => /\ OpenTurns(c) # <<>> /\ Head(OpenTurns(c)) = j
                    /\ OpenTurns(c)' = Tail(OpenTurns(c))
      BY <2>1, <2>2, QueueShrinks
    <2>6. \A d \in Conversations : d # c =>
             OpenTurns(d)' = OpenTurns(d) /\ Lists(OpenTurns(d), UnfinishedJobs(d), Orders)'
      BY <2>1, QueueKept
    <2>7. \A d \in Conversations : Lists(OpenTurns(d), UnfinishedJobs(d), Orders)'
      BY <2>3, <2>6
    <2>8. Queues[c] = OpenTurns(c) /\ Replies[c] = RepliesOf(c)
      BY <2>1, Entries
    <2>9. ASSUME NEW q, OpenTurns(c)' = q PROVE Queues' = [Queues EXCEPT ![c] = q]
      <3>1. Queues'[c] = q /\ \A d \in Conversations : d # c => Queues'[d] = Queues[d]
        BY <2>1, <2>6, <2>9, Entries
      <3> QED BY <2>1, <3>1, Entries, OneEntry
    <2>10. CASE MessagesKept
      <3>1. \A d \in Conversations : RepliesStay(d)
        BY <1>1, <2>10, MessagesKeptReplies
      <3>2. Replies' = Replies /\ Listed'
        BY <2>7, <3>1, AllRepliesKept, ListedAfter
      <3>3. Queues' = [Queues EXCEPT ![c] = Log!RemoveAt(Queues[c], i)] /\ Queues[c][i] = j
            /\ i \in DOMAIN Queues[c]
        BY <2>4, <2>8, <2>9
      <3>4. Log!Drop(c, i) \/ Log!Hold(c, i)
        <4>1. CASE s = "needs_reconciliation"
          <5>1. Log!Hold(c, i)
            BY <2>1, <3>2, <3>3, <4>1 DEF Log!Hold
          <5> QED BY <5>1
        <4>2. CASE s # "needs_reconciliation"
          <5>1. Log!Drop(c, i)
            BY <2>1, <3>2, <3>3, <4>2 DEF Log!Drop
          <5> QED BY <5>1
        <4> QED BY <4>1, <4>2
      <3>5. Log!Next
        BY <2>1, <3>3, <3>4 DEF Log!Next
      <3> QED BY <3>2, <3>5
    <2>11. CASE ~MessagesKept
      <3>1. jobs[j].state = "running" /\ s = "succeeded" /\ Adds(c, "assistant", j)
        BY <2>11 DEF Settles
      <3>2. PICK m \in Message : /\ IsNext(m) /\ m.conversation = c
                                 /\ m.role = "assistant" /\ m.origin = j
        <4>1. "assistant" \in Roles /\ j \in JobIds \cup Origins
          BY DEF Roles
        <4> QED BY <2>1, <2>11, <3>1, <4>1, AddsOne
      <3>3. /\ messages' = messages \cup {m}
            /\ m.generation = conversations[c].generation
            /\ m.sequence = conversations[c].next_message_seq /\ m.sequence \in Nat
        BY <3>2 DEF IsNext, Message
      <3>4. \A d \in Conversations : d # c => RepliesStay(d)
        BY <1>1, <3>2, NextKeepsReplies
      <3>5. ReplyRows(c)' = ReplyRows(c) \cup {m}
        BY <1>1, <2>1, <3>2, <3>3 DEF ReplyRows
      <3>6. \A n \in ReplyRows(c) : n.sequence < m.sequence
        BY <3>3 DEF ReplyRows, MInv, SequencesBelow
      <3>7. /\ Lists(Listing(ReplyRows(c), Places), ReplyRows(c), Places)'
            /\ RepliesOf(c)' = Append(RepliesOf(c), j)
        BY <2>1, <3>2, <3>3, <3>5, <3>6, RepliesGrow
      <3>8. \A d \in Conversations : d # c =>
              /\ RepliesOf(d)' = RepliesOf(d)
              /\ Lists(Listing(ReplyRows(d), Places), ReplyRows(d), Places)'
        BY <3>4, RepliesKept
      <3>9. Listed'
        BY <2>7, <3>7, <3>8, ListedAfter
      <3>10. Replies' = [Replies EXCEPT ![c] = Append(Replies[c], j)]
        <4>1. /\ Replies'[c] = Append(Replies[c], j)
              /\ \A d \in Conversations : d # c => Replies'[d] = Replies[d]
          BY <2>1, <2>8, <3>7, <3>8, Entries
        <4> QED BY <2>1, <4>1, Entries, OneEntry
      <3>11. /\ \A k \in UnfinishedJobs(c) : ~ (jobs[k].order < jobs[j].order)
             /\ Reviews[c] = {}
        BY <3>1, RunningIsHead
      <3>12. Queues[c] # <<>> /\ Head(Queues[c]) = j /\ OpenTurns(c)' = Tail(Queues[c])
        BY <2>5, <2>8, <3>11
      <3>13. Queues' = [Queues EXCEPT ![c] = Tail(Queues[c])]
        BY <2>9, <3>12
      <3>14. s # "needs_reconciliation"
        BY <3>1
      <3>15. Log!Answer(c)
        BY <2>1, <3>10, <3>11, <3>12, <3>13, <3>14 DEF Log!Answer
      <3>16. Log!Next
        BY <2>1, <3>15 DEF Log!Next
      <3> QED BY <3>9, <3>16
    <2> QED BY <2>10, <2>11
  <1> QED BY <1>2, <1>3

\* Control.reconcile ends a review.
LEMMA ReconcileReviews ==
    ASSUME IInv, Listed, NEW j \in JobIds, NEW decision \in {"succeeded", "cancelled"},
           Reconciles(j, decision)
    PROVE  Listed' /\ Log!Next
  <1> DEFINE c == jobs[j].conversation
  <1>1. /\ jobs[j].state = "needs_reconciliation" /\ jobs'[j].state = decision
        /\ jobs'[j].conversation = c /\ jobs'[j].order = jobs[j].order
        /\ \A k \in JobIds : k # j => jobs'[k] = jobs[k]
        /\ \A d \in Conversations : conversations'[d].generation = conversations[d].generation
        /\ MessagesKept
    BY DEF Reconciles, PlaceKept
  <1>2. decision \in Final /\ jobs[j].state # "none"
    BY <1>1, TurnStates
  <1>3. c \in Conversations
    BY <1>2 DEF IInv, RowsOK
  <1>4. \A d \in Conversations : QueueStays(d)
    <2> SUFFICES ASSUME NEW d \in Conversations PROVE QueueStays(d)
      OBVIOUS
    <2>1. \A k \in JobIds : k \in UnfinishedJobs(d)' <=> k \in UnfinishedJobs(d)
      BY <1>1, <1>2, Entries, TurnStates
    <2>2. UnfinishedJobs(d) \subseteq JobIds /\ UnfinishedJobs(d)' \subseteq JobIds
      BY Entries
    <2> QED BY <1>1, <2>1, <2>2 DEF QueueStays
  <1>5. \A d \in Conversations : RepliesStay(d)
    BY <1>1, MessagesKeptReplies
  <1>6. Listed' /\ Queues' = Queues /\ Replies' = Replies
    BY <1>4, <1>5, QueuesKept, AllRepliesKept, ListedAfter
  <1>7. Reviews' = [Reviews EXCEPT ![c] = Reviews[c] \ {j}]
    <2>1. \A d \in Conversations, k \in JobIds :
              k \in Reviews'[d] <=> k \in Reviews[d] /\ ~ (d = c /\ k = j)
      BY <1>1, <1>2, Entries, TurnStates
    <2>2. \A d \in Conversations : Reviews[d] \subseteq JobIds /\ Reviews'[d] \subseteq JobIds
      BY Entries
    <2>3. Reviews'[c] = Reviews[c] \ {j}
      BY <1>3, <2>1, <2>2
    <2>4. \A d \in Conversations : d # c => Reviews'[d] = Reviews[d]
      BY <2>1, <2>2
    <2> QED BY <1>3, <2>3, <2>4, Entries, OneEntry
  <1>8. Ended' = Ended \cup {j}
    <2>1. \A k \in JobIds : k \in Ended' <=> k \in Ended \/ k = j
      BY <1>1, <1>2, Entries
    <2>2. Ended \subseteq JobIds /\ Ended' \subseteq JobIds
      BY Entries
    <2> QED BY <2>1, <2>2
  <1>9. j \in Reviews[c]
    BY <1>1, <1>3, Entries
  <1>10. Log!Review(c, j)
    BY <1>6, <1>7, <1>8, <1>9 DEF Log!Review
  <1>11. Log!Next
    BY <1>3, <1>10 DEF Log!Next
  <1> QED BY <1>6, <1>11

\* Control.reset clears a conversation.
LEMMA ResetClears ==
    ASSUME IInv, Listed, MInv, NEW c \in Conversations, Resets(c)
    PROVE  Listed' /\ Log!Next
  <1> DEFINE acted == {k \in UnfinishedJobs(c) : jobs'[k].state = "needs_reconciliation"}
  <1>1. /\ \A k \in JobIds :
              /\ jobs'[k].conversation = jobs[k].conversation
              /\ jobs'[k].order = jobs[k].order
              /\ IF jobs[k].state \in Unfinished /\ jobs[k].conversation = c
                 THEN jobs'[k].state \in {"cancelled", "needs_reconciliation"}
                 ELSE jobs'[k] = jobs[k]
        /\ conversations'[c].generation = conversations[c].generation + 1
        /\ \A d \in Conversations : d # c => conversations'[d] = conversations[d]
        /\ messages' = messages
    BY DEF Resets, PlaceKept
  <1>2. ASSUME NEW d \in Conversations, d # c PROVE QueueStays(d) /\ RepliesStay(d)
    <2>1. \A k \in JobIds : k \in UnfinishedJobs(d)' <=> k \in UnfinishedJobs(d)
      BY <1>1, <1>2, Entries
    <2>2. UnfinishedJobs(d) \subseteq JobIds /\ UnfinishedJobs(d)' \subseteq JobIds
      BY Entries
    <2>3. QueueStays(d)
      BY <1>1, <2>1, <2>2 DEF QueueStays
    <2> QED BY <1>1, <1>2, <2>3 DEF RepliesStay, ReplyRows
  <1>3. UnfinishedJobs(c)' = {}
    <2>1. \A k \in JobIds : k \notin UnfinishedJobs(c)'
      BY <1>1, Entries, TurnStates
    <2> QED BY <2>1, Entries
  <1>4. ReplyRows(c)' = {}
    <2> SUFFICES ASSUME NEW m \in messages, m.conversation = c,
                        m.generation = conversations[c].generation + 1
                 PROVE  FALSE
      BY <1>1 DEF ReplyRows
    <2>1. m.generation <= conversations[c].generation
      BY DEF MInv, SequencesBelow
    <2>2. conversations[c].generation \in Nat
      BY DEF IInv, TypeOK, Conversation
    <2> QED BY <2>1, <2>2
  <1>5. /\ OpenTurns(c)' = <<>> /\ Lists(OpenTurns(c), UnfinishedJobs(c), Orders)'
        /\ RepliesOf(c)' = <<>>
        /\ Lists(Listing(ReplyRows(c), Places), ReplyRows(c), Places)'
    BY <1>3, <1>4, QueueEmptied, RepliesEmptied
  <1>6. \A d \in Conversations : d # c =>
           /\ OpenTurns(d)' = OpenTurns(d) /\ Lists(OpenTurns(d), UnfinishedJobs(d), Orders)'
           /\ RepliesOf(d)' = RepliesOf(d)
           /\ Lists(Listing(ReplyRows(d), Places), ReplyRows(d), Places)'
    BY <1>2, QueueKept, RepliesKept
  <1>7. Listed'
    BY <1>5, <1>6, ListedAfter
  <1>8. Queues' = [Queues EXCEPT ![c] = <<>>] /\ Replies' = [Replies EXCEPT ![c] = <<>>]
    BY <1>5, <1>6, Entries, OneEntry
  <1>9. Reviews' = [Reviews EXCEPT ![c] = Reviews[c] \cup acted]
    <2>1. \A d \in Conversations, k \in JobIds :
              k \in Reviews'[d] <=> k \in Reviews[d] \/ (d = c /\ k \in acted)
      BY <1>1, Entries, TurnStates
    <2>2. \A d \in Conversations : Reviews[d] \subseteq JobIds /\ Reviews'[d] \subseteq JobIds
      BY Entries
    <2>3. acted \subseteq JobIds
      BY Entries
    <2> HIDE DEF acted
    <2>4. Reviews'[c] = Reviews[c] \cup acted
      BY <2>1, <2>2, <2>3
    <2>5. \A d \in Conversations : d # c => Reviews'[d] = Reviews[d]
      BY <2>1, <2>2
    <2> QED BY <2>4, <2>5, Entries, OneEntry
  <1>10. Log!Range(Queues[c]) = UnfinishedJobs(c)
    BY QueueRange
  <1>11. Ended' = Ended \cup (UnfinishedJobs(c) \ acted)
    <2>1. \A k \in JobIds : k \in Ended' <=> k \in Ended \/ k \in UnfinishedJobs(c) \ acted
      <3> SUFFICES ASSUME NEW k \in JobIds
                   PROVE  k \in Ended' <=> k \in Ended \/ k \in UnfinishedJobs(c) \ acted
        OBVIOUS
      <3>1. CASE k \in UnfinishedJobs(c)
        <4>1. jobs'[k].state \in {"cancelled", "needs_reconciliation"}
          BY <1>1, <3>1, Entries
        <4>2. jobs'[k].state \in Final <=> k \notin acted
          BY <3>1, <4>1, TurnStates
        <4>3. k \notin Ended
          BY <3>1, Entries, TurnStates
        <4> QED BY <3>1, <4>2, <4>3, Entries
      <3>2. CASE k \notin UnfinishedJobs(c)
        <4>1. jobs'[k] = jobs[k]
          BY <1>1, <3>2, Entries
        <4> QED BY <3>2, <4>1, Entries
      <3> QED BY <3>1, <3>2
    <2>2. Ended \subseteq JobIds /\ Ended' \subseteq JobIds /\ UnfinishedJobs(c) \subseteq JobIds
      BY Entries
    <2> HIDE DEF acted
    <2> QED BY <2>1, <2>2
  <1>12. acted \in SUBSET Log!Range(Queues[c])
    BY <1>10
  <1> HIDE DEF acted
  <1>13. Log!Clear(c, acted)
    BY <1>8, <1>9, <1>10, <1>11, <1>12 DEF Log!Clear
  <1>14. Log!Next
    BY <1>12, <1>13 DEF Log!Next
  <1> QED BY <1>7, <1>14

\* Recovery.begin_restore holds everything.
LEMMA RestoreHolds ==
    ASSUME IInv, Listed, Restores PROVE Listed' /\ Log!Next
  <1>1. /\ \A k \in JobIds :
              /\ jobs'[k].conversation = jobs[k].conversation
              /\ IF jobs[k].state \in Unfinished
                 THEN jobs'[k].state = "needs_reconciliation" ELSE jobs'[k] = jobs[k]
        /\ \A d \in Conversations : conversations'[d].generation = conversations[d].generation
        /\ MessagesKept
    BY DEF Restores, PlaceKept
  <1>2. \A d \in Conversations : RepliesStay(d)
    BY <1>1, MessagesKeptReplies
  <1>3. \A d \in Conversations : UnfinishedJobs(d)' = {}
    <2>1. \A d \in Conversations, k \in JobIds : k \notin UnfinishedJobs(d)'
      BY <1>1, Entries, TurnStates
    <2> QED BY <2>1, Entries
  <1>4. \A d \in Conversations :
           OpenTurns(d)' = <<>> /\ Lists(OpenTurns(d), UnfinishedJobs(d), Orders)'
    BY <1>3, QueueEmptied
  <1>5. Listed' /\ Replies' = Replies
    BY <1>2, <1>4, AllRepliesKept, ListedAfter
  <1>6. Queues' = [c \in Conversations |-> <<>>]
    BY <1>4 DEF Queues
  <1>7. Reviews' = [c \in Conversations |-> Reviews[c] \cup Log!Range(Queues[c])]
    <2>1. \A d \in Conversations, k \in JobIds :
              k \in Reviews'[d] <=> k \in Reviews[d] \/ k \in UnfinishedJobs(d)
      <3> SUFFICES ASSUME NEW d \in Conversations, NEW k \in JobIds
                   PROVE  k \in Reviews'[d] <=> k \in Reviews[d] \/ k \in UnfinishedJobs(d)
        OBVIOUS
      <3>1. CASE jobs[k].state \in Unfinished
        BY <1>1, <3>1, Entries, TurnStates
      <3>2. CASE jobs[k].state \notin Unfinished
        <4>1. jobs'[k] = jobs[k]
          BY <1>1, <3>2
        <4> QED BY <3>2, <4>1, Entries
      <3> QED BY <3>1, <3>2
    <2>2. \A d \in Conversations : /\ Reviews[d] \subseteq JobIds /\ Reviews'[d] \subseteq JobIds
                                   /\ UnfinishedJobs(d) \subseteq JobIds
      BY Entries
    <2>3. \A d \in Conversations : Reviews'[d] = Reviews[d] \cup UnfinishedJobs(d)
      BY <2>1, <2>2
    <2>4. \A d \in Conversations : Reviews'[d] = Reviews[d] \cup Log!Range(Queues[d])
      BY <2>3, QueueRange
    <2>5. Reviews' = [d \in Conversations |-> Reviews'[d]]
      BY Entries
    <2> QED BY <2>4, <2>5
  <1>8. Ended' = Ended
    <2>1. \A k \in JobIds : k \in Ended' <=> k \in Ended
      BY <1>1, Entries, TurnStates
    <2>2. Ended \subseteq JobIds /\ Ended' \subseteq JobIds
      BY Entries
    <2> QED BY <2>1, <2>2
  <1>9. Log!HoldAll
    BY <1>5, <1>6, <1>7, <1>8 DEF Log!HoldAll
  <1>10. Log!Next
    BY <1>9 DEF Log!Next
  <1> QED BY <1>5, <1>10

\* Every step of the tables is one of the log, or none.
LEMMA StepsAreTurns ==
    ASSUME IInv, IInv', Listed, MInv, [Next]_vars PROVE Listed' /\ [Log!Next]_(Log!logVars)
  <1> DEFINE Turns == Listed' /\ [Log!Next]_(Log!logVars)
  <1>1. ASSUME Calm PROVE Turns
    BY <1>1, CalmIsNoTurn
  <1>2. ASSUME NEW j \in JobIds, NEW s \in Targets, Settles(j, s) PROVE Turns
    BY <1>2, SettlingIsTurn
  <1>3. ASSUME NEW c \in Conversations, NEW j \in JobIds, Accepts(c, j) PROVE Turns
    <2>1. Listed' /\ Log!Submit(c, j)
      BY <1>3, AcceptSubmits
    <2>2. Log!Next
      BY <2>1 DEF Log!Next
    <2> QED BY <2>1, <2>2
  <1>4. ASSUME NEW c \in Conversations, Resets(c) PROVE Turns
    BY <1>4, ResetClears
  <1>5. ASSUME NEW j \in JobIds, NEW d \in {"succeeded", "cancelled"}, Reconciles(j, d)
        PROVE  Turns
    BY <1>5, ReconcileReviews
  <1>6. ASSUME NEW j \in JobIds, Claims(j) PROVE Turns
    BY <1>6, ClaimIsNoTurn
  <1>7. ASSUME Restores PROVE Turns
    BY <1>7, RestoreHolds
  <1> HIDE DEF Turns
  <1>8. Turns
    BY <1>1, <1>2, <1>3, <1>4, <1>5, <1>6, <1>7, StepShapes, Zenon
  <1> QED BY <1>8 DEF Turns

\* The tables begin as an empty log.
LEMMA InitIsEmptyLog ==
    ASSUME Init PROVE Listed /\ Log!Init
  <1>1. jobs = [j \in JobIds |-> NoJob] /\ messages = {}
    BY DEF Init
  <1>2. \A j \in JobIds : jobs[j].state = "none"
    BY <1>1 DEF NoJob
  <1>3. \A c \in Conversations : UnfinishedJobs(c) = {} /\ ReplyRows(c) = {} /\ Reviews[c] = {}
    <2>1. \A c : JobsOf(jobs, c) = {}
      BY <1>2 DEF JobsOf
    <2> QED BY <1>1, <2>1 DEF UnfinishedJobs, ReplyRows, Reviews
  <1>4. ASSUME NEW c \in Conversations
        PROVE  /\ OpenTurns(c) = <<>> /\ Lists(OpenTurns(c), UnfinishedJobs(c), Orders)
               /\ RepliesOf(c) = <<>>
               /\ Lists(Listing(ReplyRows(c), Places), ReplyRows(c), Places)
    <2>1. UnfinishedJobs(c) = {} /\ ReplyRows(c) = {}
      BY <1>3
    <2>2. Lists(<<>>, {}, Orders) /\ Lists(<<>>, {}, Places)
      BY NothingIsListed
    <2>3. Listing({}, Orders) = <<>> /\ Listing({}, Places) = <<>>
      BY <2>2, ListingIsList
    <2>4. OpenTurns(c) = <<>>
      BY <2>1, <2>3 DEF OpenTurns
    <2>5. RepliesOf(c) = <<>>
      BY <2>1, <2>3 DEF RepliesOf
    <2> QED BY <2>1, <2>2, <2>3, <2>4, <2>5
  <1>5. Listed
    BY <1>4 DEF Listed
  <1>6. Queues = [c \in Conversations |-> <<>>] /\ Replies = [c \in Conversations |-> <<>>]
    BY <1>4 DEF Queues, Replies
  <1>7. Reviews = [c \in Conversations |-> {}]
    BY <1>3, Entries
  <1>8. Ended = {}
    BY <1>2, TurnStates DEF Ended
  <1> QED BY <1>5, <1>6, <1>7, <1>8 DEF Log!Init

\* The durable-work core implements TurnLog: whatever is retried, expired, cancelled,
\* swept, reviewed, reset or restored in between, a turn is answered only from the head of
\* its queue, none while a turn of its conversation is held, and one that left the queue
\* stays away (Leases.claim and finish, Control, Recovery).
THEOREM TurnsStaySerial == Spec => TurnsAreSerial
  <1> DEFINE Refines == Listed /\ MInv
  <1>1. Init => Refines /\ Log!Init
    <2>1. Init => MInv
      BY DEF Init, MInv, MessagesFromJobs, SequencesBelow, MessagesUnique, RepliesAfterTurns,
             RepliesInTurnOrder
    <2> QED BY <2>1, InitIsEmptyLog
  <1>2. IInv /\ IInv' /\ Refines /\ [Next]_vars => Refines' /\ [Log!Next]_(Log!logVars)
    BY StepsAreTurns, MessagesStayInOrder
  <1> HIDE DEF Refines
  <1> QED BY <1>1, <1>2, Invariance, PTL DEF Spec, TurnsAreSerial, Log!Spec
=============================================================================
