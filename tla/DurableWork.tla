----------------------------- MODULE DurableWork -----------------------------
(***************************************************************************)
(* The durable-work core of the cloud service: conversations, their jobs,  *)
(* the attempts that run them, the external effects an attempt announces,  *)
(* and the runtime row with its recovery epoch (cloud/work.py, leases.py,  *)
(* effects.py, control.py, recovery.py).                                   *)
(*                                                                         *)
(* Every action is one committed database transaction.  All of them take   *)
(* the locks of locked_job (runtime, owner, connection, conversation,      *)
(* job), so transactions on one conversation are serial; what interleaves  *)
(* is the transactions of web requests, workers that are alive, late or    *)
(* dead, the scheduler's sweep, the receiver and the operator.             *)
(*                                                                         *)
(* The database clock is abstracted to what the code compares with it: a   *)
(* deadline is a flag that TimePasses raises at any moment.                *)
(* LeaseClock.tla keeps the numbers and is shown to implement these flags. *)
(***************************************************************************)
EXTENDS Naturals, FiniteSets

CONSTANTS
    JobIds,             \* the uuid4 values jobs can get
    Owners,
    Conversations,
    OwnerOf,            \* conversations.owner_id, never updated
    Keys,               \* request keys chosen by clients
    Ops,                \* operation ids issued for external effects
    Origins,            \* origins of notices
    Checks,             \* recovery.CHECKS, four names in the code
    Null,               \* SQL NULL
    MaxAttempts,        \* config.max_attempts
    ConversationLimit,  \* config.conversation_limit
    OwnerLimit,         \* config.owner_limit
    MaxGeneration,      \* bound of the model on resets
    MaxEpoch            \* bound of the model on restores

ASSUME ConversationsAssumption ==
    /\ OwnerOf \in [Conversations -> Owners]
    /\ Null \notin Conversations \cup Keys \cup JobIds
ASSUME LimitsAssumption ==
    /\ MaxAttempts \in Nat \ {0}
    /\ ConversationLimit \in Nat /\ OwnerLimit \in Nat
    /\ MaxGeneration \in Nat \ {0} /\ MaxEpoch \in Nat \ {0}

VARIABLES
    runtime,        \* the runtime row: epoch and enabled
    owners,         \* owners.enabled
    conversations,  \* the conversations table
    jobs,           \* the jobs table
    attempts,       \* attempts.outcome, by job and fence
    effects,        \* the effects table
    messages,       \* the messages table
    checks,         \* recovery_checks of the current epoch
    quarantined,    \* jobs that have a quarantined outbox row
    reviewed,       \* jobs that have a row in reconciliations
    wake            \* jobs the last transaction put an outbox row in for

vars == <<runtime, owners, conversations, jobs, attempts, effects, messages,
          checks, quarantined, reviewed, wake>>

-----------------------------------------------------------------------------
(* Job states and rows *)

Waiting    == {"queued", "retry_pending"}
Unfinished == Waiting \cup {"running"}
ACTIVE     == Unfinished \cup {"needs_reconciliation"}
Final      == {"succeeded", "failed", "cancelled", "expired"}

\* "none" is a job id that no row has yet; its other fields are Null or zero.
JobStates == ACTIVE \cup Final \cup {"none"}

Job == [conversation : Conversations \cup {Null},
        generation : Nat, order : Nat, key : Keys \cup {Null},
        state : JobStates, attempts : Nat, fence : Nat, epoch : Nat,
        lease : {"none", "live", "lapsed"},  \* lease_until against the clock
        due : BOOLEAN,                       \* due_at <= now
        expired : BOOLEAN,                   \* expires_at <= now
        overtime : BOOLEAN,                  \* started_at + attempt_seconds <= now
        cancel : BOOLEAN]                    \* cancel_requested

NoJob == [conversation |-> Null, generation |-> 0, order |-> 0,
          key |-> Null, state |-> "none", attempts |-> 0, fence |-> 0,
          epoch |-> 0, lease |-> "none", due |-> TRUE, expired |-> FALSE,
          overtime |-> FALSE, cancel |-> FALSE]

Conversation == [generation : Nat, next_message_seq : Nat,
                 next_job_order : Nat, reconciliation_hold : BOOLEAN]

AttemptStates == {"none", "open"} \cup ACTIVE \cup Final

EffectStates == {"none", "prepared", "confirmed_succeeded",
                 "confirmed_no_effect", "uncertain"}
Outcomes     == EffectStates \ {"none", "prepared"}
Unresolved   == {"prepared", "uncertain"}

Effect == [job : JobIds \cup {Null}, attempt : Nat, state : EffectStates]

Roles == {"user", "assistant", "notice"}

\* origin is the job of a submission or completion, or the origin of a notice;
\* with the role it stands for the unique messages.origin.
Message == [conversation : Conversations, generation : Nat, sequence : Nat,
            role : Roles, origin : JobIds \cup Origins]

TypeOK ==
    /\ runtime \in [epoch : 1 .. MaxEpoch, enabled : BOOLEAN]
    /\ owners \in [Owners -> BOOLEAN]
    /\ conversations \in [Conversations -> Conversation]
    /\ jobs \in [JobIds -> Job]
    /\ attempts \in [JobIds -> [1 .. MaxAttempts -> AttemptStates]]
    /\ effects \in [Ops -> Effect]
    /\ messages \in SUBSET Message
    /\ checks \in [Checks -> {"absent", "open", "reviewed"}]
    /\ quarantined \in SUBSET JobIds
    /\ reviewed \in SUBSET JobIds
    /\ wake \in SUBSET JobIds

-----------------------------------------------------------------------------
(* Reading the tables *)

ConversationOf(j) == conversations[jobs[j].conversation]
OwnerEnabled(c) == owners[OwnerOf[c]]

HasEffect(j) == \E o \in Ops : effects[o].state # "none" /\ effects[o].job = j

HasUnresolved(j) == \E o \in Ops : effects[o].job = j /\ effects[o].state \in Unresolved

JobsOf(js, c) == {j \in JobIds : js[j].state # "none" /\ js[j].conversation = c}
TurnsOf(js, c, g) == {j \in JobsOf(js, c) : js[j].generation = g}

EarlierStarted(j) ==  \* fault: a turn waiting for its retry is overtaken
    \E k \in TurnsOf(jobs, jobs[j].conversation, jobs[j].generation) :
        jobs[k].order < jobs[j].order /\ jobs[k].state \in ACTIVE \ {"retry_pending"}

\* The rows of the query "job_order < mine and state = ANY(ACTIVE)".
EarlierActive(j) ==
    \E k \in TurnsOf(jobs, jobs[j].conversation, jobs[j].generation) :
        jobs[k].order < jobs[j].order /\ jobs[k].state \in ACTIVE

\* The capacity checks of accept.
Backlog(J) == Cardinality({j \in J : jobs[j].state \in ACTIVE})
OwnerJobs(u) == UNION {JobsOf(jobs, c) : c \in {d \in Conversations : OwnerOf[d] = u}}

HasRoomForTwo(c) ==  \* fault: the owner's limit is compared with <=
    /\ Backlog(JobsOf(jobs, c)) < ConversationLimit
    /\ Backlog(OwnerJobs(OwnerOf[c])) <= OwnerLimit

HasRoom(c) ==
    /\ Backlog(JobsOf(jobs, c)) < ConversationLimit
    /\ Backlog(OwnerJobs(OwnerOf[c])) < OwnerLimit

\* May this job have, keep or get an attempt at all?
Enabled(j) ==
    /\ jobs[j].state # "none"
    /\ runtime.enabled
    /\ OwnerEnabled(jobs[j].conversation)
    /\ jobs[j].epoch = runtime.epoch
    /\ ~jobs[j].cancel
    /\ ConversationOf(j).generation = jobs[j].generation
    /\ ~ConversationOf(j).reconciliation_hold

\* Attempt f of job j, as a worker that claimed it remembers it.  The rest of
\* the code's Claim (owner, conversation, generation, epoch) is fixed with the
\* job.  A worker may use it long after it was superseded, or never again.
Claimed(j, f) == f \in 1 .. MaxAttempts /\ attempts[j][f] # "none"

AuthorizedUnfenced(j, f) ==  \* fault: the fencing token is not compared
    /\ Enabled(j)
    /\ jobs[j].state = "running" /\ jobs[j].lease = "live"
    /\ ~jobs[j].expired /\ ~jobs[j].overtime

Authorized(j, f) ==
    /\ Enabled(j)
    /\ jobs[j].state = "running"
    /\ jobs[j].lease = "live"
    /\ ~jobs[j].expired
    /\ ~jobs[j].overtime
    /\ jobs[j].fence = f

-----------------------------------------------------------------------------
(* The end of an attempt or of a job: leases.transition *)

SettledRegardless(j, target) == target  \* fault: effects are not looked up

\* A job with a recorded effect is never retried or dropped: it is reviewed.
Settled(j, target) ==
    IF HasEffect(j) /\ target \in {"cancelled", "expired", "failed", "retry_pending"}
    THEN "needs_reconciliation" ELSE target

\* No deadline of a settled job is read again, and a retry has not expired and
\* starts its own attempt time, so the flags go back to FALSE.
JobAfter(j, row, target) ==
    LET s == Settled(j, target)
    IN  [row EXCEPT !.state = s, !.lease = "none", !.overtime = FALSE,
                    !.expired = FALSE, !.due = (s # "retry_pending")]

HoldUnchanged(row, s) == row  \* fault: the review is not announced to the conversation

HoldAfter(row, s) ==
    [row EXCEPT !.reconciliation_hold = @ \/ s = "needs_reconciliation"]

\* Closing the attempt of the job's current fence, if it is still open.
CloseAttempt(tab, j, s) ==
    [f \in 1 .. MaxAttempts |->
        IF f = jobs[j].fence /\ tab[f] = "open" THEN s ELSE tab[f]]

WakeFirst(js, cs, c) ==  \* fault: the oldest job is taken, settled or not
    {j \in TurnsOf(js, c, cs[c].generation) :
        /\ ~cs[c].reconciliation_hold /\ runtime.enabled /\ OwnerEnabled(c)
        /\ \A k \in TurnsOf(js, c, cs[c].generation) : js[j].order <= js[k].order
        /\ js[j].state \in Waiting
        /\ js[j].epoch = runtime.epoch}

\* The one job wake_next puts an outbox row in for, given the tables it reads.
WakeNext(js, cs, c) ==
    {j \in TurnsOf(js, c, cs[c].generation) :
        /\ ~cs[c].reconciliation_hold /\ runtime.enabled /\ OwnerEnabled(c)
        /\ \A k \in TurnsOf(js, c, cs[c].generation) :
               js[k].state \in ACTIVE => js[j].order <= js[k].order
        /\ js[j].state \in Waiting
        /\ js[j].epoch = runtime.epoch}

\* transition(tx, locked, target) where row and crow are what the job and its
\* conversation look like after the updates made before it.
Transition(j, row, crow, target) ==
    LET c  == jobs[j].conversation
        s  == Settled(j, target)
        js == [jobs EXCEPT ![j] = JobAfter(j, row, target)]
        cs == [conversations EXCEPT ![c] = HoldAfter(crow, s)]
    IN  /\ jobs' = js
        /\ conversations' = cs
        /\ attempts' = [attempts EXCEPT ![j] = CloseAttempt(@, j, s)]
        /\ wake' = IF s = "retry_pending" THEN {j} ELSE WakeNext(js, cs, c)

\* retry_or_fail
RetryOrFail(j, retryable) ==
    IF jobs[j].expired THEN "expired"
    ELSE IF retryable /\ jobs[j].attempts < MaxAttempts THEN "retry_pending"
    ELSE "failed"

\* append_message: nothing if the generation already has this role and origin.
AppendTo(crow, c, role, origin) ==
    IF \E m \in messages : /\ m.conversation = c /\ m.generation = crow.generation
                           /\ m.role = role /\ m.origin = origin
    THEN [rows |-> messages, conversation |-> crow]
    ELSE [rows |-> messages \cup {[conversation |-> c, generation |-> crow.generation,
                                   sequence |-> crow.next_message_seq,
                                   role |-> role, origin |-> origin]},
          conversation |-> [crow EXCEPT !.next_message_seq = @ + 1]]

-----------------------------------------------------------------------------
(* Web requests *)

\* Work.accept of a request key not seen in this generation.  A key already
\* there is answered from its row (same input) or refused (other input), and
\* neither changes the database.
Accept(c, k) ==
    /\ runtime.enabled /\ OwnerEnabled(c)
    /\ \A j \in TurnsOf(jobs, c, conversations[c].generation) : jobs[j].key # k
    /\ HasRoom(c)
    /\ \E j \in JobIds :
        LET post == AppendTo(conversations[c], c, "user", j)
        IN  /\ jobs[j].state = "none"
            /\ jobs' = [jobs EXCEPT ![j] =
                  [NoJob EXCEPT !.conversation = c,
                                !.generation = conversations[c].generation,
                                !.order = conversations[c].next_job_order,
                                !.key = k, !.state = "queued",
                                !.epoch = runtime.epoch]]
            /\ messages' = post.rows
            /\ conversations' = [conversations EXCEPT ![c] =
                  [post.conversation EXCEPT !.next_job_order = @ + 1]]
            /\ wake' = {j}
    /\ UNCHANGED <<runtime, owners, attempts, effects, checks, quarantined, reviewed>>

\* Work.notice: a poller's notice for the conversation.
Notice(c, o) ==
    /\ runtime.enabled /\ OwnerEnabled(c)
    /\ LET post == AppendTo(conversations[c], c, "notice", o)
       IN  /\ messages' = post.rows
           /\ conversations' = [conversations EXCEPT ![c] = post.conversation]
    /\ wake' = {}
    /\ UNCHANGED <<runtime, owners, jobs, attempts, effects, checks, quarantined, reviewed>>

CancelActive(j) ==  \* fault: a job in review can be cancelled
    /\ jobs[j].state \in ACTIVE
    /\ Transition(j, [jobs[j] EXCEPT !.cancel = TRUE], ConversationOf(j), "cancelled")
    /\ UNCHANGED <<runtime, owners, effects, messages, checks, quarantined, reviewed>>

\* Control.cancel; of a job in any other state it changes nothing.
Cancel(j) ==
    /\ jobs[j].state \in Unfinished
    /\ Transition(j, [jobs[j] EXCEPT !.cancel = TRUE], ConversationOf(j), "cancelled")
    /\ UNCHANGED <<runtime, owners, effects, messages, checks, quarantined, reviewed>>

WaitingJobs(c) ==  \* fault: reset leaves the running job to its worker
    {j \in JobsOf(jobs, c) : jobs[j].state \in Waiting}

UnfinishedJobs(c) == {j \in JobsOf(jobs, c) : jobs[j].state \in Unfinished}

\* Control.reset: every unfinished job of the conversation, of any generation,
\* is cancelled one after the other in the same transaction, after the
\* generation went up and the counters went back to one.
Reset(c) ==
    LET gone == UnfinishedJobs(c)
        js   == [j \in JobIds |->
                    IF j \in gone
                    THEN JobAfter(j, [jobs[j] EXCEPT !.cancel = TRUE], "cancelled")
                    ELSE jobs[j]]
        held == \E j \in gone : Settled(j, "cancelled") = "needs_reconciliation"
        cs   == [conversations EXCEPT ![c] =
                    [generation |-> @.generation + 1, next_message_seq |-> 1,
                     next_job_order |-> 1,
                     reconciliation_hold |-> @.reconciliation_hold \/ held]]
    IN  /\ conversations[c].generation < MaxGeneration
        /\ jobs' = js
        /\ conversations' = cs
        /\ attempts' = [j \in JobIds |->
              IF j \in gone THEN CloseAttempt(attempts[j], j, Settled(j, "cancelled"))
              ELSE attempts[j]]
        /\ wake' = WakeNext(js, cs, c)
        /\ UNCHANGED <<runtime, owners, effects, messages, checks, quarantined, reviewed>>

\* Control.reconcile: an audited decision about a job in review.
Reconcile(j, decision) ==
    LET c  == jobs[j].conversation
        js == [jobs EXCEPT ![j] = [@ EXCEPT !.state = decision, !.lease = "none",
                                            !.cancel = TRUE]]
        outstanding == \E k \in JobsOf(js, c) : js[k].state = "needs_reconciliation"
        cs == IF outstanding THEN conversations
              ELSE [conversations EXCEPT ![c].reconciliation_hold = FALSE]
    IN  /\ jobs[j].state = "needs_reconciliation"
        /\ decision \in {"succeeded", "cancelled"}
        /\ reviewed' = reviewed \cup {j}
        /\ jobs' = js
        /\ conversations' = cs
        /\ wake' = IF outstanding THEN {} ELSE WakeNext(js, cs, c)
        /\ UNCHANGED <<runtime, owners, attempts, effects, messages, checks, quarantined>>

-----------------------------------------------------------------------------
(* Workers: Leases and Effects *)

\* What the checks of Leases.claim, in their order, make of an enabled job.
ClaimVerdict(j) ==
    IF HasEffect(j) THEN "needs_reconciliation"
    ELSE IF jobs[j].expired THEN "expired"
    ELSE IF jobs[j].attempts >= MaxAttempts THEN "failed"
    ELSE "running"

OpenAttempt(tab, fence) == [f \in 1 .. MaxAttempts |-> IF f = fence THEN "open" ELSE tab[f]]

Started(row) == [row EXCEPT !.state = "running", !.fence = @ + 1,
                            !.attempts = @ + 1, !.lease = "live"]

\* Leases.claim that starts an attempt.
Claim(j) ==
    /\ Enabled(j)
    /\ jobs[j].state \in Waiting
    /\ ClaimVerdict(j) = "running"
    /\ jobs[j].due
    /\ ~EarlierActive(j)
    /\ jobs' = [jobs EXCEPT ![j] = Started(jobs[j])]
    /\ attempts' = [attempts EXCEPT ![j] = OpenAttempt(@, jobs[j].fence + 1)]
    /\ wake' = {}
    /\ UNCHANGED <<runtime, owners, conversations, effects, messages, checks,
                   quarantined, reviewed>>

\* Leases.claim that finds the job past an attempt and settles it instead.
RefuseClaim(j) ==
    /\ Enabled(j)
    /\ jobs[j].state \in Waiting
    /\ ClaimVerdict(j) # "running"
    /\ Transition(j, jobs[j], ConversationOf(j), ClaimVerdict(j))
    /\ UNCHANGED <<runtime, owners, effects, messages, checks, quarantined, reviewed>>

\* Leases.finish.  An effect still unresolved turns the reply away.
Finish(j, f) ==
    /\ Claimed(j, f)
    /\ Authorized(j, f)
    /\ IF HasUnresolved(j)
       THEN /\ Transition(j, jobs[j], ConversationOf(j), "needs_reconciliation")
            /\ UNCHANGED messages
       ELSE LET post == AppendTo(ConversationOf(j), jobs[j].conversation, "assistant", j)
            IN  /\ messages' = post.rows
                /\ Transition(j, jobs[j], post.conversation, "succeeded")
    /\ UNCHANGED <<runtime, owners, effects, checks, quarantined, reviewed>>

\* Leases.fail: the executor raised, the worker shuts down, or the output is
\* unusable (not retryable).
Fail(j, f, retryable) ==
    /\ Claimed(j, f)
    /\ Authorized(j, f)
    /\ Transition(j, jobs[j], ConversationOf(j), RetryOrFail(j, retryable))
    /\ UNCHANGED <<runtime, owners, effects, messages, checks, quarantined, reviewed>>

\* Effects.prepare of a new operation id: the intent is durable before the call.
\* A known id is answered FALSE or refused and changes nothing.
Prepare(j, f, o) ==
    /\ Claimed(j, f)
    /\ Authorized(j, f)
    /\ effects[o].state = "none"
    /\ effects' = [effects EXCEPT ![o] =
          [job |-> j, attempt |-> f, state |-> "prepared"]]
    /\ wake' = {}
    /\ UNCHANGED <<runtime, owners, conversations, jobs, attempts, messages, checks,
                   quarantined, reviewed>>

\* Effects.record: evidence is taken from the attempt that prepared the
\* operation whether or not that attempt still has authority.
Record(j, f, o, outcome) ==
    /\ Claimed(j, f)
    /\ effects[o].state # "none" /\ effects[o].job = j /\ effects[o].attempt = f
    /\ effects' = [effects EXCEPT ![o].state = outcome]
    /\ IF outcome = "uncertain" /\ Authorized(j, f)
       THEN Transition(j, jobs[j], ConversationOf(j), "needs_reconciliation")
       ELSE wake' = {} /\ UNCHANGED <<jobs, conversations, attempts>>
    /\ UNCHANGED <<runtime, owners, messages, checks, quarantined, reviewed>>

-----------------------------------------------------------------------------
(* The scheduler and the receiver *)

\* What Recovery.sweep makes of an unfinished job of the current epoch, in the
\* order of its branches; the job's own state when it is left alone.
SweepVerdict(j) ==
    IF \/ ~OwnerEnabled(jobs[j].conversation) \/ jobs[j].cancel
       \/ ConversationOf(j).generation # jobs[j].generation
    THEN "cancelled"
    ELSE IF jobs[j].expired THEN "expired"
    ELSE IF jobs[j].state = "running" /\ (jobs[j].lease # "live" \/ jobs[j].overtime)
    THEN RetryOrFail(j, TRUE)
    ELSE IF jobs[j].state \in Waiting /\ jobs[j].attempts >= MaxAttempts
    THEN "failed" ELSE jobs[j].state

\* One candidate of Recovery.sweep, rechecked under its locks.
Sweep(j) ==
    /\ runtime.enabled
    /\ jobs[j].state \in Unfinished
    /\ jobs[j].epoch = runtime.epoch
    /\ SweepVerdict(j) # jobs[j].state
    /\ Transition(j, jobs[j], ConversationOf(j), SweepVerdict(j))
    /\ UNCHANGED <<runtime, owners, effects, messages, checks, quarantined, reviewed>>

\* One candidate of Recovery.redispatch, rechecked under its locks.  That no
\* recent outbox row exists is the business of Dispatch.tla.
Redispatch(j) ==
    /\ Enabled(j)
    /\ jobs[j].state \in Waiting
    /\ jobs[j].due
    /\ ~EarlierActive(j)
    /\ IF j \in quarantined
       THEN Transition(j, jobs[j], ConversationOf(j), "failed")
       ELSE wake' = {j} /\ UNCHANGED <<jobs, conversations, attempts>>
    /\ UNCHANGED <<runtime, owners, effects, messages, checks, quarantined, reviewed>>

\* Receiver.handle of an envelope of an unknown version.
Poison(j) ==
    /\ jobs[j].state # "none"
    /\ jobs[j].epoch = runtime.epoch
    /\ quarantined' = quarantined \cup {j}
    /\ IF jobs[j].state \in Waiting
       THEN Transition(j, jobs[j], ConversationOf(j), "failed")
       ELSE wake' = {} /\ UNCHANGED <<jobs, conversations, attempts>>
    /\ UNCHANGED <<runtime, owners, effects, messages, checks, reviewed>>

-----------------------------------------------------------------------------
(* The operator *)

\* Recovery.begin_restore: a new epoch, work disabled, and every unfinished
\* job put in review, whatever its conversation.
BeginRestore ==
    LET caught == {j \in JobIds : jobs[j].state \in Unfinished}
        js == [j \in JobIds |->
                  IF j \in caught
                  THEN [jobs[j] EXCEPT !.state = "needs_reconciliation",
                                       !.lease = "none", !.overtime = FALSE,
                                       !.expired = FALSE, !.cancel = TRUE]
                  ELSE jobs[j]]
    IN  /\ runtime.epoch < MaxEpoch
        /\ runtime' = [epoch |-> runtime.epoch + 1, enabled |-> FALSE]
        /\ quarantined' = {j \in JobIds : jobs[j].state # "none"}
        /\ jobs' = js
        /\ conversations' = [c \in Conversations |->
              IF \E j \in JobsOf(js, c) : js[j].state = "needs_reconciliation"
              THEN [conversations[c] EXCEPT !.reconciliation_hold = TRUE]
              ELSE conversations[c]]
        /\ attempts' = [j \in JobIds |-> [f \in 1 .. MaxAttempts |->
              IF attempts[j][f] = "open" THEN "needs_reconciliation" ELSE attempts[j][f]]]
        /\ checks' = [x \in Checks |-> "open"]
        /\ wake' = {}
        /\ UNCHANGED <<owners, effects, messages, reviewed>>

\* Recovery.review_check
ReviewCheck(x) ==
    /\ ~runtime.enabled
    /\ checks[x] # "absent"
    /\ checks' = [checks EXCEPT ![x] = "reviewed"]
    /\ wake' = {}
    /\ UNCHANGED <<runtime, owners, conversations, jobs, attempts, effects, messages,
                   quarantined, reviewed>>

\* Recovery.resume_after_review
ResumeAfterReview ==
    /\ ~runtime.enabled
    /\ \A x \in Checks : checks[x] = "reviewed"
    /\ runtime' = [runtime EXCEPT !.enabled = TRUE]
    /\ wake' = {}
    /\ UNCHANGED <<owners, conversations, jobs, attempts, effects, messages, checks,
                   quarantined, reviewed>>

\* Sessions.disable, the part of it the durable-work tables see.
DisableOwner(u) ==
    /\ owners' = [owners EXCEPT ![u] = FALSE]
    /\ wake' = {}
    /\ UNCHANGED <<runtime, conversations, jobs, attempts, effects, messages, checks,
                   quarantined, reviewed>>

-----------------------------------------------------------------------------
(* Time passing over a deadline *)

Later(row, over, late, lapsed, ready) ==
    [row EXCEPT !.overtime = @ \/ over, !.expired = @ \/ late, !.due = @ \/ ready,
                !.lease = IF lapsed THEN "lapsed" ELSE @]

\* The clock moves on over some of a job's deadlines: the attempt has used up
\* attempt_seconds (over), expires_at is reached (late), lease_until is reached
\* because no heartbeat came in time (lapsed), or due_at of a retry is (ready).
\* A lease never reaches beyond expires_at, so it lapses with it.
TimePasses(j, over, late, lapsed, ready) ==
    /\ over => jobs[j].state = "running" /\ ~jobs[j].overtime
    /\ late => jobs[j].state \in Unfinished /\ ~jobs[j].expired
    /\ lapsed => jobs[j].lease = "live"
    /\ ready => jobs[j].state = "retry_pending" /\ ~jobs[j].due
    /\ late /\ jobs[j].lease = "live" => lapsed
    /\ jobs' = [jobs EXCEPT ![j] = Later(jobs[j], over, late, lapsed, ready)]
    /\ wake' = {}
    /\ UNCHANGED <<runtime, owners, conversations, attempts, effects, messages, checks,
                   quarantined, reviewed>>

-----------------------------------------------------------------------------
NoEffect == [job |-> Null, attempt |-> 0, state |-> "none"]

\* The migrations leave work disabled; an operator enables it once.
Init ==
    /\ runtime \in [epoch : {1}, enabled : BOOLEAN]
    /\ owners = [u \in Owners |-> TRUE]
    /\ conversations = [c \in Conversations |->
          [generation |-> 1, next_message_seq |-> 1, next_job_order |-> 1,
           reconciliation_hold |-> FALSE]]
    /\ jobs = [j \in JobIds |-> NoJob]
    /\ attempts = [j \in JobIds |-> [f \in 1 .. MaxAttempts |-> "none"]]
    /\ effects = [o \in Ops |-> NoEffect]
    /\ messages = {}
    /\ checks = [x \in Checks |-> "absent"]
    /\ quarantined = {} /\ reviewed = {} /\ wake = {}

Attempting(j, f) ==
    \/ Finish(j, f)
    \/ \E retryable \in BOOLEAN : Fail(j, f, retryable)
    \/ \E o \in Ops : Prepare(j, f, o)
    \/ \E o \in Ops, outcome \in Outcomes : Record(j, f, o, outcome)

Passing(j) ==
    \E over, late, lapsed, ready \in BOOLEAN : TimePasses(j, over, late, lapsed, ready)

Next ==
    \/ \E c \in Conversations, k \in Keys : Accept(c, k)
    \/ \E c \in Conversations, o \in Origins : Notice(c, o)
    \/ \E c \in Conversations : Reset(c)
    \/ \E j \in JobIds : Cancel(j)
    \/ \E j \in JobIds, d \in {"succeeded", "cancelled"} : Reconcile(j, d)
    \/ \E j \in JobIds : Claim(j) \/ RefuseClaim(j)
    \/ \E j \in JobIds, f \in 1 .. MaxAttempts : Attempting(j, f)
    \/ \E j \in JobIds : Sweep(j) \/ Redispatch(j) \/ Poison(j)
    \/ BeginRestore
    \/ \E x \in Checks : ReviewCheck(x)
    \/ ResumeAfterReview
    \/ \E u \in Owners : DisableOwner(u)
    \/ \E j \in JobIds : Passing(j)

Spec == Init /\ [][Next]_vars

-----------------------------------------------------------------------------
(* Safety *)

Running(c) == {j \in JobsOf(jobs, c) : jobs[j].state = "running"}

\* "At most one currently authorized attempt per conversation": whichever
\* claims workers still hold, across retries, resets, expiry and restores, no
\* two of them can both commit for one conversation.
OneAuthorizedAttempt ==
    \A j, k \in JobIds, f, g \in 1 .. MaxAttempts :
        /\ Claimed(j, f) /\ Authorized(j, f)
        /\ Claimed(k, g) /\ Authorized(k, g)
        /\ jobs[j].conversation = jobs[k].conversation
        => j = k /\ f = g

\* A running job is the oldest unsettled turn of the current generation of its
\* conversation, so no other job of that conversation runs at the same time.
ExclusiveTurn ==
    \A c \in Conversations : \A j \in Running(c) :
        /\ Running(c) = {j}
        /\ jobs[j].generation = conversations[c].generation
        /\ ~EarlierActive(j)

\* A conversation is held exactly while one of its jobs, of any generation,
\* awaits review; resets and reconciliations of other jobs do not break this.
HoldMatchesReviews ==
    \A c \in Conversations :
        conversations[c].reconciliation_hold
            <=> \E j \in JobsOf(jobs, c) : jobs[j].state = "needs_reconciliation"

\* "A reconciliation hold blocks later turns": nothing runs in a held conversation.
HeldIsIdle ==
    \A c \in Conversations : conversations[c].reconciliation_hold => Running(c) = {}

\* Work of an older generation or epoch is never left waiting or running, and
\* while a restore is under review no work is: reset and begin_restore settle
\* all of it in the transaction that makes it stale.
NoStaleWork ==
    \A j \in JobIds : jobs[j].state \in Unfinished =>
        /\ runtime.enabled
        /\ jobs[j].epoch = runtime.epoch
        /\ jobs[j].generation = ConversationOf(j).generation
        /\ ~jobs[j].cancel

\* "Do not replay an entire agent turn after any recorded mutation intent": a
\* job with an effect row never waits for another attempt.
IntentIsNotRetried ==
    \A o \in Ops : effects[o].state # "none" =>
        jobs[effects[o].job].state \notin Waiting \cup {"none"}

SameGeneration(m, n) ==
    m.conversation = n.conversation /\ m.generation = n.generation

\* A job has at most one reply, after its own submission, in its generation,
\* only if it succeeded; replies of a generation come in the order of the turns.
RepliesInTurnOrder ==
    \A m \in messages : m.role = "assistant" =>
        /\ jobs[m.origin].state = "succeeded"
        /\ m.generation = jobs[m.origin].generation
        /\ \A n \in messages :
            /\ n # m /\ n.role # "notice" /\ n.origin = m.origin
                   => n.role = "user" /\ n.sequence < m.sequence
            /\ n # m /\ n.role = "assistant" /\ SameGeneration(m, n)
                   => (n.sequence < m.sequence
                           <=> jobs[n.origin].order < jobs[m.origin].order)

\* The queue limits of accept bound the unsettled work there ever is, also
\* through retries, reviews and resets (config.conversation_limit, owner_limit).
BacklogBounded ==
    /\ \A c \in Conversations : Backlog(JobsOf(jobs, c)) <= ConversationLimit
    /\ \A u \in Owners : Backlog(OwnerJobs(u)) <= OwnerLimit

\* A conversation stays in order: every reply in its turn, and no more turns open than
\* the limits allow.
ConversationIsOrderly == RepliesInTurnOrder /\ BacklogBounded

-----------------------------------------------------------------------------
(* What a step may never do *)

\* A settled job is settled: no late worker, sweep, receiver, cancel or restore
\* changes its outcome, and only an audited decision takes a job out of review.
OutcomesAreFinal ==
    [][\A j \in JobIds :
        /\ jobs[j].state \in Final => jobs'[j].state = jobs[j].state
        /\ jobs[j].state = "needs_reconciliation" /\ jobs'[j].state # jobs[j].state
               => j \in reviewed' \ reviewed]_vars

\* The prompt of a running attempt (Leases.context without notices): its own
\* submission and the turns before it that succeeded.
TurnContext(j) ==
    {m \in messages :
        /\ m.role # "notice"
        /\ m.origin = j \/ ( /\ jobs[m.origin].state = "succeeded"
                             /\ jobs[m.origin].order < jobs[j].order)
        /\ m.conversation = jobs[j].conversation
        /\ m.generation = jobs[j].generation}

\* What an attempt was told stays true for as long as it may commit: earlier
\* turns do not settle, and their replies do not arrive, behind its back.
ContextIsStable ==
    [][\A j \in JobIds :
        jobs[j].state = "running" /\ jobs'[j].state = "running"
            => TurnContext(j)' = TurnContext(j)]_vars

\* Could a receiver start this job now?
Runnable(j) ==
    /\ Enabled(j) /\ jobs[j].state \in Waiting /\ jobs[j].due /\ ~EarlierActive(j)

\* "Reply append, job completion, lease release and dispatch intent for the
\* next eligible turn commit together": a transaction that makes a job runnable
\* also records its wake-up.  (A retry was recorded with its delay beforehand.)
NextTurnIsWoken ==
    [][\A j \in JobIds :
        ~Runnable(j) /\ Runnable(j)' /\ jobs[j].due => j \in wake']_vars
=============================================================================
