----------------------------- MODULE LeaseClock -----------------------------
(***************************************************************************)
(* The deadlines of one job of the durable-work core, on the database      *)
(* clock (cloud/leases.py, recovery.py, config.py): its expiry, the lease  *)
(* and the working time of each attempt, and the delay before a retry.     *)
(*                                                                         *)
(* What is not about time (effects, turns, holds, resets) is DurableWork's *)
(* business.  A job ends here by finish, fail, cancel or sweep.            *)
(***************************************************************************)
EXTENDS Integers

CONSTANTS
    LeaseSeconds,     \* config.lease_seconds
    AttemptSeconds,   \* config.attempt_seconds
    TtlSeconds,       \* config.chat_ttl_seconds
    MaxAttempts,      \* config.max_attempts
    RetrySeconds,     \* config.retry_seconds: the base delay after attempt 1, 2, ...
    Jitter,           \* what the jitter may add to a delay, up to a fifth in the code
    MaxTime,          \* bound of the model on the clock
    Never             \* SQL NULL in a timestamp column

ASSUME ClockAssumption ==
    /\ LeaseSeconds \in Nat \ {0} /\ AttemptSeconds \in Nat \ {0}
    /\ LeaseSeconds <= AttemptSeconds
    /\ TtlSeconds \in Nat \ {0} /\ MaxTime \in Nat
    /\ MaxAttempts \in Nat \ {0}
    /\ RetrySeconds \in [1 .. 2 -> Nat \ {0}]
    /\ Jitter \subseteq Nat
    /\ Never \notin Nat

VARIABLES
    now,      \* clock_timestamp()
    job,      \* the row of the job
    started,  \* attempts.started_at, by fence
    finished, \* attempts.finished_at, by fence
    outcome,  \* attempts.outcome, by fence
    woken     \* did the last transaction put an outbox row in for the job?

clockVars == <<now, job, started, finished, outcome, woken>>

Fences == 1 .. MaxAttempts
Times  == Nat \cup {Never}
Ended  == {"succeeded", "failed", "cancelled", "expired"}

ClockRow == [state : {"none", "queued", "retry_pending", "running"} \cup Ended,
           fence : 0 .. MaxAttempts,  \* attempts counts the same
           due_at : Nat, expires_at : Nat, lease_until : Times]

ClockTypeOK ==
    /\ now \in Nat
    /\ job \in ClockRow
    /\ started \in [Fences -> Times] /\ finished \in [Fences -> Times]
    /\ outcome \in [Fences -> {"none", "open", "retry_pending"} \cup Ended]
    /\ woken \in BOOLEAN

-----------------------------------------------------------------------------
(* Deadlines *)

Smaller(a, b) == IF a <= b THEN a ELSE b

Waits    == job.state \in {"queued", "retry_pending"}
Runs     == job.state = "running"
Late     == job.expires_at <= now
Lapsed   == job.lease_until <= now
Overtime == started[job.fence] + AttemptSeconds <= now

FenceOnly(f) == Runs /\ job.fence = f  \* fault: authority without its deadlines

\* leases.authorized
Authorized(f) ==
    /\ Runs /\ job.fence = f
    /\ ~Lapsed /\ ~Late /\ ~Overtime

\* retry_or_fail: five seconds after the first attempt, thirty after later ones,
\* and up to a fifth more.
Delays(f) == {RetrySeconds[IF f <= 1 THEN 1 ELSE 2] + x : x \in Jitter}

-----------------------------------------------------------------------------
(* Actions *)

AcceptJob ==
    /\ job.state = "none"
    /\ now + TtlSeconds <= MaxTime
    /\ job' = [job EXCEPT !.state = "queued", !.due_at = now, !.expires_at = now + TtlSeconds]
    /\ woken' = TRUE
    /\ UNCHANGED <<now, started, finished, outcome>>

\* transition: the lease goes, the attempt is closed if it is open, and only a
\* retry is due later than now.
Transition(target, delay) ==
    /\ job' = [job EXCEPT !.state = target, !.lease_until = Never, !.due_at = now + delay]
    /\ LET closes == {f \in Fences : f = job.fence /\ outcome[f] = "open"}
       IN  /\ outcome' = [f \in Fences |-> IF f \in closes THEN target ELSE outcome[f]]
           /\ finished' = [f \in Fences |-> IF f \in closes THEN now ELSE finished[f]]
    /\ woken' = (target = "retry_pending")
    /\ UNCHANGED <<now, started>>

RetryOrFail(retryable) ==
    IF Late THEN Transition("expired", 0)
    ELSE IF retryable /\ job.fence < MaxAttempts
    THEN \E d \in Delays(job.fence) : Transition("retry_pending", d)
    ELSE Transition("failed", 0)

ClaimLease == now + LeaseSeconds  \* fault: the lease of a claim outlives the job

\* lease_until of a claim
FirstLease == Smaller(job.expires_at, now + LeaseSeconds)

ClaimJob ==
    /\ Waits /\ ~Late /\ job.fence < MaxAttempts
    /\ job.due_at <= now
    /\ LET f == job.fence + 1
       IN  /\ job' = [job EXCEPT !.state = "running", !.fence = f, !.lease_until = FirstLease]
           /\ started' = [started EXCEPT ![f] = now]
           /\ outcome' = [outcome EXCEPT ![f] = "open"]
    /\ woken' = FALSE
    /\ UNCHANGED <<now, finished>>

\* A claim that finds the job too late or out of attempts ends it.
RefuseClaim ==
    /\ Waits
    /\ Late \/ job.fence >= MaxAttempts
    /\ Transition(IF Late THEN "expired" ELSE "failed", 0)

HeartbeatUnlimited(f) ==  \* fault: heartbeats go on beyond attempt_seconds
    Smaller(job.expires_at, now + LeaseSeconds)

\* lease_until of a heartbeat
NextLease(f) ==
    Smaller(job.expires_at, Smaller(started[f] + AttemptSeconds, now + LeaseSeconds))

\* Leases.heartbeat; the worker sends one every heartbeat_seconds, or never again.
Heartbeat(f) ==
    /\ Authorized(f)
    /\ job' = [job EXCEPT !.lease_until = NextLease(f)]
    /\ UNCHANGED <<now, started, finished, outcome, woken>>

Finish(f) == Authorized(f) /\ Transition("succeeded", 0)
Fail(f) == Authorized(f) /\ \E retryable \in BOOLEAN : RetryOrFail(retryable)

\* Control.cancel
Cancel == (Waits \/ Runs) /\ Transition("cancelled", 0)

SweepRunning ==  \* fault: the sweep only looks at running jobs
    \/ Runs /\ Late /\ Transition("expired", 0)
    \/ Runs /\ ~Late /\ (Lapsed \/ Overtime) /\ RetryOrFail(TRUE)

SweepEnds == (Waits \/ Runs) /\ (Late \/ (Waits /\ job.fence >= MaxAttempts))

\* Recovery.sweep; the limit on attempts is read again here, although a job only
\* waits while it has attempts left.
Sweep ==
    \/ SweepEnds /\ Transition(IF Late THEN "expired" ELSE "failed", 0)
    \/ Runs /\ ~Late /\ (Lapsed \/ Overtime) /\ RetryOrFail(TRUE)

Tick ==
    /\ now < MaxTime
    /\ now' = now + 1
    /\ woken' = FALSE
    /\ UNCHANGED <<job, started, finished, outcome>>

-----------------------------------------------------------------------------

ClockInit ==
    /\ now = 0
    /\ job = [state |-> "none", fence |-> 0, due_at |-> 0, expires_at |-> 0,
              lease_until |-> Never]
    /\ started = [f \in Fences |-> Never] /\ finished = [f \in Fences |-> Never]
    /\ outcome = [f \in Fences |-> "none"]
    /\ woken = FALSE

ClockNext ==
    \/ AcceptJob \/ ClaimJob \/ RefuseClaim \/ Cancel \/ Sweep \/ Tick
    \/ \E f \in Fences : Heartbeat(f) \/ Finish(f) \/ Fail(f)

ClockSpec == ClockInit /\ [][ClockNext]_clockVars

\* Time passes and the scheduler's sweep comes round; no worker needs to be alive.
FairClockSpec == ClockSpec /\ WF_clockVars(Tick) /\ WF_clockVars(Sweep)

-----------------------------------------------------------------------------
(* Properties *)

\* A lease in force promises no more than the job and the attempt have left, and
\* never more than lease_seconds, however many heartbeats extended it.
LeaseWithinLimits ==
    Runs =>
        /\ job.lease_until <= job.expires_at
        /\ job.lease_until <= started[job.fence] + AttemptSeconds
        /\ job.lease_until <= now + LeaseSeconds

\* A reply is committed only within the working time of its attempt and before
\* the job expires, although nothing stops the process that computes it.
CommitsInTime ==
    \A f \in Fences : outcome[f] = "succeeded" =>
        /\ finished[f] < started[f] + AttemptSeconds
        /\ finished[f] < job.expires_at

\* "5-second then 30-second jittered delays": the next attempt starts no sooner
\* after the end of the one before it, and two attempts never overlap.
RetriesWait ==
    \A f \in Fences \ {MaxAttempts} : outcome[f + 1] # "none" =>
        /\ outcome[f] = "retry_pending"
        /\ started[f + 1] >= finished[f] + RetrySeconds[Smaller(f, 2)]

\* The deadlines of a job hold together: no lease, commit or retry is out of its time.
DeadlinesHold == LeaseWithinLimits /\ CommitsInTime /\ RetriesWait

\* A lease that ran out stays that way: only a new claim gives the job a lease.
LapsedIsLost ==
    [][Runs /\ Lapsed /\ job'.lease_until # Never => job'.fence > job.fence
           \/ job'.lease_until = job.lease_until]_clockVars

\* "Deadlines and attempt counters survive restart": every accepted job ends,
\* though all its workers may die, because it expires.
JobEnds == job.state # "none" ~> job.state \in Ended
=============================================================================
