-------------------------- MODULE LeaseClock_proofs --------------------------
(***************************************************************************)
(* Proofs about LeaseClock, for every setting of the deadlines, of the     *)
(* limit on attempts and of the delays.                                    *)
(***************************************************************************)
EXTENDS LeaseFlags, FiniteSetTheorems, TLAPS

USE ClockAssumption

Base(f) == RetrySeconds[Smaller(f, 2)]

\* What is known of the attempts before, at and after the fence of the job.
AttemptsInOrder ==
    \A f \in Fences :
        /\ f > job.fence => outcome[f] = "none"
        /\ f < job.fence => outcome[f] = "retry_pending"
        /\ f <= job.fence => started[f] \in Nat
        /\ outcome[f] \notin {"none", "open"} => finished[f] \in Nat

RunningIsOpen ==
    Runs => /\ job.fence \in Fences /\ outcome[job.fence] = "open"
            /\ job.lease_until \in Nat

\* A job that waits for a retry ended its last attempt a whole delay before.
RetryIsDated ==
    job.state = "retry_pending" =>
        /\ job.fence \in Fences /\ outcome[job.fence] = "retry_pending"
        /\ job.due_at >= finished[job.fence] + Base(job.fence)

ClockInv ==
    /\ ClockTypeOK
    /\ job.state \in {"none", "queued"} => job.fence = 0
    /\ AttemptsInOrder /\ RunningIsOpen /\ RetryIsDated
    /\ LeaseWithinLimits /\ CommitsInTime /\ RetriesWait

-----------------------------------------------------------------------------

\* The smaller of two numbers is one of them.
LEMMA SmallerIs ==
    ASSUME NEW a \in Int, NEW b \in Int
    PROVE  Smaller(a, b) \in {a, b} /\ Smaller(a, b) <= a /\ Smaller(a, b) <= b
  BY DEF Smaller

\* The configured delay is a number of seconds.
LEMMA BaseIsPositive == ASSUME NEW f \in Fences PROVE Base(f) \in Nat
  <1>1. Smaller(f, 2) \in 1 .. 2 BY DEF Smaller, Fences
  <1> QED BY <1>1 DEF Base

\* Jitter only adds to the configured delay.
LEMMA DelayIsEnough ==
    ASSUME NEW f \in Fences, NEW d \in Delays(f) PROVE d \in Nat /\ d >= Base(f)
  <1>1. PICK x \in Jitter : d = RetrySeconds[IF f <= 1 THEN 1 ELSE 2] + x
    BY DEF Delays
  <1>2. (IF f <= 1 THEN 1 ELSE 2) = Smaller(f, 2)
    BY DEF Smaller, Fences
  <1>3. d = Base(f) + x
    BY <1>1, <1>2 DEF Base
  <1> QED BY <1>3, BaseIsPositive

\* Every job that leaves the queue or an attempt leaves it through transition.
LEMMA TransitionKeepsClockInv ==
    ASSUME ClockInv, Waits \/ Runs,
           NEW target \in Ended \cup {"retry_pending"}, NEW delay \in Nat,
           target = "retry_pending" => Runs /\ delay >= Base(job.fence),
           target = "succeeded" => Authorized(job.fence),
           Transition(target, delay)
    PROVE  ClockInv'
  <1> USE DEF ClockInv
  <1>1. /\ job' = [job EXCEPT !.state = target, !.lease_until = Never, !.due_at = now + delay]
        /\ now' = now /\ started' = started /\ woken' = (target = "retry_pending")
    BY DEF Transition
  <1>2. /\ job'.state = target /\ job'.lease_until = Never /\ job'.due_at = now + delay
        /\ job'.fence = job.fence /\ job'.expires_at = job.expires_at
    BY <1>1 DEF ClockTypeOK, ClockRow
  <1>3. \A f \in Fences :
           /\ outcome'[f] = IF f = job.fence /\ outcome[f] = "open" THEN target ELSE outcome[f]
           /\ finished'[f] = IF f = job.fence /\ outcome[f] = "open" THEN now ELSE finished[f]
    BY DEF Transition
  <1>4. ClockTypeOK'
    <2>1. job \in ClockRow /\ now + delay \in Nat /\ Never \in Times
      BY DEF ClockTypeOK, Times
    <2>2. job' \in ClockRow
      BY <1>1, <2>1 DEF ClockRow
    <2>3. woken' \in BOOLEAN
      BY <1>1
    <2>4. outcome' \in [Fences -> {"none", "open", "retry_pending"} \cup Ended]
      BY DEF ClockTypeOK, Transition
    <2>5. finished' \in [Fences -> Times]
      BY DEF ClockTypeOK, Transition, Times
    <2> QED BY <1>1, <2>2, <2>3, <2>4, <2>5 DEF ClockTypeOK
  <1>5. target # "queued" /\ target # "none" /\ target # "running" /\ target # "open"
    BY DEF Ended
  <1>6. AttemptsInOrder'
    BY <1>1, <1>2, <1>3, <1>5 DEF AttemptsInOrder, ClockTypeOK, ClockRow, Fences
  <1>7. RunningIsOpen' /\ LeaseWithinLimits'
    BY <1>2, <1>5 DEF RunningIsOpen, LeaseWithinLimits, Runs
  <1>8. RetryIsDated'
    <2> SUFFICES ASSUME target = "retry_pending"
                 PROVE  /\ job.fence \in Fences /\ outcome'[job.fence] = "retry_pending"
                        /\ now + delay >= finished'[job.fence] + Base(job.fence)
      BY <1>2 DEF RetryIsDated, Base
    <2>1. job.fence \in Fences /\ outcome[job.fence] = "open" /\ delay >= Base(job.fence)
      BY DEF RunningIsOpen
    <2>2. outcome'[job.fence] = "retry_pending" /\ finished'[job.fence] = now
      BY <2>1, <1>3
    <2>3. Base(job.fence) \in Nat /\ now \in Nat
      BY <2>1, BaseIsPositive DEF ClockTypeOK
    <2> QED BY <2>1, <2>2, <2>3
  <1>9. CommitsInTime'
    <2> SUFFICES ASSUME NEW f \in Fences, outcome'[f] = "succeeded"
                 PROVE  finished'[f] < started'[f] + AttemptSeconds
                        /\ finished'[f] < job'.expires_at
      BY DEF CommitsInTime
    <2>1. CASE outcome[f] = "succeeded"
      BY <2>1, <1>1, <1>2, <1>3 DEF CommitsInTime
    <2>2. CASE outcome[f] # "succeeded"
      <3>1. f = job.fence /\ target = "succeeded" /\ finished'[f] = now
        BY <2>2, <1>3
      <3>2. ~Late /\ ~Overtime /\ started[f] \in Nat
        BY <3>1 DEF Authorized, AttemptsInOrder, ClockTypeOK, ClockRow, Fences
      <3> QED BY <3>1, <3>2, <1>1, <1>2 DEF Late, Overtime, ClockTypeOK, ClockRow
    <2> QED BY <2>1, <2>2
  <1>10. RetriesWait'
    <2> SUFFICES ASSUME NEW f \in Fences \ {MaxAttempts}, outcome'[f + 1] # "none"
                 PROVE  /\ outcome'[f] = "retry_pending"
                        /\ started'[f + 1] >= finished'[f] + RetrySeconds[Smaller(f, 2)]
      BY DEF RetriesWait
    <2>1. f + 1 \in Fences BY DEF Fences
    <2>2. outcome[f + 1] # "none"
      BY <2>1, <1>3
    <2>3. outcome[f] = "retry_pending" /\ finished'[f] = finished[f] /\ outcome'[f] = outcome[f]
      BY <2>2, <1>3 DEF RetriesWait
    <2> QED BY <2>2, <2>3, <1>1 DEF RetriesWait
  <1> QED BY <1>2, <1>4, <1>5, <1>6, <1>7, <1>8, <1>9, <1>10

\* retry_or_fail keeps the invariant.
LEMMA RetryOrFailKeepsClockInv ==
    ASSUME ClockInv, Runs, NEW retryable \in BOOLEAN, RetryOrFail(retryable)
    PROVE  ClockInv'
  <1>1. job.fence \in Fences
    BY DEF ClockInv, RunningIsOpen
  <1>2. CASE Transition("expired", 0)
    BY <1>2, TransitionKeepsClockInv DEF Ended
  <1>3. CASE Transition("failed", 0)
    BY <1>3, TransitionKeepsClockInv DEF Ended
  <1>4. CASE \E d \in Delays(job.fence) : Transition("retry_pending", d)
    <2>1. PICK d \in Delays(job.fence) : Transition("retry_pending", d)
      BY <1>4
    <2>2. d \in Nat /\ d >= Base(job.fence)
      BY <1>1, DelayIsEnough
    <2> QED BY <2>1, <2>2, TransitionKeepsClockInv
  <1> QED BY <1>2, <1>3, <1>4 DEF RetryOrFail

\* A new job keeps the invariant.
LEMMA AcceptKeepsClockInv == ASSUME ClockInv, AcceptJob PROVE ClockInv'
  <1> USE DEF ClockInv, AcceptJob
  <1>1. /\ job' = [job EXCEPT !.state = "queued", !.due_at = now,
                              !.expires_at = now + TtlSeconds]
        /\ UNCHANGED <<now, started, finished, outcome>>
    OBVIOUS
  <1>2. job'.state = "queued" /\ job'.fence = 0 /\ job.fence = 0
    BY DEF ClockTypeOK, ClockRow
  <1>3. ClockTypeOK'
    <2>1. job \in ClockRow /\ now \in Nat /\ now + TtlSeconds \in Nat
      BY DEF ClockTypeOK
    <2>2. job' \in ClockRow
      BY <1>1, <2>1 DEF ClockRow
    <2>3. woken' \in BOOLEAN
      OBVIOUS
    <2> QED BY <1>1, <2>2, <2>3 DEF ClockTypeOK
  <1>4. \A f \in Fences : outcome[f] = "none"
    BY <1>2 DEF AttemptsInOrder, Fences
  <1>5. AttemptsInOrder'
    BY <1>1, <1>2, <1>4 DEF AttemptsInOrder, Fences
  <1>6. RunningIsOpen' /\ RetryIsDated' /\ LeaseWithinLimits'
    BY <1>2 DEF RunningIsOpen, RetryIsDated, LeaseWithinLimits, Runs
  <1>7. CommitsInTime'
    BY <1>1, <1>4 DEF CommitsInTime
  <1>8. RetriesWait'
    BY <1>1 DEF RetriesWait
  <1> QED BY <1>2, <1>3, <1>5, <1>6, <1>7, <1>8

\* Leases.claim keeps the invariant.
LEMMA ClaimKeepsClockInv == ASSUME ClockInv, ClaimJob PROVE ClockInv'
  <1> USE DEF ClockInv
  <1> DEFINE f == job.fence + 1
  <1>1. /\ Waits /\ ~Late /\ job.fence < MaxAttempts /\ job.due_at <= now
        /\ job' = [job EXCEPT !.state = "running", !.fence = f, !.lease_until = FirstLease]
        /\ started' = [started EXCEPT ![f] = now]
        /\ outcome' = [outcome EXCEPT ![f] = "open"]
        /\ now' = now /\ finished' = finished /\ woken' = FALSE
    BY DEF ClaimJob
  <1>2. f \in Fences /\ job.fence \in Nat /\ now \in Nat /\ job.expires_at \in Nat
    BY <1>1 DEF ClockTypeOK, ClockRow, Fences
  <1>3. /\ FirstLease \in Nat /\ FirstLease <= job.expires_at
        /\ FirstLease <= now + LeaseSeconds
    BY <1>2, SmallerIs DEF FirstLease
  <1> HIDE DEF f
  <1>4. /\ job'.state = "running" /\ job'.fence = f /\ job'.lease_until = FirstLease
        /\ job'.expires_at = job.expires_at
    BY <1>1 DEF ClockTypeOK, ClockRow
  <1>5. /\ outcome'[f] = "open" /\ started'[f] = now
        /\ \A g \in Fences \ {f} : outcome'[g] = outcome[g] /\ started'[g] = started[g]
    BY <1>1, <1>2 DEF ClockTypeOK
  <1>6. f = job.fence + 1 BY DEF f
  <1>7. ClockTypeOK'
    <2>1. job \in ClockRow /\ FirstLease \in Times /\ f \in 0 .. MaxAttempts
      BY <1>2, <1>3 DEF ClockTypeOK, Times, Fences
    <2>2. job' \in ClockRow
      BY <1>1, <2>1 DEF ClockRow
    <2>3. woken' \in BOOLEAN
      BY <1>1
    <2> QED BY <2>2, <2>3, <1>1, <1>2 DEF ClockTypeOK, Times
  <1>8. job.fence = 0 \/ job.state = "retry_pending"
    BY <1>1 DEF Waits
  <1>9. AttemptsInOrder'
    <2> SUFFICES ASSUME NEW g \in Fences
                 PROVE  /\ g > f => outcome'[g] = "none"
                        /\ g < f => outcome'[g] = "retry_pending"
                        /\ g <= f => started'[g] \in Nat
                        /\ outcome'[g] \notin {"none", "open"} => finished'[g] \in Nat
      BY <1>4 DEF AttemptsInOrder
    <2>1. g \in Nat /\ f \in Nat BY <1>2 DEF Fences
    <2>2. CASE g = f BY <2>1, <2>2, <1>5, <1>2
    <2>3. CASE g > f BY <2>1, <2>3, <1>1, <1>2, <1>5, <1>6 DEF AttemptsInOrder
    <2>4. CASE g < f
      <3>1. outcome[g] = "retry_pending" /\ started[g] \in Nat
        BY <2>1, <2>4, <1>2, <1>6, <1>8 DEF AttemptsInOrder, RetryIsDated, Fences
      <3> QED BY <3>1, <2>1, <2>4, <1>1, <1>5 DEF AttemptsInOrder
    <2> QED BY <2>1, <2>2, <2>3, <2>4
  <1>10. RunningIsOpen'
    BY <1>2, <1>3, <1>4, <1>5 DEF RunningIsOpen
  <1>11. RetryIsDated' /\ (job.state \in {"none", "queued"} => job.fence = 0)'
    BY <1>4 DEF RetryIsDated
  <1>12. LeaseWithinLimits'
    BY <1>1, <1>2, <1>3, <1>4, <1>5 DEF LeaseWithinLimits
  <1>13. CommitsInTime'
    BY <1>1, <1>4, <1>5 DEF CommitsInTime
  <1>14. RetriesWait'
    <2> SUFFICES ASSUME NEW g \in Fences \ {MaxAttempts}, outcome'[g + 1] # "none"
                 PROVE  /\ outcome'[g] = "retry_pending"
                        /\ started'[g + 1] >= finished'[g] + Base(g)
      BY DEF RetriesWait, Base
    <2>1. g + 1 \in Fences /\ g \in Nat BY DEF Fences
    <2>2. CASE g + 1 = f
      <3>1. g = job.fence /\ g # f
        BY <2>1, <2>2, <1>2, <1>6
      <3>2. job.state = "retry_pending" /\ outcome[g] = "retry_pending"
            /\ job.due_at >= finished[g] + Base(g)
        BY <3>1, <1>8 DEF RetryIsDated, Fences
      <3>3. finished[g] \in Nat /\ Base(g) \in Nat /\ job.due_at \in Nat
        BY <3>2, BaseIsPositive DEF AttemptsInOrder, ClockTypeOK, ClockRow
      <3> QED BY <3>1, <3>2, <3>3, <2>2, <1>1, <1>2, <1>5
    <2>3. CASE g + 1 # f
      <3>1. outcome[g + 1] # "none" /\ started'[g + 1] = started[g + 1]
        BY <2>1, <2>3, <1>5
      <3>2. outcome[g] = "retry_pending" /\ started[g + 1] >= finished[g] + Base(g)
        BY <3>1 DEF RetriesWait, Base
      <3>3. g # f
        BY <3>2, <1>2, <1>6 DEF AttemptsInOrder
      <3> QED BY <3>1, <3>2, <3>3, <1>1, <1>5
    <2> QED BY <2>2, <2>3
  <1> QED BY <1>7, <1>9, <1>10, <1>11, <1>12, <1>13, <1>14

\* Leases.heartbeat keeps the invariant.
LEMMA HeartbeatKeepsClockInv ==
    ASSUME ClockInv, NEW f \in Fences, Heartbeat(f) PROVE ClockInv'
  <1> USE DEF ClockInv
  <1>1. /\ Runs /\ job.fence = f
        /\ job' = [job EXCEPT !.lease_until = NextLease(f)]
        /\ UNCHANGED <<now, started, finished, outcome, woken>>
    BY DEF Heartbeat, Authorized
  <1>2. now \in Nat /\ job.expires_at \in Nat /\ started[f] \in Nat
    BY <1>1 DEF AttemptsInOrder, ClockTypeOK, ClockRow, Fences
  <1> DEFINE limit == Smaller(started[f] + AttemptSeconds, now + LeaseSeconds)
  <1>3. /\ limit \in Nat /\ limit <= started[f] + AttemptSeconds
        /\ limit <= now + LeaseSeconds
    BY <1>2, SmallerIs
  <1>4. /\ NextLease(f) \in Nat /\ NextLease(f) <= job.expires_at /\ NextLease(f) <= limit
    <2> HIDE DEF limit
    <2>1. NextLease(f) = Smaller(job.expires_at, limit) BY DEF NextLease, limit
    <2> QED BY <2>1, <1>2, <1>3, SmallerIs
  <1> HIDE DEF limit
  <1>5. /\ job'.state = job.state /\ job'.fence = job.fence /\ job'.due_at = job.due_at
        /\ job'.expires_at = job.expires_at /\ job'.lease_until = NextLease(f)
    BY <1>1 DEF ClockTypeOK, ClockRow
  <1>6. ClockTypeOK'
    BY <1>1, <1>4 DEF ClockTypeOK, ClockRow, Times
  <1>7. LeaseWithinLimits'
    BY <1>1, <1>2, <1>3, <1>4, <1>5 DEF LeaseWithinLimits
  <1>8. AttemptsInOrder' /\ RunningIsOpen' /\ RetryIsDated'
    BY <1>1, <1>4, <1>5 DEF AttemptsInOrder, RunningIsOpen, RetryIsDated, Runs
  <1>9. CommitsInTime' /\ RetriesWait'
    BY <1>1, <1>5 DEF CommitsInTime, RetriesWait
  <1> QED BY <1>5, <1>6, <1>7, <1>8, <1>9

\* The clock keeps the invariant.
LEMMA TickKeepsClockInv == ASSUME ClockInv, Tick PROVE ClockInv'
  <1> USE DEF ClockInv, Tick
  <1>1. ClockTypeOK'
    <2>1. now' \in Nat
      BY DEF ClockTypeOK
    <2>2. woken' \in BOOLEAN
      OBVIOUS
    <2> QED BY <2>1, <2>2 DEF ClockTypeOK
  <1>2. LeaseWithinLimits'
    BY DEF LeaseWithinLimits, RunningIsOpen, Runs, ClockTypeOK
  <1>3. AttemptsInOrder' /\ RunningIsOpen' /\ RetryIsDated'
    BY DEF AttemptsInOrder, RunningIsOpen, RetryIsDated, Runs
  <1>4. CommitsInTime' /\ RetriesWait'
    BY DEF CommitsInTime, RetriesWait
  <1> QED BY <1>1, <1>2, <1>3, <1>4

\* The invariant holds before the job.
LEMMA InitClockInv == ClockInit => ClockInv
  <1> SUFFICES ASSUME ClockInit PROVE ClockInv
    OBVIOUS
  <1> USE DEF ClockInit
  <1>1. ClockTypeOK
    <2>1. job \in ClockRow
      BY DEF ClockRow, Times
    <2>2. woken \in BOOLEAN
      OBVIOUS
    <2> QED BY <2>1, <2>2 DEF ClockTypeOK, Times
  <1>2. AttemptsInOrder /\ CommitsInTime /\ RetriesWait
    BY DEF AttemptsInOrder, CommitsInTime, RetriesWait, Fences
  <1>3. RunningIsOpen /\ RetryIsDated /\ LeaseWithinLimits
    BY DEF RunningIsOpen, RetryIsDated, LeaseWithinLimits, Runs
  <1> QED BY <1>1, <1>2, <1>3 DEF ClockInv

\* Every step keeps it.
LEMMA NextClockInv == ClockInv /\ [ClockNext]_clockVars => ClockInv'
  <1> SUFFICES ASSUME ClockInv, [ClockNext]_clockVars PROVE ClockInv'
    OBVIOUS
  <1>1. CASE AcceptJob BY <1>1, AcceptKeepsClockInv
  <1>2. CASE ClaimJob BY <1>2, ClaimKeepsClockInv
  <1>3. CASE RefuseClaim
    BY <1>3, TransitionKeepsClockInv DEF RefuseClaim, Ended
  <1>4. CASE Cancel
    BY <1>4, TransitionKeepsClockInv DEF Cancel, Ended
  <1>5. CASE Sweep
    <2>1. CASE SweepEnds /\ Transition(IF Late THEN "expired" ELSE "failed", 0)
      BY <2>1, TransitionKeepsClockInv DEF SweepEnds, Ended
    <2>2. CASE Runs /\ RetryOrFail(TRUE)
      BY <2>2, RetryOrFailKeepsClockInv
    <2> QED BY <1>5, <2>1, <2>2 DEF Sweep
  <1>6. CASE Tick BY <1>6, TickKeepsClockInv
  <1>7. CASE \E f \in Fences : Heartbeat(f)
    BY <1>7, HeartbeatKeepsClockInv
  <1>8. CASE \E f \in Fences : Finish(f)
    <2>1. PICK f \in Fences : Authorized(f) /\ Transition("succeeded", 0)
      BY <1>8 DEF Finish
    <2>2. Runs /\ Authorized(job.fence)
      BY <2>1 DEF Authorized
    <2> QED BY <2>1, <2>2, TransitionKeepsClockInv DEF Ended
  <1>9. CASE \E f \in Fences : Fail(f)
    BY <1>9, RetryOrFailKeepsClockInv DEF Fail, Authorized
  <1>10. CASE UNCHANGED clockVars
    BY <1>10 DEF clockVars, ClockInv, ClockTypeOK, AttemptsInOrder, RunningIsOpen,
       RetryIsDated, LeaseWithinLimits, CommitsInTime, RetriesWait, Runs
  <1> QED BY <1>1, <1>2, <1>3, <1>4, <1>5, <1>6, <1>7, <1>8, <1>9, <1>10 DEF ClockNext

-----------------------------------------------------------------------------

\* The inductive invariant of the deadlines.
THEOREM ClockInvariance == ClockSpec => []ClockInv
  <1> QED BY InitClockInv, NextClockInv, PTL DEF ClockSpec

\* The rows have the types of the schema, whatever the settings.
THEOREM ClockTypes == ClockSpec => []ClockTypeOK
  <1>1. ClockInv => ClockTypeOK BY DEF ClockInv
  <1> QED BY <1>1, ClockInvariance, PTL

\* However often a lease is extended, it ends with the job and the attempt.
THEOREM LeasesAreLimited == ClockSpec => []LeaseWithinLimits
  <1>1. ClockInv => LeaseWithinLimits BY DEF ClockInv
  <1> QED BY <1>1, ClockInvariance, PTL

\* A reply is committed within the time of its attempt and of its job.
THEOREM CommitsAreTimely == ClockSpec => []CommitsInTime
  <1>1. ClockInv => CommitsInTime BY DEF ClockInv
  <1> QED BY <1>1, ClockInvariance, PTL

\* Attempts follow one another with the configured delay between them.
THEOREM RetriesAreSpaced == ClockSpec => []RetriesWait
  <1>1. ClockInv => RetriesWait BY DEF ClockInv
  <1> QED BY <1>1, ClockInvariance, PTL

\* The deadlines hold together.
THEOREM DeadlinesAreHeld == ClockSpec => []DeadlinesHold
  <1>1. ClockInv => DeadlinesHold BY DEF ClockInv, DeadlinesHold
  <1> QED BY <1>1, ClockInvariance, PTL

\* A lapsed lease is not revived: no heartbeat, finish or sweep gives it back.
THEOREM LapsedStaysLost == ClockSpec => LapsedIsLost
  <1> DEFINE Kept == Runs /\ Lapsed /\ job'.lease_until # Never =>
                        job'.fence > job.fence \/ job'.lease_until = job.lease_until
  <1>1. ClockInv /\ [ClockNext]_clockVars => [Kept]_clockVars
    <2> SUFFICES ASSUME ClockInv, ClockNext, Runs, Lapsed, job'.lease_until # Never
                 PROVE  job'.lease_until = job.lease_until
      OBVIOUS
    <2>1. ASSUME NEW target, NEW delay, Transition(target, delay) PROVE FALSE
      BY <2>1 DEF Transition, ClockInv, ClockTypeOK, ClockRow
    <2>2. ASSUME NEW retryable, RetryOrFail(retryable) PROVE FALSE
      BY <2>1, <2>2 DEF RetryOrFail
    <2>3. CASE Tick BY <2>3 DEF Tick
    <2>4. CASE \E f \in Fences : Heartbeat(f) \/ Finish(f) \/ Fail(f)
      BY <2>4 DEF Heartbeat, Finish, Fail, Authorized
    <2>5. CASE AcceptJob \/ ClaimJob \/ RefuseClaim
      BY <2>5 DEF AcceptJob, ClaimJob, RefuseClaim, Waits, Runs
    <2>6. CASE Cancel BY <2>6, <2>1 DEF Cancel
    <2>7. CASE Sweep BY <2>7, <2>1, <2>2 DEF Sweep
    <2> QED BY <2>3, <2>4, <2>5, <2>6, <2>7 DEF ClockNext
  <1> QED BY <1>1, ClockInvariance, PTL DEF ClockSpec, LapsedIsLost

-----------------------------------------------------------------------------
(* The refinement: the numbers of the clock read as flags *)

USE NamesAssumption

\* Only an attempt holds a lease.
IdleHasNoLease == ~Runs => job.lease_until = Never

\* No step gives a job that does not run a lease.
LEMMA IdleKept == ASSUME ClockInv, IdleHasNoLease, [ClockNext]_clockVars PROVE IdleHasNoLease'
  <1>1. ASSUME NEW t, NEW d, Transition(t, d) PROVE IdleHasNoLease'
    <2>1. /\ job \in ClockRow
          /\ job' = [job EXCEPT !.state = t, !.lease_until = Never, !.due_at = now + d]
      BY <1>1 DEF Transition, ClockInv, ClockTypeOK
    <2>2. job'.lease_until = Never
      BY <2>1 DEF ClockRow
    <2> QED BY <2>2 DEF IdleHasNoLease
  <1>2. ASSUME NEW r, RetryOrFail(r) PROVE IdleHasNoLease'
    <2>1. \E t, d : Transition(t, d)
      BY <1>2 DEF RetryOrFail
    <2> QED BY <1>1, <2>1
  <1>3. CASE AcceptJob
    <2>1. job'.lease_until = job.lease_until /\ job.state = "none"
      BY <1>3 DEF AcceptJob, ClockInv, ClockTypeOK, ClockRow
    <2> QED BY <2>1 DEF IdleHasNoLease, Runs
  <1>4. CASE ClaimJob
    <2>1. job'.state = "running"
      BY <1>4 DEF ClaimJob, ClockInv, ClockTypeOK, ClockRow
    <2> QED BY <2>1 DEF IdleHasNoLease, Runs
  <1>5. CASE \E f \in Fences : Heartbeat(f)
    <2>1. job'.state = "running"
      BY <1>5 DEF Heartbeat, Authorized, Runs, ClockInv, ClockTypeOK, ClockRow
    <2> QED BY <2>1 DEF IdleHasNoLease, Runs
  <1>6. CASE Tick \/ UNCHANGED clockVars
    BY <1>6 DEF Tick, clockVars, IdleHasNoLease, Runs
  <1>7. CASE RefuseClaim \/ Cancel \/ Sweep
    BY <1>1, <1>2, <1>7 DEF RefuseClaim, Cancel, Sweep
  <1>8. CASE \E f \in Fences : Finish(f) \/ Fail(f)
    BY <1>1, <1>2, <1>8 DEF Finish, Fail
  <1> QED BY <1>3, <1>4, <1>5, <1>6, <1>7, <1>8 DEF ClockNext

-----------------------------------------------------------------------------

\* The row that the clock and the flags make of a job, before and after a step.
LEMMA FlagValues ==
    /\ JobFlags.conversation = IF job.state = "none" THEN NoValue ELSE TheChat
    /\ JobFlags.key = IF job.state = "none" THEN NoValue ELSE TheKey
    /\ JobFlags.generation = IF job.state = "none" THEN 0 ELSE 1
    /\ JobFlags.order = IF job.state = "none" THEN 0 ELSE 1
    /\ JobFlags.epoch = IF job.state = "none" THEN 0 ELSE 1
    /\ JobFlags.state = job.state /\ JobFlags.attempts = job.fence /\ JobFlags.fence = job.fence
    /\ JobFlags.lease = LeaseFlag
    /\ JobFlags.due <=> (job.state = "retry_pending" => job.due_at <= now)
    /\ JobFlags.expired <=> Unsettled /\ Late
    /\ JobFlags.overtime <=> Runs /\ Overtime
    /\ JobFlags.cancel <=> job.state = "cancelled"
  BY DEF JobFlags

\* The same after a step.
LEMMA FlagValuesAfter ==
    /\ JobFlags'.conversation = IF job'.state = "none" THEN NoValue ELSE TheChat
    /\ JobFlags'.key = IF job'.state = "none" THEN NoValue ELSE TheKey
    /\ JobFlags'.generation = IF job'.state = "none" THEN 0 ELSE 1
    /\ JobFlags'.order = IF job'.state = "none" THEN 0 ELSE 1
    /\ JobFlags'.epoch = IF job'.state = "none" THEN 0 ELSE 1
    /\ JobFlags'.state = job'.state /\ JobFlags'.attempts = job'.fence
    /\ JobFlags'.fence = job'.fence /\ JobFlags'.lease = LeaseFlag'
    /\ JobFlags'.due <=> (job'.state = "retry_pending" => job'.due_at <= now')
    /\ JobFlags'.expired <=> Unsettled' /\ Late'
    /\ JobFlags'.overtime <=> Runs' /\ Overtime'
    /\ JobFlags'.cancel <=> job'.state = "cancelled"
  BY DEF JobFlags

\* The row is one of the table of jobs.
LEMMA FlagTypes == ClockInv => JobFlags \in Flags!Job
  <1> SUFFICES ASSUME ClockInv PROVE JobFlags \in Flags!Job
    OBVIOUS
  <1>1. JobFlags.due \in BOOLEAN /\ JobFlags.expired \in BOOLEAN
        /\ JobFlags.overtime \in BOOLEAN /\ JobFlags.cancel \in BOOLEAN
    BY DEF JobFlags
  <1>2. JobFlags.lease \in {"none", "live", "lapsed"}
    BY FlagValues DEF LeaseFlag
  <1>3. job \in ClockRow
    BY DEF ClockInv, ClockTypeOK
  <1>4. JobFlags.state \in Flags!JobStates
    BY <1>3, FlagValues DEF ClockRow, Ended, Flags!JobStates, Flags!ACTIVE, Flags!Unfinished,
                            Flags!Waiting, Flags!Final
  <1>5. /\ JobFlags.conversation \in {TheChat, NoValue} /\ JobFlags.key \in {TheKey, NoValue}
        /\ JobFlags.generation \in Nat /\ JobFlags.order \in Nat /\ JobFlags.epoch \in Nat
        /\ JobFlags.attempts \in Nat /\ JobFlags.fence \in Nat
    BY <1>3, FlagValues DEF ClockRow
  <1>6. JobFlags = [conversation |-> JobFlags.conversation, key |-> JobFlags.key,
                    generation |-> JobFlags.generation, order |-> JobFlags.order,
                    epoch |-> JobFlags.epoch, state |-> JobFlags.state,
                    attempts |-> JobFlags.attempts, fence |-> JobFlags.fence,
                    lease |-> JobFlags.lease, due |-> JobFlags.due,
                    expired |-> JobFlags.expired, overtime |-> JobFlags.overtime,
                    cancel |-> JobFlags.cancel]
    BY DEF JobFlags
  <1> QED BY <1>1, <1>2, <1>4, <1>5, <1>6 DEF Flags!Job

\* Two rows are the same if all their fields are.
LEMMA SameRow ==
    ASSUME NEW r \in Flags!Job, NEW q \in Flags!Job,
           r.conversation = q.conversation, r.key = q.key, r.generation = q.generation,
           r.order = q.order, r.epoch = q.epoch, r.state = q.state, r.attempts = q.attempts,
           r.fence = q.fence, r.lease = q.lease, r.due <=> q.due, r.expired <=> q.expired,
           r.overtime <=> q.overtime, r.cancel <=> q.cancel
    PROVE  r = q
  BY DEF Flags!Job

Submission == [conversation |-> TheChat, generation |-> 1, sequence |-> 1, role |-> "user",
               origin |-> TheJob]
Reply == [conversation |-> TheChat, generation |-> 1, sequence |-> 2, role |-> "assistant",
          origin |-> TheJob]

\* The messages there are.
LEMMA ThreadIs ==
    /\ job.state = "none" => Thread = {}
    /\ job.state \notin {"none", "succeeded"} => Thread = {Submission}
    /\ job.state = "succeeded" => Thread = {Submission, Reply}
    /\ job'.state = "none" => Thread' = {}
    /\ job'.state \notin {"none", "succeeded"} => Thread' = {Submission}
    /\ job'.state = "succeeded" => Thread' = {Submission, Reply}
  BY DEF Thread, Submission, Reply

\* How many messages there are.
LEMMA ThreadCounts ==
    /\ Cardinality({}) = 0 /\ Cardinality({Submission}) = 1
    /\ Cardinality({Submission, Reply}) = 2 /\ Submission # Reply
  <1>1. Submission # Reply
    BY DEF Submission, Reply
  <1> HIDE DEF Submission, Reply
  <1>2. {Submission, Reply} = {Submission} \cup {Reply}
    OBVIOUS
  <1>3. Cardinality({}) = 0 /\ Cardinality({Submission}) = 1 /\ IsFiniteSet({Submission})
    BY FS_EmptySet, FS_Singleton
  <1>4. Cardinality({Submission} \cup {Reply}) = 2
    <2>1. Reply \notin {Submission}
      BY <1>1
    <2> DEFINE S == {Submission}
    <2>2. IsFiniteSet(S) /\ Reply \notin S /\ Cardinality(S) = 1
      BY <1>3, <2>1
    <2> HIDE DEF S
    <2>3. Cardinality(S \cup {Reply}) = Cardinality(S) + 1
      BY <2>2, FS_AddElement
    <2> QED BY <2>2, <2>3 DEF S
  <1> QED BY <1>1, <1>2, <1>3, <1>4

\* The tables of one row.
LEMMA OneRow ==
    /\ JobTable[TheJob] = JobFlags /\ JobTable'[TheJob] = JobFlags'
    /\ \A r : JobFlags' = r => JobTable' = [JobTable EXCEPT ![TheJob] = r]
    /\ Chats[TheChat] = ChatFlags /\ Chats'[TheChat] = ChatFlags'
    /\ \A r : ChatFlags' = r => Chats' = [Chats EXCEPT ![TheChat] = r]
    /\ Attempts[TheJob] = outcome
    /\ \A r : outcome' = r => Attempts' = [Attempts EXCEPT ![TheJob] = r]
    /\ Enabling[TheOwner] = TRUE /\ Runtime.enabled = TRUE /\ Runtime.epoch = 1
  BY DEF JobTable, Chats, Attempts, Enabling, Runtime

\* Work is always enabled here.
LEMMA AlwaysEnabled ==
    ASSUME Waits \/ Runs PROVE Flags!Enabled(TheJob)
  <1>1. job.state \notin {"none", "cancelled"}
    BY DEF Waits, Runs
  <1>2. /\ JobTable[TheJob].state # "none" /\ JobTable[TheJob].conversation = TheChat
        /\ JobTable[TheJob].epoch = 1 /\ JobTable[TheJob].generation = 1 /\ ~JobTable[TheJob].cancel
    BY <1>1, FlagValues, OneRow
  <1>3. Chats[TheChat].generation = 1 /\ ~Chats[TheChat].reconciliation_hold
    BY OneRow DEF ChatFlags
  <1> QED BY <1>2, <1>3, OneRow DEF Flags!Enabled, Flags!OwnerEnabled, Flags!ConversationOf

\* No turn is before it, none is woken but by itself, and it has no effects.
LEMMA NoOtherTurn ==
    /\ ~Flags!EarlierActive(TheJob)
    /\ \A js, cs : js[TheJob].state \notin Flags!Waiting => Flags!WakeNext(js, cs, TheChat) = {}
    /\ ~Flags!HasEffect(TheJob) /\ ~Flags!HasUnresolved(TheJob)
    /\ \A t : Flags!Settled(TheJob, t) = t
  <1>1. ~Flags!EarlierActive(TheJob)
    <2>1. JobFlags.order \in Nat
      BY FlagValues
    <2>2. JobTable[TheJob].order = JobFlags.order
      BY OneRow
    <2> QED BY <2>1, <2>2 DEF Flags!EarlierActive, Flags!TurnsOf, Flags!JobsOf
  <1>2. \A js, cs : js[TheJob].state \notin Flags!Waiting => Flags!WakeNext(js, cs, TheChat) = {}
    BY DEF Flags!WakeNext, Flags!TurnsOf, Flags!JobsOf
  <1>3. ~Flags!HasEffect(TheJob) /\ ~Flags!HasUnresolved(TheJob)
    BY DEF Flags!HasEffect, Flags!HasUnresolved
  <1>4. \A t : Flags!Settled(TheJob, t) = t
    BY <1>3 DEF Flags!Settled
  <1> QED BY <1>1, <1>2, <1>3, <1>4

\* A transition of the clock is one of the flags.
LEMMA TransitionFlags ==
    ASSUME ClockInv, ClockInv', Waits \/ Runs,
           NEW target \in Ended \cup {"retry_pending"}, NEW delay \in Nat,
           Transition(target, delay),
           target = "retry_pending" => delay > 0 /\ ~Late,
           NEW row \in Flags!Job,
           row = IF target = "cancelled" THEN [JobFlags EXCEPT !.cancel = TRUE] ELSE JobFlags,
           NEW crow, Flags!HoldAfter(crow, target) = ChatFlags'
    PROVE  Flags!Transition(TheJob, row, crow, target)
  <1> DEFINE after == Flags!JobAfter(TheJob, row, target)
  <1>1. /\ job \in ClockRow /\ job.state \notin {"none", "cancelled"}
        /\ job' = [job EXCEPT !.state = target, !.lease_until = Never, !.due_at = now + delay]
        /\ now' = now /\ now \in Nat /\ woken' = (target = "retry_pending")
    BY DEF Transition, ClockInv, ClockTypeOK, Waits, Runs
  <1>2. /\ job'.state = target /\ job'.lease_until = Never /\ job'.due_at = now + delay
        /\ job'.fence = job.fence /\ job'.expires_at = job.expires_at
    BY <1>1 DEF ClockRow
  <1>3. JobFlags \in Flags!Job /\ JobFlags' \in Flags!Job
    <2>1. (ClockInv => JobFlags \in Flags!Job)'
      BY FlagTypes, PTL
    <2> QED BY FlagTypes, <2>1
  <1>4. /\ row.conversation = TheChat /\ row.key = TheKey /\ row.generation = 1
        /\ row.order = 1 /\ row.epoch = 1 /\ row.attempts = job.fence /\ row.fence = job.fence
        /\ row.cancel <=> target = "cancelled"
    <2>1. /\ JobFlags.conversation = TheChat /\ JobFlags.key = TheKey /\ JobFlags.generation = 1
          /\ JobFlags.order = 1 /\ JobFlags.epoch = 1 /\ JobFlags.attempts = job.fence
          /\ JobFlags.fence = job.fence /\ ~JobFlags.cancel
      BY <1>1, FlagValues
    <2>2. CASE target = "cancelled"
      BY <1>3, <2>1, <2>2 DEF Flags!Job
    <2>3. CASE target # "cancelled"
      BY <2>1, <2>3
    <2> QED BY <2>2, <2>3
  <1>5. target \in Flags!JobStates
    BY DEF Ended, Flags!JobStates, Flags!ACTIVE, Flags!Unfinished, Flags!Waiting, Flags!Final
  <1>6. /\ after \in Flags!Job
        /\ after.conversation = row.conversation /\ after.key = row.key
        /\ after.generation = row.generation /\ after.order = row.order
        /\ after.epoch = row.epoch /\ after.state = target
        /\ after.attempts = row.attempts /\ after.fence = row.fence
        /\ after.lease = "none" /\ (after.due <=> target # "retry_pending")
        /\ ~after.expired /\ ~after.overtime /\ (after.cancel <=> row.cancel)
    BY <1>5, NoOtherTurn DEF Flags!JobAfter, Flags!Job
  <1> HIDE DEF after
  <1>7. target \notin {"none", "queued", "running"}
    BY DEF Ended
  <1>8. /\ LeaseFlag' = "none" /\ ~Runs'
        /\ ~(Unsettled' /\ Late')
        /\ (job'.state = "retry_pending" => job'.due_at <= now') <=> target # "retry_pending"
    <2>1. LeaseFlag' = "none" /\ ~Runs'
      BY <1>2, <1>7 DEF LeaseFlag, Runs
    <2>2. ~(Unsettled' /\ Late')
      <3>1. CASE target = "retry_pending"
        BY <1>1, <1>2, <3>1 DEF Late
      <3>2. CASE target # "retry_pending"
        BY <1>2, <1>7, <2>1, <3>2 DEF Unsettled, Waits
      <3> QED BY <3>1, <3>2
    <2>3. (job'.state = "retry_pending" => job'.due_at <= now') <=> target # "retry_pending"
      BY <1>1, <1>2
    <2> QED BY <2>1, <2>2, <2>3
  <1>9. /\ JobFlags'.conversation = TheChat /\ JobFlags'.key = TheKey /\ JobFlags'.generation = 1
        /\ JobFlags'.order = 1 /\ JobFlags'.epoch = 1 /\ JobFlags'.state = target
        /\ JobFlags'.attempts = job.fence /\ JobFlags'.fence = job.fence
        /\ JobFlags'.lease = "none" /\ (JobFlags'.due <=> target # "retry_pending")
        /\ ~JobFlags'.expired /\ ~JobFlags'.overtime
        /\ (JobFlags'.cancel <=> target = "cancelled")
    BY <1>2, <1>7, <1>8, FlagValuesAfter
  <1>10. JobFlags' = after
    BY <1>3, <1>4, <1>6, <1>9, SameRow
  <1>11. JobTable' = [JobTable EXCEPT ![TheJob] = after]
    BY <1>10, OneRow
  <1>12. Chats' = [Chats EXCEPT ![TheChat] = Flags!HoldAfter(crow, target)]
    BY OneRow
  <1>13. outcome' = Flags!CloseAttempt(outcome, TheJob, target)
    <2>1. outcome' = [f \in Fences |->
                          IF f \in {g \in Fences : g = job.fence /\ outcome[g] = "open"}
                          THEN target ELSE outcome[f]]
      BY DEF Transition
    <2>2. JobTable[TheJob].fence = job.fence
      BY OneRow, FlagValues
    <2> QED BY <2>1, <2>2 DEF Flags!CloseAttempt, Fences
  <1>14. Attempts' = [Attempts EXCEPT ![TheJob] =
                          Flags!CloseAttempt(Attempts[TheJob], TheJob, target)]
    BY <1>13, OneRow
  <1>15. Wake' = IF target = "retry_pending" THEN {TheJob}
                 ELSE Flags!WakeNext(JobTable', Chats', TheChat)
    <2>1. JobTable'[TheJob].state = target
      BY <1>9, OneRow
    <2>2. target # "retry_pending" => target \notin Flags!Waiting
      BY <1>7 DEF Flags!Waiting
    <2>3. target # "retry_pending" => Flags!WakeNext(JobTable', Chats', TheChat) = {}
      BY <2>1, <2>2, NoOtherTurn
    <2>4. Wake' = IF target = "retry_pending" THEN {TheJob} ELSE {}
      BY <1>1 DEF Wake
    <2> QED BY <2>3, <2>4
  <1>16. Flags!Settled(TheJob, target) = target /\ JobTable[TheJob].conversation = TheChat
    BY <1>1, NoOtherTurn, OneRow, FlagValues
  <1> QED BY <1>11, <1>12, <1>14, <1>15, <1>16 DEF Flags!Transition, after

\* A job that neither joins nor is answered leaves its conversation as it is.
LEMMA QuietChat ==
    ASSUME job.state \notin {"none", "succeeded"},
           job'.state \notin {"none", "succeeded", "needs_reconciliation"}
    PROVE  /\ Thread' = Thread
           /\ ChatFlags' = ChatFlags
           /\ Flags!HoldAfter(ChatFlags, job'.state) = ChatFlags'
  <1>1. Thread' = Thread
    BY ThreadIs
  <1>2. ChatFlags' = ChatFlags
    BY <1>1 DEF ChatFlags
  <1>3. Flags!HoldAfter(ChatFlags, job'.state) = ChatFlags
    <2>1. job'.state # "needs_reconciliation"
      OBVIOUS
    <2> DEFINE n == Cardinality(Thread) + 1
               k == IF job.state = "none" THEN 1 ELSE 2
    <2>2. ChatFlags = [generation |-> 1, next_message_seq |-> n, next_job_order |-> k,
                       reconciliation_hold |-> FALSE]
      BY DEF ChatFlags
    <2> HIDE DEF n, k
    <2>3. (FALSE \/ job'.state = "needs_reconciliation") = FALSE
      BY <2>1
    <2>4. (ChatFlags.reconciliation_hold \/ job'.state = "needs_reconciliation") = FALSE
      <3>1. ChatFlags.reconciliation_hold = FALSE
        BY <2>2
      <3> QED BY <3>1, <2>3
    <2>5. Flags!HoldAfter(ChatFlags, job'.state)
            = [ChatFlags EXCEPT !.reconciliation_hold =
                  ChatFlags.reconciliation_hold \/ job'.state = "needs_reconciliation"]
      BY Zenon DEF Flags!HoldAfter
    <2>6. Flags!HoldAfter(ChatFlags, job'.state)
            = [ChatFlags EXCEPT !.reconciliation_hold = FALSE]
      BY <2>4, <2>5, Zenon
    <2>7. [ChatFlags EXCEPT !.reconciliation_hold = FALSE] = ChatFlags
      <3>1. \A b : [generation |-> 1, next_message_seq |-> n, next_job_order |-> k,
                    reconciliation_hold |-> b]
                 = [[generation |-> 1, next_message_seq |-> n, next_job_order |-> k,
                     reconciliation_hold |-> b] EXCEPT !.reconciliation_hold = b]
        OBVIOUS
      <3> QED BY <2>2, <3>1, Zenon
    <2> QED BY <2>6, <2>7
  <1> QED BY <1>1, <1>2, <1>3

\* What the flags say of a job that waits or runs.
LEMMA LiveFlags ==
    ASSUME ClockInv, Waits \/ Runs
    PROVE  /\ JobTable[TheJob].state = job.state /\ JobTable[TheJob].conversation = TheChat
           /\ JobTable[TheJob].generation = 1 /\ JobTable[TheJob].epoch = 1
           /\ JobTable[TheJob].attempts = job.fence /\ JobTable[TheJob].fence = job.fence
           /\ (JobTable[TheJob].expired <=> Late)
           /\ (JobTable[TheJob].overtime <=> Runs /\ Overtime)
           /\ (JobTable[TheJob].due <=> (job.state = "retry_pending" => job.due_at <= now))
           /\ JobTable[TheJob].lease = LeaseFlag /\ ~JobTable[TheJob].cancel
           /\ job.state \in Flags!Unfinished
           /\ (Waits <=> job.state \in Flags!Waiting)
           /\ Flags!ConversationOf(TheJob) = ChatFlags
           /\ Chats[TheChat] = ChatFlags /\ ChatFlags.generation = 1
           /\ job.state \notin {"none", "succeeded", "cancelled"}
  <1>1. job.state \in {"queued", "retry_pending", "running"}
    BY DEF Waits, Runs
  <1>2. Unsettled
    BY DEF Unsettled
  <1>3. JobTable[TheJob] = JobFlags /\ Chats[TheChat] = ChatFlags
    BY OneRow
  <1>4. ChatFlags.generation = 1
    BY DEF ChatFlags
  <1>5. JobFlags.conversation = TheChat
    BY <1>1, FlagValues
  <1> QED BY <1>1, <1>2, <1>3, <1>4, <1>5, FlagValues
          DEF Flags!ConversationOf, Flags!Unfinished, Flags!Waiting, Waits

\* Any end or retry but by a reply or a cancel.
LEMMA SettleFlags ==
    ASSUME ClockInv, ClockInv', Waits \/ Runs,
           NEW target \in {"failed", "expired", "retry_pending"}, NEW delay \in Nat,
           Transition(target, delay), target = "retry_pending" => delay > 0 /\ ~Late
    PROVE  /\ Flags!Transition(TheJob, JobTable[TheJob], Flags!ConversationOf(TheJob), target)
           /\ Thread' = Thread
  <1>1. job'.state = target
    BY DEF Transition, ClockInv, ClockTypeOK, ClockRow
  <1>2. Thread' = Thread /\ Flags!HoldAfter(ChatFlags, target) = ChatFlags'
    BY <1>1, LiveFlags, QuietChat
  <1>3. JobFlags \in Flags!Job /\ JobTable[TheJob] = JobFlags
    BY FlagTypes, OneRow
  <1>4. target \in Ended \cup {"retry_pending"} /\ target # "cancelled"
    BY DEF Ended
  <1>5. Flags!ConversationOf(TheJob) = ChatFlags
    BY LiveFlags
  <1> HIDE DEF Ended
  <1> QED BY <1>2, <1>3, <1>4, <1>5, TransitionFlags

\* A retry, or an end for want of one, is what the flags make of it.
LEMMA RetryFlags ==
    ASSUME ClockInv, ClockInv', Waits \/ Runs, NEW retryable \in BOOLEAN, RetryOrFail(retryable),
           job.fence \in Fences
    PROVE  /\ Flags!Transition(TheJob, JobTable[TheJob], Flags!ConversationOf(TheJob),
                               Flags!RetryOrFail(TheJob, retryable))
           /\ Thread' = Thread
           /\ Flags!RetryOrFail(TheJob, retryable) \in {"failed", "expired", "retry_pending"}
  <1>1. JobTable[TheJob].expired <=> Late
    BY LiveFlags
  <1>2. JobTable[TheJob].attempts = job.fence
    BY LiveFlags
  <1>3. CASE Late
    <2>1. Transition("expired", 0)
      BY <1>3 DEF RetryOrFail
    <2>2. Flags!RetryOrFail(TheJob, retryable) = "expired"
      BY <1>1, <1>3 DEF Flags!RetryOrFail
    <2> QED BY <2>1, <2>2, SettleFlags
  <1>4. CASE ~Late /\ retryable /\ job.fence < MaxAttempts
    <2>1. PICK d \in Delays(job.fence) : Transition("retry_pending", d)
      BY <1>4 DEF RetryOrFail
    <2>2. d \in Nat /\ d > 0
      <3>1. PICK x \in Jitter : d = RetrySeconds[IF job.fence <= 1 THEN 1 ELSE 2] + x
        BY <2>1 DEF Delays
      <3>2. RetrySeconds[IF job.fence <= 1 THEN 1 ELSE 2] \in Nat \ {0} /\ x \in Nat
        OBVIOUS
      <3> QED BY <3>1, <3>2
    <2>3. Flags!RetryOrFail(TheJob, retryable) = "retry_pending"
      BY <1>1, <1>2, <1>4 DEF Flags!RetryOrFail
    <2> QED BY <1>4, <2>1, <2>2, <2>3, SettleFlags
  <1>5. CASE ~Late /\ ~ (retryable /\ job.fence < MaxAttempts)
    <2>1. Transition("failed", 0)
      BY <1>5 DEF RetryOrFail
    <2>2. Flags!RetryOrFail(TheJob, retryable) = "failed"
      BY <1>1, <1>2, <1>5 DEF Flags!RetryOrFail
    <2> QED BY <2>1, <2>2, SettleFlags
  <1> QED BY <1>3, <1>4, <1>5

\* What no action here touches.
LEMMA Untouched ==
    /\ UNCHANGED <<Runtime, Enabling>>
    /\ UNCHANGED <<[o \in {} |-> {}], [x \in {} |-> {}], {}>>
  BY DEF Runtime, Enabling

\* The lease of an attempt that may commit is live.
LEMMA AuthorizedFlags ==
    ASSUME ClockInv, NEW f \in Fences, Authorized(f)
    PROVE  /\ Flags!Claimed(TheJob, f) /\ Flags!Authorized(TheJob, f)
           /\ job.fence = f /\ Runs
  <1>1. Runs /\ job.fence = f /\ ~Lapsed /\ ~Late /\ ~Overtime
    BY DEF Authorized
  <1>2. outcome[f] = "open" /\ job.lease_until \in Nat
    BY <1>1 DEF ClockInv, RunningIsOpen
  <1>3. LeaseFlag = "live"
    BY <1>1, <1>2 DEF LeaseFlag
  <1>4. Flags!Claimed(TheJob, f)
    BY <1>2, OneRow DEF Flags!Claimed, Fences
  <1>5. Flags!Enabled(TheJob)
    BY <1>1, AlwaysEnabled
  <1>6. /\ JobTable[TheJob].state = "running" /\ JobTable[TheJob].lease = "live"
        /\ ~JobTable[TheJob].expired /\ ~JobTable[TheJob].overtime /\ JobTable[TheJob].fence = f
    BY <1>1, <1>3, LiveFlags DEF Runs
  <1> QED BY <1>1, <1>4, <1>5, <1>6 DEF Flags!Authorized

\* A failed attempt is one of DurableWork.
LEMMA FailFlags ==
    ASSUME ClockInv, ClockInv', NEW f \in Fences, Fail(f) PROVE Flags!Attempting(TheJob, f)
  <1>1. PICK retryable \in BOOLEAN : Authorized(f) /\ RetryOrFail(retryable)
    BY DEF Fail
  <1>2. Flags!Claimed(TheJob, f) /\ Flags!Authorized(TheJob, f) /\ job.fence \in Fences /\ Runs
    BY <1>1, AuthorizedFlags
  <1>3. /\ Flags!Transition(TheJob, JobTable[TheJob], Flags!ConversationOf(TheJob),
                            Flags!RetryOrFail(TheJob, retryable))
        /\ Thread' = Thread
    BY <1>1, <1>2, RetryFlags
  <1>4. Flags!Fail(TheJob, f, retryable)
    BY <1>2, <1>3, Untouched DEF Flags!Fail
  <1> QED BY <1>4 DEF Flags!Attempting

\* The sweep ends or retries what the flags say.
LEMMA SweepFlags ==
    ASSUME ClockInv, ClockInv', Sweep PROVE Flags!Sweep(TheJob)
  <1> DEFINE verdict == Flags!SweepVerdict(TheJob)
  <1>1. Waits \/ Runs
    BY DEF Sweep, SweepEnds
  <1>2. job.fence \in 0 .. MaxAttempts
    BY DEF ClockInv, ClockTypeOK, ClockRow
  <1>3. /\ JobTable[TheJob].state = job.state /\ JobTable[TheJob].conversation = TheChat
        /\ JobTable[TheJob].generation = 1 /\ JobTable[TheJob].epoch = 1
        /\ JobTable[TheJob].attempts = job.fence
        /\ (JobTable[TheJob].expired <=> Late) /\ (JobTable[TheJob].overtime <=> Runs /\ Overtime)
        /\ JobTable[TheJob].lease = LeaseFlag /\ ~JobTable[TheJob].cancel
        /\ job.state \in Flags!Unfinished /\ (Waits <=> job.state \in Flags!Waiting)
        /\ Flags!ConversationOf(TheJob) = ChatFlags /\ ChatFlags.generation = 1
    BY <1>1, LiveFlags
  <1>4. Flags!OwnerEnabled(TheChat)
    BY OneRow DEF Flags!OwnerEnabled
  <1>5. verdict = IF Late THEN "expired"
                  ELSE IF Runs /\ (LeaseFlag # "live" \/ Overtime)
                  THEN Flags!RetryOrFail(TheJob, TRUE)
                  ELSE IF Waits /\ job.fence >= MaxAttempts THEN "failed" ELSE job.state
    BY <1>3, <1>4 DEF Flags!SweepVerdict, Runs
  <1>6. Runs => (LeaseFlag # "live" <=> Lapsed)
    BY DEF LeaseFlag, ClockInv, RunningIsOpen
  <1>7. ASSUME SweepEnds, Transition(IF Late THEN "expired" ELSE "failed", 0)
        PROVE  /\ Flags!Transition(TheJob, JobTable[TheJob], Flags!ConversationOf(TheJob), verdict)
               /\ Thread' = Thread /\ verdict \in {"failed", "expired", "retry_pending"}
    <2>1. verdict = IF Late THEN "expired" ELSE "failed"
      BY <1>5, <1>7 DEF SweepEnds, Waits, Runs
    <2> HIDE DEF verdict
    <2>2. verdict \in {"failed", "expired"} /\ Transition(verdict, 0)
      BY <1>7, <2>1
    <2> QED BY <1>1, <2>2, SettleFlags
  <1>8. ASSUME Runs, ~Late, Lapsed \/ Overtime, RetryOrFail(TRUE)
        PROVE  /\ Flags!Transition(TheJob, JobTable[TheJob], Flags!ConversationOf(TheJob), verdict)
               /\ Thread' = Thread /\ verdict \in {"failed", "expired", "retry_pending"}
    <2>1. verdict = Flags!RetryOrFail(TheJob, TRUE)
      BY <1>5, <1>6, <1>8
    <2>2. job.fence \in Fences
      BY <1>8 DEF ClockInv, RunningIsOpen
    <2> HIDE DEF verdict
    <2> QED BY <1>1, <1>8, <2>1, <2>2, RetryFlags
  <1> HIDE DEF verdict
  <1>9. /\ Flags!Transition(TheJob, JobTable[TheJob], Flags!ConversationOf(TheJob), verdict)
        /\ Thread' = Thread /\ verdict \in {"failed", "expired", "retry_pending"}
    BY <1>7, <1>8 DEF Sweep
  <1>10. verdict # job.state
    <2>1. CASE SweepEnds /\ Transition(IF Late THEN "expired" ELSE "failed", 0)
      <3>1. verdict \in {"expired", "failed"}
        BY <1>5, <2>1 DEF SweepEnds, Waits, Runs
      <3> QED BY <1>1, <3>1 DEF Waits, Runs
    <2>2. CASE Runs
      BY <1>9, <2>2 DEF Runs
    <2> QED BY <2>1, <2>2 DEF Sweep
  <1> QED BY <1>3, <1>9, <1>10, OneRow, Untouched DEF Flags!Sweep, verdict

\* A claim that comes too late is refused as the flags say.
LEMMA RefuseClaimFlags ==
    ASSUME ClockInv, ClockInv', RefuseClaim PROVE Flags!RefuseClaim(TheJob)
  <1> DEFINE verdict == Flags!ClaimVerdict(TheJob)
  <1>1. Waits /\ (Late \/ job.fence >= MaxAttempts)
        /\ Transition(IF Late THEN "expired" ELSE "failed", 0)
    BY DEF RefuseClaim
  <1>2. /\ JobTable[TheJob].state = job.state /\ (Waits <=> job.state \in Flags!Waiting)
        /\ (JobTable[TheJob].expired <=> Late) /\ JobTable[TheJob].attempts = job.fence
    BY <1>1, LiveFlags
  <1>3. verdict = IF Late THEN "expired" ELSE "failed"
    BY <1>1, <1>2, NoOtherTurn DEF Flags!ClaimVerdict
  <1> HIDE DEF verdict
  <1>4. verdict \in {"expired", "failed"} /\ Transition(verdict, 0)
    BY <1>1, <1>3
  <1>5. /\ Flags!Transition(TheJob, JobTable[TheJob], Flags!ConversationOf(TheJob), verdict)
        /\ Thread' = Thread
    BY <1>1, <1>4, SettleFlags
  <1>6. Flags!Enabled(TheJob)
    BY <1>1, AlwaysEnabled
  <1> QED BY <1>1, <1>2, <1>4, <1>5, <1>6, Untouched DEF Flags!RefuseClaim, verdict

\* A cancel is one of DurableWork.
LEMMA CancelFlags == ASSUME ClockInv, ClockInv', Cancel PROVE Flags!Cancel(TheJob)
  <1> DEFINE row == [JobTable[TheJob] EXCEPT !.cancel = TRUE]
  <1>1. (Waits \/ Runs) /\ Transition("cancelled", 0)
    BY DEF Cancel
  <1>2. job'.state = "cancelled"
    BY <1>1 DEF Transition, ClockInv, ClockTypeOK, ClockRow
  <1>3. /\ JobTable[TheJob].state \in Flags!Unfinished /\ Flags!ConversationOf(TheJob) = ChatFlags
        /\ job.state \notin {"none", "succeeded", "cancelled"}
    BY <1>1, LiveFlags
  <1>4. Thread' = Thread /\ Flags!HoldAfter(ChatFlags, "cancelled") = ChatFlags'
    BY <1>2, <1>3, QuietChat
  <1>5. JobTable[TheJob] = JobFlags /\ JobFlags \in Flags!Job
    BY FlagTypes, OneRow
  <1>6. row \in Flags!Job /\ row = [JobFlags EXCEPT !.cancel = TRUE]
    <2>1. \A r \in Flags!Job, b \in BOOLEAN : [r EXCEPT !.cancel = b] \in Flags!Job
      BY DEF Flags!Job
    <2>2. TRUE \in BOOLEAN
      OBVIOUS
    <2> QED BY <1>5, <2>1, <2>2, Zenon
  <1> HIDE DEF row
  <1>7. Flags!Transition(TheJob, row, ChatFlags, "cancelled")
    <2>1. "cancelled" \in Ended \cup {"retry_pending"} /\ 0 \in Nat
      BY DEF Ended
    <2>2. row = IF "cancelled" = "cancelled" THEN [JobFlags EXCEPT !.cancel = TRUE] ELSE JobFlags
      BY <1>6, Zenon
    <2> QED BY <1>1, <1>4, <1>6, <2>1, <2>2, TransitionFlags
  <1> QED BY <1>3, <1>4, <1>7, Untouched, Zenon DEF Flags!Cancel, row

\* A reply is added once, behind the submission.
LEMMA FinishFlags ==
    ASSUME ClockInv, ClockInv', NEW f \in Fences, Finish(f) PROVE Flags!Attempting(TheJob, f)
  <1> DEFINE post == Flags!AppendTo(ChatFlags, TheChat, "assistant", TheJob)
  <1>1. Authorized(f) /\ Transition("succeeded", 0)
    BY DEF Finish
  <1>2. Flags!Claimed(TheJob, f) /\ Flags!Authorized(TheJob, f) /\ Runs
    BY <1>1, AuthorizedFlags
  <1>3. job'.state = "succeeded"
    BY <1>1 DEF Transition, ClockInv, ClockTypeOK, ClockRow
  <1>4. /\ Flags!ConversationOf(TheJob) = ChatFlags /\ JobTable[TheJob].conversation = TheChat
        /\ job.state \notin {"none", "succeeded", "cancelled"}
    BY <1>2, LiveFlags
  <1>5. Thread = {Submission} /\ Thread' = {Submission, Reply}
    BY <1>3, <1>4, ThreadIs
  <1>6. ChatFlags = [generation |-> 1, next_message_seq |-> 2, next_job_order |-> 2,
                     reconciliation_hold |-> FALSE]
    <2>1. Cardinality(Thread) + 1 = 2
      BY <1>5, ThreadCounts
    <2>2. (IF job.state = "none" THEN 1 ELSE 2) = 2
      BY <1>4
    <2> QED BY <2>1, <2>2, Zenon DEF ChatFlags
  <1>7. ChatFlags' = [generation |-> 1, next_message_seq |-> 3, next_job_order |-> 2,
                      reconciliation_hold |-> FALSE]
    <2>1. (Cardinality(Thread) + 1)' = 3
      BY <1>5, ThreadCounts
    <2>2. (IF job.state = "none" THEN 1 ELSE 2)' = 2
      BY <1>3
    <2> QED BY <2>1, <2>2, Zenon DEF ChatFlags
  <1>8. /\ post.rows = Thread \cup {Reply}
        /\ post.conversation = [ChatFlags EXCEPT !.next_message_seq = @ + 1]
    <2>1. ~ \E m \in Thread : /\ m.conversation = TheChat /\ m.generation = ChatFlags.generation
                              /\ m.role = "assistant" /\ m.origin = TheJob
      BY <1>5 DEF Submission
    <2>2. Reply = [conversation |-> TheChat, generation |-> ChatFlags.generation,
                   sequence |-> ChatFlags.next_message_seq, role |-> "assistant",
                   origin |-> TheJob]
      BY <1>6 DEF Reply
    <2> QED BY <2>1, <2>2 DEF Flags!AppendTo
  <1> HIDE DEF post
  <1>9. post.conversation = ChatFlags'
    <2>1. \A b : [[generation |-> 1, next_message_seq |-> 2, next_job_order |-> 2,
                   reconciliation_hold |-> b] EXCEPT !.next_message_seq = @ + 1]
                 = [generation |-> 1, next_message_seq |-> 3, next_job_order |-> 2,
                    reconciliation_hold |-> b]
      OBVIOUS
    <2>2. post.conversation = [[generation |-> 1, next_message_seq |-> 2, next_job_order |-> 2,
                   reconciliation_hold |-> FALSE] EXCEPT !.next_message_seq = @ + 1]
      BY <1>6, <1>8, Zenon
    <2> QED BY <1>7, <2>1, <2>2, Zenon
  <1>10. Flags!HoldAfter(ChatFlags', "succeeded") = ChatFlags'
    <2>1. Flags!HoldAfter(ChatFlags', "succeeded")
            = [ChatFlags' EXCEPT !.reconciliation_hold =
                  ChatFlags'.reconciliation_hold \/ "succeeded" = "needs_reconciliation"]
      BY Zenon DEF Flags!HoldAfter
    <2>2. (ChatFlags'.reconciliation_hold \/ "succeeded" = "needs_reconciliation") = FALSE
      BY <1>7
    <2>3. \A b : [generation |-> 1, next_message_seq |-> 3, next_job_order |-> 2,
                  reconciliation_hold |-> b]
                 = [[generation |-> 1, next_message_seq |-> 3, next_job_order |-> 2,
                     reconciliation_hold |-> b] EXCEPT !.reconciliation_hold = b]
      OBVIOUS
    <2>4. [ChatFlags' EXCEPT !.reconciliation_hold = FALSE] = ChatFlags'
      BY <1>7, <2>3, Zenon
    <2> QED BY <2>1, <2>2, <2>4, Zenon
  <1>11. Flags!Transition(TheJob, JobTable[TheJob], post.conversation, "succeeded")
    <2>1. "succeeded" \in Ended \cup {"retry_pending"} /\ 0 \in Nat
      BY DEF Ended
    <2>2. JobTable[TheJob] = JobFlags /\ JobFlags \in Flags!Job
      BY FlagTypes, OneRow
    <2>3. Flags!Transition(TheJob, JobFlags, ChatFlags', "succeeded")
      BY <1>1, <1>2, <1>10, <2>1, <2>2, TransitionFlags
    <2> QED BY <1>9, <2>2, <2>3
  <1>12. Thread' = post.rows
    BY <1>5, <1>8
  <1>13. ~Flags!HasUnresolved(TheJob)
    BY NoOtherTurn
  <1>14. Flags!Finish(TheJob, f)
    BY <1>2, <1>4, <1>11, <1>12, <1>13, Untouched, Zenon DEF Flags!Finish, post
  <1> QED BY <1>14 DEF Flags!Attempting

\* A claim opens the attempt that the flags allow.
LEMMA ClaimFlags ==
    ASSUME ClockInv, ClockInv', IdleHasNoLease, ClaimJob PROVE Flags!Claim(TheJob)
  <1> DEFINE f == job.fence + 1
  <1>1. /\ Waits /\ ~Late /\ job.fence < MaxAttempts /\ job.due_at <= now
        /\ job' = [job EXCEPT !.state = "running", !.fence = f, !.lease_until = FirstLease]
        /\ started' = [started EXCEPT ![f] = now]
        /\ outcome' = [outcome EXCEPT ![f] = "open"]
        /\ now' = now /\ woken' = FALSE
    BY DEF ClaimJob
  <1>2. job \in ClockRow /\ now \in Nat /\ job.fence \in Nat /\ job.expires_at \in Nat
        /\ f \in Fences /\ started \in [Fences -> Times]
        /\ outcome \in [Fences -> {"none", "open", "retry_pending"} \cup Ended]
    BY <1>1 DEF ClockInv, ClockTypeOK, ClockRow, Fences
  <1>3. FirstLease \in Nat /\ FirstLease > now
    <2>1. job.expires_at > now
      BY <1>1, <1>2 DEF Late
    <2> QED BY <1>2, <2>1 DEF FirstLease, Smaller
  <1> HIDE DEF f
  <1>4. /\ job'.state = "running" /\ job'.fence = f /\ job'.lease_until = FirstLease
        /\ job'.expires_at = job.expires_at
    BY <1>1, <1>2 DEF ClockRow
  <1>5. LeaseFlag' = "live"
    BY <1>1, <1>3, <1>4, <1>2 DEF LeaseFlag, Lapsed
  <1>6. ~Late' /\ ~Overtime'
    <2>1. started'[f] = now
      BY <1>1, <1>2
    <2> QED BY <1>1, <1>2, <1>4, <2>1 DEF Late, Overtime
  <1>7. job.state \in {"queued", "retry_pending"} /\ ~Runs
    BY <1>1 DEF Waits, Runs
  <1>8. JobFlags \in Flags!Job /\ JobFlags' \in Flags!Job
    <2>1. (ClockInv => JobFlags \in Flags!Job)'
      BY FlagTypes, PTL
    <2> QED BY FlagTypes, <2>1
  <1>9. /\ JobFlags.conversation = TheChat /\ JobFlags.key = TheKey /\ JobFlags.generation = 1
        /\ JobFlags.order = 1 /\ JobFlags.epoch = 1 /\ JobFlags.attempts = job.fence
        /\ JobFlags.fence = job.fence
    BY <1>7, FlagValues
  <1>10. JobFlags.due /\ ~JobFlags.expired /\ ~JobFlags.overtime /\ ~JobFlags.cancel
    <2>1. JobFlags.due
      BY <1>1, FlagValues
    <2>2. ~JobFlags.expired /\ ~JobFlags.overtime /\ ~JobFlags.cancel
      BY <1>1, <1>7, FlagValues
    <2> QED BY <2>1, <2>2
  <1>11. /\ JobFlags'.conversation = TheChat /\ JobFlags'.key = TheKey /\ JobFlags'.generation = 1
         /\ JobFlags'.order = 1 /\ JobFlags'.epoch = 1 /\ JobFlags'.attempts = f
         /\ JobFlags'.fence = f /\ JobFlags'.state = "running" /\ JobFlags'.lease = "live"
    BY <1>4, <1>5, FlagValuesAfter
  <1>12. JobFlags'.due /\ ~JobFlags'.expired /\ ~JobFlags'.overtime /\ ~JobFlags'.cancel
    <2>1. JobFlags'.due
      BY <1>4, FlagValuesAfter
    <2>2. ~JobFlags'.expired /\ ~JobFlags'.overtime /\ ~JobFlags'.cancel
      BY <1>4, <1>6, FlagValuesAfter
    <2> QED BY <2>1, <2>2
  <1> DEFINE row == Flags!Started(JobFlags)
  <1>13. /\ row \in Flags!Job
         /\ row.conversation = JobFlags.conversation /\ row.key = JobFlags.key
         /\ row.generation = JobFlags.generation /\ row.order = JobFlags.order
         /\ row.epoch = JobFlags.epoch /\ row.state = "running"
         /\ row.attempts = JobFlags.attempts + 1 /\ row.fence = JobFlags.fence + 1
         /\ row.lease = "live"
         /\ (row.due <=> JobFlags.due) /\ (row.expired <=> JobFlags.expired)
         /\ (row.overtime <=> JobFlags.overtime) /\ (row.cancel <=> JobFlags.cancel)
    <2>1. "running" \in Flags!JobStates
      BY DEF Flags!JobStates, Flags!ACTIVE, Flags!Unfinished
    <2>2. JobFlags.attempts + 1 \in Nat /\ JobFlags.fence + 1 \in Nat
      BY <1>8 DEF Flags!Job
    <2>3. row = [JobFlags EXCEPT !.state = "running", !.fence = JobFlags.fence + 1,
                   !.attempts = JobFlags.attempts + 1, !.lease = "live"]
      BY DEF Flags!Started
    <2> HIDE DEF row
    <2> QED BY <1>8, <2>1, <2>2, <2>3 DEF Flags!Job
  <1> HIDE DEF row
  <1>14. JobFlags' = row
    BY <1>8, <1>9, <1>10, <1>11, <1>12, <1>13, SameRow DEF f
  <1>15. JobTable' = [JobTable EXCEPT ![TheJob] = Flags!Started(JobTable[TheJob])]
    BY <1>14, OneRow DEF row
  <1>16. JobTable[TheJob] = JobFlags /\ JobTable[TheJob].fence + 1 = f /\ Attempts[TheJob] = outcome
    BY <1>9, OneRow DEF f
  <1>17. outcome' = Flags!OpenAttempt(outcome, f)
    BY <1>1, <1>2 DEF Flags!OpenAttempt, Fences
  <1>18. Attempts' = [Attempts EXCEPT ![TheJob] =
                          Flags!OpenAttempt(Attempts[TheJob], JobTable[TheJob].fence + 1)]
    BY <1>16, <1>17, OneRow
  <1>19. Wake' = {}
    BY <1>1 DEF Wake
  <1>20. Thread' = Thread /\ Chats' = Chats
    <2>1. Thread' = Thread /\ ChatFlags' = ChatFlags
      BY <1>4, <1>7, QuietChat
    <2> QED BY <2>1 DEF Chats
  <1>21. Flags!ClaimVerdict(TheJob) = "running"
    <2>1. ~JobTable[TheJob].expired /\ ~ (JobTable[TheJob].attempts >= MaxAttempts)
      BY <1>1, <1>2, <1>9, <1>10, <1>16
    <2> QED BY <2>1, NoOtherTurn DEF Flags!ClaimVerdict
  <1>22. JobTable[TheJob].state \in Flags!Waiting /\ JobTable[TheJob].due
    BY <1>7, <1>10, <1>16, FlagValues DEF Flags!Waiting
  <1>23. Flags!Enabled(TheJob)
    BY <1>1, AlwaysEnabled
  <1> QED BY <1>15, <1>18, <1>19, <1>20, <1>21, <1>22, <1>23, NoOtherTurn, Untouched
          DEF Flags!Claim

\* A heartbeat changes no flag.
LEMMA HeartbeatFlags ==
    ASSUME ClockInv, ClockInv', NEW f \in Fences, Heartbeat(f) PROVE UNCHANGED Flags!vars
  <1>1. /\ Runs /\ job.fence = f /\ ~Lapsed /\ ~Late /\ ~Overtime
        /\ job' = [job EXCEPT !.lease_until = NextLease(f)]
        /\ UNCHANGED <<now, started, finished, outcome, woken>>
    BY DEF Heartbeat, Authorized
  <1>2. job \in ClockRow /\ now \in Nat /\ job.expires_at \in Nat /\ started[f] \in Nat
        /\ job.lease_until \in Nat
    BY <1>1 DEF ClockInv, ClockTypeOK, AttemptsInOrder, RunningIsOpen, ClockRow, Fences
  <1>3. NextLease(f) \in Nat /\ NextLease(f) > now
    <2>1. job.expires_at > now /\ started[f] + AttemptSeconds > now /\ now + LeaseSeconds > now
      BY <1>1, <1>2 DEF Late, Overtime
    <2> QED BY <1>2, <2>1 DEF NextLease, Smaller
  <1>4. /\ job'.state = job.state /\ job'.fence = job.fence /\ job'.due_at = job.due_at
        /\ job'.expires_at = job.expires_at /\ job'.lease_until = NextLease(f)
    BY <1>1, <1>2 DEF ClockRow
  <1>5. LeaseFlag' = "live" /\ LeaseFlag = "live"
    <2>1. LeaseFlag' = "live"
      BY <1>1, <1>2, <1>3, <1>4 DEF LeaseFlag, Lapsed
    <2>2. LeaseFlag = "live"
      BY <1>1, <1>2 DEF LeaseFlag
    <2> QED BY <2>1, <2>2
  <1>6. (Late' <=> Late) /\ (Overtime' <=> Overtime) /\ (Runs' <=> Runs)
        /\ (Unsettled' <=> Unsettled)
    BY <1>1, <1>4 DEF Late, Overtime, Runs, Unsettled, Waits
  <1>7. JobFlags' = JobFlags
    <2>1. JobFlags \in Flags!Job /\ JobFlags' \in Flags!Job
      <3>1. (ClockInv => JobFlags \in Flags!Job)'
        BY FlagTypes, PTL
      <3> QED BY FlagTypes, <3>1
    <2>2. /\ JobFlags'.conversation = JobFlags.conversation /\ JobFlags'.key = JobFlags.key
          /\ JobFlags'.generation = JobFlags.generation /\ JobFlags'.order = JobFlags.order
          /\ JobFlags'.epoch = JobFlags.epoch /\ JobFlags'.state = JobFlags.state
          /\ JobFlags'.attempts = JobFlags.attempts /\ JobFlags'.fence = JobFlags.fence
          /\ JobFlags'.lease = JobFlags.lease
      BY <1>4, <1>5, FlagValues, FlagValuesAfter
    <2>3. /\ (JobFlags'.due <=> JobFlags.due) /\ (JobFlags'.expired <=> JobFlags.expired)
          /\ (JobFlags'.overtime <=> JobFlags.overtime) /\ (JobFlags'.cancel <=> JobFlags.cancel)
      BY <1>1, <1>4, <1>6, FlagValues, FlagValuesAfter
    <2> QED BY <2>1, <2>2, <2>3, SameRow
  <1>8. Thread' = Thread /\ ChatFlags' = ChatFlags
    BY <1>1, <1>4, QuietChat DEF Runs
  <1>9. JobTable' = JobTable /\ Chats' = Chats /\ Attempts' = Attempts /\ Wake' = Wake
    BY <1>1, <1>7, <1>8 DEF JobTable, Chats, Attempts, Wake
  <1> QED BY <1>8, <1>9, Untouched DEF Flags!vars

\* The clock raises the flags whose deadlines it reaches.
LEMMA TickFlags ==
    ASSUME ClockInv, ClockInv', IdleHasNoLease, Tick PROVE Flags!Passing(TheJob)
  <1>1. /\ now' = now + 1 /\ woken' = FALSE
        /\ UNCHANGED <<job, started, finished, outcome>>
    BY DEF Tick
  <1>2. job \in ClockRow /\ now \in Nat /\ job.expires_at \in Nat /\ job.due_at \in Nat
        /\ job.lease_until \in Times
    BY DEF ClockInv, ClockTypeOK, ClockRow
  <1> DEFINE over == JobFlags'.overtime /\ ~JobFlags.overtime
             late == JobFlags'.expired /\ ~JobFlags.expired
             ready == JobFlags'.due /\ ~JobFlags.due
             lapsed == JobFlags'.lease = "lapsed" /\ JobFlags.lease = "live"
  <1>3. (Runs' <=> Runs) /\ (Unsettled' <=> Unsettled)
    BY <1>1 DEF Runs, Unsettled, Waits
  <1>4. (Late => Late') /\ (Runs /\ Overtime => Overtime') /\ (Lapsed => Lapsed' \/ ~Runs)
    <2>1. Late => Late'
      BY <1>1, <1>2 DEF Late
    <2>2. Runs /\ Overtime => Overtime'
      <3> SUFFICES ASSUME Runs, Overtime PROVE Overtime'
        OBVIOUS
      <3>1. started[job.fence] \in Nat
        BY DEF ClockInv, RunningIsOpen, AttemptsInOrder, Fences
      <3> QED BY <1>1, <1>2, <3>1 DEF Overtime
    <2>3. Runs /\ Lapsed => Lapsed'
      BY <1>1, <1>2 DEF Lapsed, ClockInv, RunningIsOpen
    <2> QED BY <2>1, <2>2, <2>3
  <1>5. JobFlags.expired => JobFlags'.expired
    BY <1>3, <1>4, FlagValues, FlagValuesAfter
  <1>6. JobFlags.overtime => JobFlags'.overtime
    BY <1>3, <1>4, FlagValues, FlagValuesAfter
  <1>7. JobFlags.due => JobFlags'.due
    BY <1>1, <1>2, FlagValues, FlagValuesAfter
  <1>8. JobFlags'.cancel <=> JobFlags.cancel
    BY <1>1, FlagValues, FlagValuesAfter
  <1>9. JobFlags'.lease = IF lapsed THEN "lapsed" ELSE JobFlags.lease
    <2>1. LeaseFlag' = IF LeaseFlag' = "lapsed" /\ LeaseFlag = "live" THEN "lapsed" ELSE LeaseFlag
      <3>1. CASE Runs
        <4>1. job.lease_until \in Nat /\ job'.lease_until = job.lease_until
          BY <1>1, <3>1 DEF ClockInv, RunningIsOpen
        <4> QED BY <1>4, <3>1, <4>1 DEF LeaseFlag
      <3>2. CASE ~Runs
        BY <1>1, <3>2 DEF LeaseFlag, IdleHasNoLease
      <3> QED BY <3>1, <3>2
    <2> QED BY <2>1, FlagValues, FlagValuesAfter
  <1>10. /\ JobFlags'.conversation = JobFlags.conversation /\ JobFlags'.key = JobFlags.key
         /\ JobFlags'.generation = JobFlags.generation /\ JobFlags'.order = JobFlags.order
         /\ JobFlags'.epoch = JobFlags.epoch /\ JobFlags'.state = JobFlags.state
         /\ JobFlags'.attempts = JobFlags.attempts /\ JobFlags'.fence = JobFlags.fence
    BY <1>1, FlagValues, FlagValuesAfter
  <1>11. over => JobFlags.state = "running" /\ ~JobFlags.overtime
    BY <1>3, FlagValues, FlagValuesAfter DEF Runs
  <1>12. late => JobFlags.state \in Flags!Unfinished /\ ~JobFlags.expired
    BY <1>3, FlagValues, FlagValuesAfter
       DEF Unsettled, Waits, Runs, Flags!Unfinished, Flags!Waiting
  <1>13. ready => JobFlags.state = "retry_pending" /\ ~JobFlags.due
    BY <1>1, FlagValues, FlagValuesAfter
  <1>14. late /\ JobFlags.lease = "live" => lapsed
    <2> SUFFICES ASSUME late, JobFlags.lease = "live" PROVE JobFlags'.lease = "lapsed"
      OBVIOUS
    <2>1. Late' /\ LeaseFlag = "live"
      BY FlagValues, FlagValuesAfter
    <2>2. Runs
      BY <2>1 DEF LeaseFlag, IdleHasNoLease
    <2>3. job.lease_until \in Nat /\ job.lease_until <= job.expires_at
      BY <2>2 DEF ClockInv, RunningIsOpen, LeaseWithinLimits
    <2>4. Lapsed' /\ job'.lease_until # Never
      BY <1>1, <1>2, <2>1, <2>3 DEF Late, Lapsed
    <2>5. LeaseFlag' = "lapsed"
      BY <2>4 DEF LeaseFlag
    <2> QED BY <2>5, FlagValuesAfter
  <1>15. JobFlags \in Flags!Job /\ JobFlags' \in Flags!Job
    <2>1. (ClockInv => JobFlags \in Flags!Job)'
      BY FlagTypes, PTL
    <2> QED BY FlagTypes, <2>1
  <1>16. PICK o, l, r, p \in BOOLEAN :
            (o <=> over) /\ (l <=> late) /\ (r <=> ready) /\ (p <=> lapsed)
    BY Zenon
  <1> DEFINE row == Flags!Later(JobFlags, o, l, p, r)
  <1>17. /\ row \in Flags!Job
         /\ row.conversation = JobFlags.conversation /\ row.key = JobFlags.key
         /\ row.generation = JobFlags.generation /\ row.order = JobFlags.order
         /\ row.epoch = JobFlags.epoch /\ row.state = JobFlags.state
         /\ row.attempts = JobFlags.attempts /\ row.fence = JobFlags.fence
         /\ row.lease = IF p THEN "lapsed" ELSE JobFlags.lease
         /\ (row.due <=> JobFlags.due \/ r) /\ (row.expired <=> JobFlags.expired \/ l)
         /\ (row.overtime <=> JobFlags.overtime \/ o) /\ (row.cancel <=> JobFlags.cancel)
    <2> DEFINE a == JobFlags.overtime \/ o
               b == JobFlags.expired \/ l
               c == JobFlags.due \/ r
               q == IF p THEN "lapsed" ELSE JobFlags.lease
    <2>1. row = [JobFlags EXCEPT !.overtime = a, !.expired = b, !.due = c, !.lease = q]
      BY Zenon DEF Flags!Later
    <2>2. a \in BOOLEAN /\ b \in BOOLEAN /\ c \in BOOLEAN /\ q \in {"none", "live", "lapsed"}
      BY <1>15 DEF Flags!Job
    <2> HIDE DEF row, a, b, c, q
    <2>4. /\ row \in Flags!Job
          /\ row.conversation = JobFlags.conversation /\ row.key = JobFlags.key
          /\ row.generation = JobFlags.generation /\ row.order = JobFlags.order
          /\ row.epoch = JobFlags.epoch /\ row.state = JobFlags.state
          /\ row.attempts = JobFlags.attempts /\ row.fence = JobFlags.fence
          /\ row.lease = q /\ (row.due <=> c) /\ (row.expired <=> b)
          /\ (row.overtime <=> a) /\ (row.cancel <=> JobFlags.cancel)
      BY <1>15, <2>1, <2>2 DEF Flags!Job
    <2> QED BY <2>4 DEF a, b, c, q
  <1> HIDE DEF row
  <1>18. (row.due <=> JobFlags'.due) /\ (row.expired <=> JobFlags'.expired)
         /\ (row.overtime <=> JobFlags'.overtime) /\ (row.cancel <=> JobFlags'.cancel)
    BY <1>5, <1>6, <1>7, <1>8, <1>16, <1>17
  <1>19. row.lease = JobFlags'.lease
    BY <1>9, <1>16, <1>17
  <1>20. JobFlags' = row
    BY <1>10, <1>15, <1>17, <1>18, <1>19, SameRow
  <1> HIDE DEF over, late, ready, lapsed
  <1>21. /\ JobTable[TheJob] = JobFlags
         /\ JobTable' = [JobTable EXCEPT ![TheJob] = Flags!Later(JobTable[TheJob], o, l, p, r)]
    BY <1>20, OneRow DEF row
  <1>22. Wake' = {} /\ Thread' = Thread /\ Chats' = Chats /\ Attempts' = Attempts
    BY <1>1 DEF Wake, Thread, Chats, ChatFlags, Attempts
  <1>23. Flags!TimePasses(TheJob, o, l, p, r)
    BY <1>11, <1>12, <1>13, <1>14, <1>16, <1>21, <1>22, Untouched, Zenon
       DEF Flags!TimePasses, over, ready, lapsed, late
  <1> QED BY <1>16, <1>23 DEF Flags!Passing

\* The first and only job enters an empty conversation.
LEMMA AcceptFlags ==
    ASSUME ClockInv, ClockInv', IdleHasNoLease, AcceptJob PROVE Flags!Accept(TheChat, TheKey)
  <1>1. /\ job.state = "none" /\ now' = now /\ woken' = TRUE
        /\ job' = [job EXCEPT !.state = "queued", !.due_at = now, !.expires_at = now + TtlSeconds]
        /\ UNCHANGED <<started, finished, outcome>>
    BY DEF AcceptJob
  <1>2. job \in ClockRow /\ now \in Nat /\ job.fence = 0 /\ job.lease_until = Never
    BY <1>1 DEF ClockInv, ClockTypeOK, IdleHasNoLease, Runs
  <1>3. /\ job'.state = "queued" /\ job'.fence = 0 /\ job'.lease_until = Never
        /\ job'.expires_at = now + TtlSeconds
    BY <1>1, <1>2 DEF ClockRow
  <1>4. LeaseFlag' = "none" /\ ~Late' /\ ~Runs'
    BY <1>1, <1>2, <1>3 DEF LeaseFlag, Late, Runs
  <1>5. /\ JobFlags'.conversation = TheChat /\ JobFlags'.key = TheKey /\ JobFlags'.generation = 1
        /\ JobFlags'.order = 1 /\ JobFlags'.epoch = 1 /\ JobFlags'.state = "queued"
        /\ JobFlags'.attempts = 0 /\ JobFlags'.fence = 0 /\ JobFlags'.lease = "none"
    BY <1>3, <1>4, FlagValuesAfter
  <1>6. JobFlags'.due /\ ~JobFlags'.expired /\ ~JobFlags'.overtime /\ ~JobFlags'.cancel
    <2>1. JobFlags'.due
      BY <1>3, FlagValuesAfter
    <2>2. ~JobFlags'.expired /\ ~JobFlags'.overtime /\ ~JobFlags'.cancel
      BY <1>3, <1>4, FlagValuesAfter
    <2> QED BY <2>1, <2>2
  <1>7. JobFlags' \in Flags!Job
    <2>1. (ClockInv => JobFlags \in Flags!Job)'
      BY FlagTypes, PTL
    <2> QED BY <2>1
  <1> DEFINE row == [Flags!NoJob EXCEPT !.conversation = TheChat, !.generation = 1, !.order = 1,
                                        !.key = TheKey, !.state = "queued", !.epoch = 1]
  <1>8. /\ row \in Flags!Job
        /\ row.conversation = TheChat /\ row.key = TheKey /\ row.generation = 1
        /\ row.order = 1 /\ row.epoch = 1 /\ row.state = "queued"
        /\ row.attempts = 0 /\ row.fence = 0 /\ row.lease = "none"
        /\ row.due /\ ~row.expired /\ ~row.overtime /\ ~row.cancel
    <2>1. "queued" \in Flags!JobStates
      BY DEF Flags!JobStates, Flags!ACTIVE, Flags!Unfinished, Flags!Waiting
    <2>2. Flags!NoJob \in Flags!Job
      <3>1. "none" \in Flags!JobStates
        BY DEF Flags!JobStates
      <3>2. \A t, e \in BOOLEAN :
              [conversation |-> NoValue, generation |-> 0, order |-> 0,
               key |-> NoValue, state |-> "none", attempts |-> 0, fence |-> 0,
               epoch |-> 0, lease |-> "none", due |-> t, expired |-> e,
               overtime |-> e, cancel |-> e] \in Flags!Job
        BY <3>1 DEF Flags!Job
      <3>3. TRUE \in BOOLEAN /\ FALSE \in BOOLEAN
        OBVIOUS
      <3> QED BY <3>2, <3>3, Zenon DEF Flags!NoJob
    <2>3. /\ Flags!NoJob.attempts = 0 /\ Flags!NoJob.fence = 0 /\ Flags!NoJob.lease = "none"
          /\ Flags!NoJob.due /\ ~Flags!NoJob.expired /\ ~Flags!NoJob.overtime
          /\ ~Flags!NoJob.cancel
      BY DEF Flags!NoJob
    <2> QED BY <2>1, <2>2, <2>3 DEF Flags!Job
  <1> HIDE DEF row
  <1>9. JobFlags' = row
    BY <1>5, <1>6, <1>7, <1>8, SameRow
  <1>10. Thread = {} /\ Thread' = {Submission}
    BY <1>1, <1>3, ThreadIs
  <1>11. ChatFlags = [generation |-> 1, next_message_seq |-> 1, next_job_order |-> 1,
                      reconciliation_hold |-> FALSE]
    <2>1. Cardinality(Thread) + 1 = 1
      BY <1>10, ThreadCounts
    <2>2. (IF job.state = "none" THEN 1 ELSE 2) = 1
      BY <1>1
    <2> QED BY <2>1, <2>2, Zenon DEF ChatFlags
  <1>12. ChatFlags' = [generation |-> 1, next_message_seq |-> 2, next_job_order |-> 2,
                       reconciliation_hold |-> FALSE]
    <2>1. (Cardinality(Thread) + 1)' = 2
      BY <1>10, ThreadCounts
    <2>2. (IF job.state = "none" THEN 1 ELSE 2)' = 2
      BY <1>3
    <2> QED BY <2>1, <2>2, Zenon DEF ChatFlags
  <1> DEFINE post == Flags!AppendTo(ChatFlags, TheChat, "user", TheJob)
  <1>13. ChatFlags.generation = 1 /\ ChatFlags.next_message_seq = 1 /\ ChatFlags.next_job_order = 1
    BY <1>11
  <1>14. /\ post.rows = {Submission}
         /\ post.conversation = [ChatFlags EXCEPT !.next_message_seq = @ + 1]
    <2>1. Submission = [conversation |-> TheChat, generation |-> ChatFlags.generation,
                        sequence |-> ChatFlags.next_message_seq, role |-> "user",
                        origin |-> TheJob]
      BY <1>13 DEF Submission
    <2> QED BY <1>10, <2>1 DEF Flags!AppendTo
  <1> HIDE DEF post
  <1>15. [post.conversation EXCEPT !.next_job_order = @ + 1] = ChatFlags'
    <2>1. \A b : [[generation |-> 1, next_message_seq |-> 1, next_job_order |-> 1,
                   reconciliation_hold |-> b] EXCEPT !.next_message_seq = @ + 1]
                 = [generation |-> 1, next_message_seq |-> 2, next_job_order |-> 1,
                    reconciliation_hold |-> b]
      OBVIOUS
    <2>2. \A b : [[generation |-> 1, next_message_seq |-> 2, next_job_order |-> 1,
                   reconciliation_hold |-> b] EXCEPT !.next_job_order = @ + 1]
                 = [generation |-> 1, next_message_seq |-> 2, next_job_order |-> 2,
                    reconciliation_hold |-> b]
      OBVIOUS
    <2>3. post.conversation = [[generation |-> 1, next_message_seq |-> 1, next_job_order |-> 1,
                    reconciliation_hold |-> FALSE] EXCEPT !.next_message_seq = @ + 1]
      BY <1>11, <1>14, Zenon
    <2> QED BY <1>12, <2>1, <2>2, <2>3, Zenon
  <1>16. JobTable[TheJob] = JobFlags /\ Chats[TheChat] = ChatFlags /\ JobFlags.state = "none"
    BY <1>1, OneRow, FlagValues
  <1>17. \A c \in {TheChat} : \A g : Flags!JobsOf(JobTable, c) = {} /\ Flags!TurnsOf(JobTable, c, g) = {}
    BY <1>16 DEF Flags!JobsOf, Flags!TurnsOf
  <1>18. Flags!HasRoom(TheChat)
    <2>1. Flags!OwnerJobs(TheOwner) = {}
      BY <1>17 DEF Flags!OwnerJobs
    <2>2. Flags!Backlog({}) = 0
      <3>1. {j \in {} : JobTable[j].state \in Flags!ACTIVE} = {}
        OBVIOUS
      <3>2. Flags!Cardinality({}) = Cardinality({})
        BY Zenon DEF Flags!Cardinality, Cardinality
      <3> QED BY <3>1, <3>2, ThreadCounts DEF Flags!Backlog
    <2>3. [c \in {TheChat} |-> TheOwner][TheChat] = TheOwner /\ Flags!JobsOf(JobTable, TheChat) = {}
      BY <1>17
    <2> QED BY <2>1, <2>2, <2>3 DEF Flags!HasRoom
  <1>19. JobTable' = [JobTable EXCEPT ![TheJob] =
                  [Flags!NoJob EXCEPT !.conversation = TheChat,
                                !.generation = Chats[TheChat].generation,
                                !.order = Chats[TheChat].next_job_order,
                                !.key = TheKey, !.state = "queued",
                                !.epoch = Runtime.epoch]]
    <2>1. Chats[TheChat].generation = 1 /\ Chats[TheChat].next_job_order = 1 /\ Runtime.epoch = 1
      BY <1>13, <1>16, OneRow
    <2> QED BY <1>9, <2>1, OneRow, Zenon DEF row
  <1>20. Chats' = [Chats EXCEPT ![TheChat] = [post.conversation EXCEPT !.next_job_order = @ + 1]]
    BY <1>15, OneRow
  <1>21. Wake' = {TheJob} /\ Attempts' = Attempts
    BY <1>1 DEF Wake, Attempts
  <1>22. Flags!OwnerEnabled(TheChat) /\ Runtime.enabled
    BY OneRow DEF Flags!OwnerEnabled
  <1>23. Thread' = post.rows
    BY <1>10, <1>14
  <1> QED BY <1>16, <1>17, <1>18, <1>19, <1>20, <1>21, <1>22, <1>23, Untouched, Zenon
          DEF Flags!Accept, post

\* The clock begins with the empty tables.
LEMMA InitFlags == ClockInit => Flags!Init /\ IdleHasNoLease
  <1> SUFFICES ASSUME ClockInit PROVE Flags!Init /\ IdleHasNoLease
    OBVIOUS
  <1>1. /\ now = 0 /\ job.state = "none" /\ job.fence = 0 /\ job.lease_until = Never
        /\ outcome = [f \in Fences |-> "none"] /\ woken = FALSE
    BY DEF ClockInit
  <1>2. JobFlags \in Flags!Job /\ Flags!NoJob \in Flags!Job
    <2>1. JobFlags \in Flags!Job
      BY InitClockInv, FlagTypes
    <2>2. "none" \in Flags!JobStates
      BY DEF Flags!JobStates
    <2>3. \A t, e \in BOOLEAN :
            [conversation |-> NoValue, generation |-> 0, order |-> 0,
             key |-> NoValue, state |-> "none", attempts |-> 0, fence |-> 0,
             epoch |-> 0, lease |-> "none", due |-> t, expired |-> e,
             overtime |-> e, cancel |-> e] \in Flags!Job
      BY <2>2 DEF Flags!Job
    <2>4. TRUE \in BOOLEAN /\ FALSE \in BOOLEAN
      OBVIOUS
    <2> QED BY <2>1, <2>3, <2>4, Zenon DEF Flags!NoJob
  <1>3. LeaseFlag = "none" /\ ~Runs /\ ~Unsettled
    BY <1>1 DEF LeaseFlag, Runs, Unsettled, Waits
  <1>4. /\ JobFlags.conversation = NoValue /\ JobFlags.key = NoValue /\ JobFlags.generation = 0
        /\ JobFlags.order = 0 /\ JobFlags.epoch = 0 /\ JobFlags.state = "none"
        /\ JobFlags.attempts = 0 /\ JobFlags.fence = 0 /\ JobFlags.lease = "none"
    BY <1>1, <1>3, FlagValues
  <1>5. JobFlags.due /\ ~JobFlags.expired /\ ~JobFlags.overtime /\ ~JobFlags.cancel
    <2>1. JobFlags.due
      BY <1>1, FlagValues
    <2>2. ~JobFlags.expired /\ ~JobFlags.overtime /\ ~JobFlags.cancel
      BY <1>1, <1>3, FlagValues
    <2> QED BY <2>1, <2>2
  <1>6. /\ Flags!NoJob.conversation = NoValue /\ Flags!NoJob.key = NoValue
        /\ Flags!NoJob.generation = 0 /\ Flags!NoJob.order = 0 /\ Flags!NoJob.epoch = 0
        /\ Flags!NoJob.state = "none" /\ Flags!NoJob.attempts = 0 /\ Flags!NoJob.fence = 0
        /\ Flags!NoJob.lease = "none" /\ Flags!NoJob.due /\ ~Flags!NoJob.expired
        /\ ~Flags!NoJob.overtime /\ ~Flags!NoJob.cancel
    BY DEF Flags!NoJob
  <1>7. JobFlags = Flags!NoJob
    BY <1>2, <1>4, <1>5, <1>6, SameRow
  <1>8. Thread = {} /\ Wake = {}
    BY <1>1, ThreadIs DEF Wake
  <1>9. ChatFlags = [generation |-> 1, next_message_seq |-> 1, next_job_order |-> 1,
                     reconciliation_hold |-> FALSE]
    <2>1. Cardinality(Thread) + 1 = 1
      BY <1>8, ThreadCounts
    <2>2. (IF job.state = "none" THEN 1 ELSE 2) = 1
      BY <1>1
    <2> QED BY <2>1, <2>2, Zenon DEF ChatFlags
  <1>10. Runtime \in [epoch : {1}, enabled : BOOLEAN]
    <2>1. \A b \in BOOLEAN : [epoch |-> 1, enabled |-> b] \in [epoch : {1}, enabled : BOOLEAN]
      OBVIOUS
    <2>2. TRUE \in BOOLEAN
      OBVIOUS
    <2> QED BY <2>1, <2>2, Zenon DEF Runtime
  <1>11. Enabling = [u \in {TheOwner} |-> TRUE]
    BY DEF Enabling
  <1>12. Chats = [c \in {TheChat} |->
           [generation |-> 1, next_message_seq |-> 1, next_job_order |-> 1,
            reconciliation_hold |-> FALSE]]
    BY <1>9, Zenon DEF Chats
  <1>13. JobTable = [j \in {TheJob} |-> Flags!NoJob]
    BY <1>7, Zenon DEF JobTable
  <1>14. Attempts = [j \in {TheJob} |-> [f \in 1 .. MaxAttempts |-> "none"]]
    BY <1>1, Zenon DEF Attempts, Fences
  <1>15. /\ [o \in {} |-> {}] = [o \in {} |-> Flags!NoEffect]
         /\ [x \in {} |-> {}] = [x \in {} |-> "absent"]
    OBVIOUS
  <1>16. Flags!Init
    BY <1>8, <1>10, <1>11, <1>12, <1>13, <1>14, <1>15, Zenon DEF Flags!Init
  <1> QED BY <1>1, <1>16 DEF IdleHasNoLease

\* Every step of the clock is one of DurableWork, or none.
LEMMA NextFlags ==
    ASSUME ClockInv, ClockInv', IdleHasNoLease, [ClockNext]_clockVars
    PROVE  [Flags!Next]_(Flags!vars)
  <1>1. CASE AcceptJob
    BY <1>1, AcceptFlags DEF Flags!Next
  <1>2. CASE ClaimJob
    BY <1>2, ClaimFlags DEF Flags!Next
  <1>3. CASE RefuseClaim
    BY <1>3, RefuseClaimFlags DEF Flags!Next
  <1>4. CASE Cancel
    BY <1>4, CancelFlags DEF Flags!Next
  <1>5. CASE Sweep
    BY <1>5, SweepFlags DEF Flags!Next
  <1>6. CASE Tick
    BY <1>6, TickFlags DEF Flags!Next
  <1>7. CASE \E f \in Fences : Heartbeat(f)
    BY <1>7, HeartbeatFlags
  <1>8. CASE \E f \in Fences : Finish(f) \/ Fail(f)
    <2>1. PICK f \in Fences : Flags!Attempting(TheJob, f)
      BY <1>8, FinishFlags, FailFlags
    <2>2. f \in 1 .. MaxAttempts
      BY DEF Fences
    <2> QED BY <2>1, <2>2 DEF Flags!Next
  <1>9. CASE UNCHANGED clockVars
    <2>1. UNCHANGED <<now, job, started, finished, outcome, woken>>
      BY <1>9 DEF clockVars
    <2>2. JobFlags' = JobFlags
      BY <2>1 DEF JobFlags, LeaseFlag, Lapsed, Unsettled, Waits, Runs, Late, Overtime
    <2>3. Thread' = Thread /\ ChatFlags' = ChatFlags
      BY <2>1 DEF Thread, ChatFlags
    <2>4. JobTable' = JobTable /\ Chats' = Chats /\ Attempts' = Attempts /\ Wake' = Wake
      BY <2>1, <2>2, <2>3 DEF JobTable, Chats, Attempts, Wake
    <2> QED BY <2>3, <2>4, Untouched DEF Flags!vars
  <1> QED BY <1>1, <1>2, <1>3, <1>4, <1>5, <1>6, <1>7, <1>8, <1>9 DEF ClockNext

\* Deadlines as numbers implement deadlines as flags: what the proofs of DurableWork
\* say of a job holds of it under every setting of the clock.
THEOREM FlagsAreFollowed == ClockSpec => FlagsFollowClock
  <1>1. ClockInit => Flags!Init /\ IdleHasNoLease
    BY InitFlags
  <1>2. ClockInv /\ IdleHasNoLease /\ [ClockNext]_clockVars => IdleHasNoLease'
    BY IdleKept
  <1>3. ClockInv /\ ClockInv' /\ IdleHasNoLease /\ [ClockNext]_clockVars
            => [Flags!Next]_(Flags!vars)
    BY NextFlags
  <1> QED BY <1>1, <1>2, <1>3, ClockInvariance, PTL DEF ClockSpec, FlagsFollowClock, Flags!Spec
=============================================================================
