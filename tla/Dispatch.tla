------------------------------ MODULE Dispatch ------------------------------
(***************************************************************************)
(* How the jobs of one conversation get their wake-ups (cloud/dispatch.py, *)
(* service_bus.py, and the redispatch of recovery.py): outbox rows that    *)
(* dispatchers lease, send and record, a broker that delivers at least     *)
(* once or not at all, receivers that settle a message only after the      *)
(* database was asked, and the scheduler that puts in a new row when the   *)
(* last one is old.                                                        *)
(*                                                                         *)
(* Jobs are numbered by job_order.  What an attempt does and why it ends   *)
(* is DurableWork's business, which also shows that a conversation is held *)
(* exactly while one of its jobs is in review; the numbers of the clock    *)
(* are flags here as they are there.                                       *)
(***************************************************************************)
EXTENDS Naturals, FiniteSets

CONSTANTS
    JobCount,     \* jobs 1 .. JobCount, in the order of job_order
    Rows,         \* ids of outbox rows
    Dispatchers,  \* processes that run Dispatcher.once
    Receivers,    \* processes that run receive_once with Receiver.handle
    Null,
    MaxFaults,    \* bound of the model on crashes, losses and late processes
    MaxEpoch      \* bound of the model on restores

Jobs == 1 .. JobCount

ASSUME DispatchAssumption ==
    /\ JobCount \in Nat /\ MaxFaults \in Nat /\ MaxEpoch \in Nat \ {0}
    /\ Null \notin Rows

VARIABLES
    runtime,     \* the runtime row: epoch and enabled
    jobs,        \* the jobs table: state, epoch, due
    outbox,      \* the outbox table
    dispatcher,  \* where each dispatcher is in Dispatcher.once
    broker,      \* the messages of the queue; a delivered one stays until settled
    receiver,    \* where each receiver is in receive_once
    faults       \* how many of MaxFaults have happened

dispatchVars == <<runtime, jobs, outbox, dispatcher, broker, receiver, faults>>

-----------------------------------------------------------------------------
(* Rows and processes *)

\* "waiting" is queued or retry_pending, "review" is needs_reconciliation,
\* "ended" any final state.
JobRow == [state : {"none", "waiting", "running", "review", "ended"},
           epoch : 0 .. MaxEpoch, due : BOOLEAN]

\* recent: greatest(created_at, published_at) is within redispatch_seconds.
\* job is 0 for an id that no row has.
OutboxRow == [job : {0} \cup Jobs, epoch : 0 .. MaxEpoch, due : BOOLEAN,
              published : BOOLEAN, recent : BOOLEAN, quarantined : BOOLEAN,
              lease : {"none", "live", "lapsed"}, fence : Nat]

Envelope == [row : Rows, job : Jobs, epoch : 1 .. MaxEpoch]

NoRow == [job |-> 0, epoch |-> 0, due |-> FALSE, published |-> FALSE, recent |-> FALSE,
          quarantined |-> FALSE, lease |-> "none", fence |-> 0]

Sender == [at : {"idle", "sending", "sent", "refused"}, mail : Envelope \cup {Null},
           fence : Nat]
Reader == [at : {"idle", "handling", "checked", "handled"}, mail : Envelope \cup {Null}]

\* What an idle dispatcher and an idle receiver remember.
IdleSender == [at |-> "idle", mail |-> Null, fence |-> 0]
IdleReader == [at |-> "idle", mail |-> Null]

DispatchTypeOK ==
    /\ runtime \in [epoch : 1 .. MaxEpoch, enabled : BOOLEAN]
    /\ jobs \in [Jobs -> JobRow]
    /\ outbox \in [Rows -> OutboxRow]
    /\ dispatcher \in [Dispatchers -> Sender]
    /\ broker \in SUBSET Envelope
    /\ receiver \in [Receivers -> Reader]
    /\ faults \in 0 .. MaxFaults

-----------------------------------------------------------------------------
(* Reading the tables *)

Active(row) == row.state \in {"waiting", "running", "review"}
Held(js) == \E j \in Jobs : js[j].state = "review"

\* leases.enabled
Enabled(j) == runtime.enabled /\ jobs[j].epoch = runtime.epoch /\ ~Held(jobs)

EarlierActive(j) == \E k \in Jobs : k < j /\ Active(jobs[k])

\* A job in its final state, or in review; transition makes it due at once.
Closed(j, target) == [jobs EXCEPT ![j].state = target, ![j].due = TRUE]

\* Leases.claim would start the job.
Runnable(j) ==
    Enabled(j) /\ jobs[j].state = "waiting" /\ jobs[j].due /\ ~EarlierActive(j)

Sends(d, r) == dispatcher[d].at # "idle" /\ dispatcher[d].mail.row = r
Reads(w, r) == receiver[w].at # "idle" /\ receiver[w].mail.row = r

\* Nobody remembers a message made from the row.
Forgotten(r) ==
    /\ \A m \in broker : m.row # r
    /\ \A d \in Dispatchers : ~Sends(d, r)
    /\ \A w \in Receivers : ~Reads(w, r)

\* Rows are never deleted.  The model gives a row that no statement can tell
\* from a missing one to the next notify, so that few rows are enough; ids are
\* interchangeable, so any choice among such rows will do.
Spare(r) ==
    \/ outbox[r].job = 0
    \/ /\ Forgotten(r)
       /\ \/ \E j \in Jobs : outbox[r].job = j /\ jobs[j].state = "ended"
          \/ outbox[r].published /\ ~outbox[r].recent /\ ~outbox[r].quarantined

NewRow(j, due) ==
    [job |-> j, epoch |-> runtime.epoch, due |-> due, published |-> FALSE, recent |-> TRUE,
     quarantined |-> FALSE, lease |-> "none", fence |-> 0]

SpareRow == CHOOSE r \in Rows : Spare(r)
HasSpare == \E r \in Rows : Spare(r)

\* work.notify
Notify(j) == HasSpare /\ outbox' = [outbox EXCEPT ![SpareRow] = NewRow(j, TRUE)]

\* The job that wake_next notifies: the first active one, if it is waiting.
NextWaiting(js) ==
    {j \in Jobs : /\ js[j].state = "waiting" /\ js[j].epoch = runtime.epoch
                  /\ runtime.enabled /\ ~Held(js)
                  /\ \A k \in Jobs : Active(js[k]) => j <= k}

\* leases.wake_next
WakeNext(js) ==
    IF NextWaiting(js) = {} THEN UNCHANGED outbox
    ELSE \E j \in NextWaiting(js) : Notify(j)

Fault == faults < MaxFaults /\ faults' = faults + 1

-----------------------------------------------------------------------------
(* The jobs *)

Accept(j) ==
    /\ runtime.enabled
    /\ jobs[j].state = "none" /\ (j > 1 => jobs[j - 1].state # "none")
    /\ jobs' = [jobs EXCEPT ![j] = [state |-> "waiting", epoch |-> runtime.epoch, due |-> TRUE]]
    /\ Notify(j)
    /\ UNCHANGED <<runtime, dispatcher, broker, receiver, faults>>

\* A transition to retry_pending: the new row and every other row of the job
\* that is not out for sending wait for the delay.
Retry(j) ==
    /\ jobs[j].state = "running"
    /\ jobs' = [jobs EXCEPT ![j].state = "waiting", ![j].due = FALSE]
    /\ HasSpare
    /\ outbox' = [r \in Rows |->
          IF r = SpareRow THEN NewRow(j, FALSE)
          ELSE IF outbox[r].job = j /\ ~outbox[r].published /\ outbox[r].lease = "none"
          THEN [outbox[r] EXCEPT !.due = FALSE] ELSE outbox[r]]
    /\ UNCHANGED <<runtime, dispatcher, broker, receiver, faults>>

\* A job is finished, cancelled, expires or fails, or is put in review.
End(j, target) ==
    /\ jobs[j].state \in {"waiting", "running"} /\ target \in {"ended", "review"}
    /\ LET js == Closed(j, target)
       IN  jobs' = js /\ WakeNext(js)
    /\ UNCHANGED <<runtime, dispatcher, broker, receiver, faults>>

\* Control.reconcile
Reconcile(j) ==
    /\ jobs[j].state = "review"
    /\ LET js == Closed(j, "ended")
       IN  jobs' = js /\ WakeNext(js)
    /\ UNCHANGED <<runtime, dispatcher, broker, receiver, faults>>

-----------------------------------------------------------------------------
(* Dispatcher.once *)

LeaseUnfenced(r) == [outbox[r] EXCEPT !.lease = "live"]  \* fault: the fence stays

Leased(r) == [outbox[r] EXCEPT !.lease = "live", !.fence = @ + 1]

\* One candidate, rechecked under the locks of its job.
Lease(d, r) ==
    /\ dispatcher[d].at = "idle"
    /\ \E j \in Jobs : outbox[r].job = j /\ Enabled(j) /\ jobs[j].state = "waiting"
    /\ outbox[r].epoch = runtime.epoch
    /\ ~outbox[r].published /\ ~outbox[r].quarantined /\ outbox[r].due
    /\ outbox[r].lease # "live"
    /\ outbox' = [outbox EXCEPT ![r] = Leased(r)]
    /\ dispatcher' = [dispatcher EXCEPT ![d] =
          [at |-> "sending", fence |-> outbox'[r].fence,
           mail |-> [row |-> r, job |-> outbox[r].job, epoch |-> outbox[r].epoch]]]
    /\ UNCHANGED <<runtime, jobs, broker, receiver, faults>>

Send(d) ==
    /\ dispatcher[d].at = "sending"
    /\ broker' = broker \cup {dispatcher[d].mail}
    /\ dispatcher' = [dispatcher EXCEPT ![d].at = "sent"]
    /\ UNCHANGED <<runtime, jobs, outbox, receiver, faults>>

\* The transport raises, whether or not the broker took the message.
SendFails(d, taken) ==
    /\ dispatcher[d].at = "sending"
    /\ Fault
    /\ broker' = IF taken THEN broker \cup {dispatcher[d].mail} ELSE broker
    /\ dispatcher' = [dispatcher EXCEPT ![d].at = "refused"]
    /\ UNCHANGED <<runtime, jobs, outbox, receiver>>

\* May the dispatcher still write the row it leased?
Owns(d) ==
    LET r == dispatcher[d].mail.row
    IN  outbox[r].fence = dispatcher[d].fence /\ outbox[r].lease = "live"

RecordSent(d) ==
    /\ dispatcher[d].at = "sent"
    /\ LET m == dispatcher[d].mail
       IN  IF /\ runtime.enabled /\ runtime.epoch = m.epoch
              /\ Owns(d) /\ ~outbox[m.row].quarantined
           THEN outbox' = [outbox EXCEPT ![m.row].published = TRUE, ![m.row].recent = TRUE,
                                         ![m.row].lease = "none"]
           ELSE UNCHANGED outbox
    /\ dispatcher' = [dispatcher EXCEPT ![d] = IdleSender]
    /\ UNCHANGED <<runtime, jobs, broker, receiver, faults>>

\* The same row is tried again five seconds later.
RecordRefused(d) ==
    /\ dispatcher[d].at = "refused"
    /\ LET r == dispatcher[d].mail.row
       IN  IF Owns(d)
           THEN outbox' = [outbox EXCEPT ![r].lease = "none", ![r].due = FALSE]
           ELSE UNCHANGED outbox
    /\ dispatcher' = [dispatcher EXCEPT ![d] = IdleSender]
    /\ UNCHANGED <<runtime, jobs, broker, receiver, faults>>

DispatcherDies(d) ==
    /\ dispatcher[d].at # "idle"
    /\ Fault
    /\ dispatcher' = [dispatcher EXCEPT ![d] = IdleSender]
    /\ UNCHANGED <<runtime, jobs, outbox, broker, receiver>>

-----------------------------------------------------------------------------
(* receive_once with Receiver.handle *)

\* A message stays in the queue while it is handled: when its lock is lost, it
\* is delivered again.
Receive(w, m) ==
    /\ receiver[w].at = "idle" /\ m \in broker
    /\ receiver' = [receiver EXCEPT ![w] = [at |-> "handling", mail |-> m]]
    /\ UNCHANGED <<runtime, jobs, outbox, dispatcher, broker, faults>>

Known(m) ==
    /\ m.epoch = runtime.epoch /\ m.epoch = jobs[m.job].epoch
    /\ outbox[m.row].job = m.job /\ outbox[m.row].epoch = m.epoch
    /\ ~outbox[m.row].quarantined

\* The first transaction: epochs, the row, its quarantine.
Check(w) ==
    /\ receiver[w].at = "handling"
    /\ receiver' = [receiver EXCEPT ![w].at =
          IF Known(receiver[w].mail) THEN "checked" ELSE "handled"]
    /\ UNCHANGED <<runtime, jobs, outbox, dispatcher, broker, faults>>

\* The first transaction of an envelope whose version is not supported: the row
\* is quarantined, a waiting job fails, and the message is dead-lettered.
Poison(w) ==
    /\ receiver[w].at = "handling"
    /\ Fault
    /\ LET m == receiver[w].mail
           fails == jobs[m.job].state = "waiting"
           js == IF fails THEN Closed(m.job, "ended") ELSE jobs
           box == [outbox EXCEPT ![m.row].quarantined = TRUE, ![m.row].lease = "none"]
           woken == IF fails THEN NextWaiting(js) ELSE {}
       IN  /\ Known(m)
           /\ jobs' = js
           /\ IF woken = {} THEN outbox' = box
              ELSE HasSpare /\ \E k \in woken : outbox' = [box EXCEPT ![SpareRow] = NewRow(k, TRUE)]
    /\ receiver' = [receiver EXCEPT ![w].at = "handled"]
    /\ UNCHANGED <<runtime, dispatcher, broker>>

\* The second transaction: Leases.claim with the epoch of the envelope.
Claim(w) ==
    /\ receiver[w].at = "checked"
    /\ LET m == receiver[w].mail
       IN  jobs' = IF Runnable(m.job) /\ m.epoch = runtime.epoch
                   THEN [jobs EXCEPT ![m.job].state = "running"] ELSE jobs
    /\ receiver' = [receiver EXCEPT ![w].at = "handled"]
    /\ UNCHANGED <<runtime, outbox, dispatcher, broker, faults>>

\* complete_message or dead_letter_message
Settle(w) ==
    /\ receiver[w].at = "handled"
    /\ broker' = broker \ {receiver[w].mail}
    /\ receiver' = [receiver EXCEPT ![w] = IdleReader]
    /\ UNCHANGED <<runtime, jobs, outbox, dispatcher, faults>>

\* The process dies, the database is not there, or the settlement is lost.
ReceiverDies(w) ==
    /\ receiver[w].at # "idle"
    /\ Fault
    /\ receiver' = [receiver EXCEPT ![w] = IdleReader]
    /\ UNCHANGED <<runtime, jobs, outbox, dispatcher, broker>>

\* The broker gives a message up: too many deliveries, or too old.
Lose(m) ==
    /\ m \in broker
    /\ Fault
    /\ broker' = broker \ {m}
    /\ UNCHANGED <<runtime, jobs, outbox, dispatcher, receiver>>

-----------------------------------------------------------------------------
(* The scheduler, the operator and the clock *)

PublishedBefore(j) ==  \* fault: a row published long ago still counts
    \E r \in Rows : outbox[r].job = j
        /\ (outbox[r].lease = "live" \/ outbox[r].recent \/ outbox[r].published)

\* Is there a wake-up out for the job that is still young?
WokenLately(j) ==
    \E r \in Rows : outbox[r].job = j /\ (outbox[r].lease = "live" \/ outbox[r].recent)

\* Recovery.redispatch
Redispatch(j) ==
    /\ Runnable(j)
    /\ IF \E r \in Rows : outbox[r].job = j /\ outbox[r].quarantined
       THEN LET js == Closed(j, "ended")
            IN  jobs' = js /\ WakeNext(js)
       ELSE ~WokenLately(j) /\ Notify(j) /\ UNCHANGED jobs
    /\ UNCHANGED <<runtime, dispatcher, broker, receiver, faults>>

Recalled(row) == [row EXCEPT !.quarantined = TRUE, !.lease = "none", !.fence = @ + 1]

Caught(row) ==
    IF row.state \in {"waiting", "running"} THEN [row EXCEPT !.state = "review"] ELSE row

\* Recovery.begin_restore
BeginRestore ==
    /\ runtime.epoch < MaxEpoch
    /\ runtime' = [epoch |-> runtime.epoch + 1, enabled |-> FALSE]
    /\ outbox' = [r \in Rows |->
          IF outbox[r].job = 0 THEN outbox[r] ELSE Recalled(outbox[r])]
    /\ jobs' = [j \in Jobs |-> Caught(jobs[j])]
    /\ UNCHANGED <<dispatcher, broker, receiver, faults>>

\* Recovery.resume_after_review
Resume ==
    /\ ~runtime.enabled
    /\ runtime' = [runtime EXCEPT !.enabled = TRUE]
    /\ UNCHANGED <<jobs, outbox, dispatcher, broker, receiver, faults>>

\* Nothing reads the times of the rows of an ended job.
Dated(r) == \E j \in Jobs : outbox[r].job = j /\ jobs[j].state # "ended"

JobDue(j) ==
    /\ jobs[j].state = "waiting" /\ ~jobs[j].due
    /\ jobs' = [jobs EXCEPT ![j].due = TRUE]
    /\ UNCHANGED <<runtime, outbox, dispatcher, broker, receiver, faults>>

\* transition sets due_at of the rows after due_at of the job.
RowDue(r) ==
    /\ Dated(r) /\ ~outbox[r].due
    /\ outbox' = [outbox EXCEPT ![r].due = TRUE]
    /\ UNCHANGED <<runtime, jobs, dispatcher, broker, receiver, faults>>

Age(r) ==
    /\ Dated(r) /\ outbox[r].recent
    /\ outbox' = [outbox EXCEPT ![r].recent = FALSE]
    /\ UNCHANGED <<runtime, jobs, dispatcher, broker, receiver, faults>>

\* A lease lapses on a dispatcher that died, or, a fault, on one that is late.
Lapse(r) ==
    /\ outbox[r].lease = "live"
    /\ IF \E d \in Dispatchers : Sends(d, r) /\ Owns(d) THEN Fault ELSE UNCHANGED faults
    /\ outbox' = [outbox EXCEPT ![r].lease = "lapsed"]
    /\ UNCHANGED <<runtime, jobs, dispatcher, broker, receiver>>

-----------------------------------------------------------------------------

DispatchInit ==
    /\ runtime = [epoch |-> 1, enabled |-> TRUE]
    /\ jobs = [j \in Jobs |-> [state |-> "none", epoch |-> 0, due |-> TRUE]]
    /\ outbox = [r \in Rows |-> NoRow]
    /\ dispatcher = [d \in Dispatchers |-> IdleSender]
    /\ broker = {}
    /\ receiver = [w \in Receivers |-> IdleReader]
    /\ faults = 0

Dispatching(d) == (\E r \in Rows : Lease(d, r)) \/ Send(d) \/ RecordSent(d) \/ RecordRefused(d)
Receiving(w) == (\E m \in broker : Receive(w, m)) \/ Check(w) \/ Claim(w) \/ Settle(w)
Redispatching == \E j \in Jobs : Redispatch(j)

DispatchNext ==
    \/ \E j \in Jobs : Accept(j) \/ Retry(j) \/ Reconcile(j) \/ JobDue(j)
    \/ \E j \in Jobs, target \in {"ended", "review"} : End(j, target)
    \/ \E d \in Dispatchers : Dispatching(d) \/ DispatcherDies(d)
    \/ \E d \in Dispatchers, taken \in BOOLEAN : SendFails(d, taken)
    \/ \E w \in Receivers : Receiving(w) \/ Poison(w) \/ ReceiverDies(w)
    \/ \E m \in broker : Lose(m)
    \/ Redispatching
    \/ BeginRestore \/ Resume
    \/ \E r \in Rows : RowDue(r) \/ Age(r) \/ Lapse(r)

DispatchSpec == DispatchInit /\ [][DispatchNext]_dispatchVars

\* Dispatchers, receivers and the scheduler run in loops and time passes; the
\* faults are finitely many.
FairDispatchSpec ==
    /\ DispatchSpec
    /\ \A d \in Dispatchers : WF_dispatchVars(Dispatching(d))
    /\ \A w \in Receivers : WF_dispatchVars(Receiving(w))
    /\ WF_dispatchVars(Redispatching)
    /\ \A r \in Rows : WF_dispatchVars(RowDue(r) \/ Age(r) \/ Lapse(r))

-----------------------------------------------------------------------------
(* Properties *)

\* Two dispatchers never both may record the outcome of one outbox row, however
\* late the first of them is and whatever a restore or a poisoned envelope did
\* to the row in between.
OneDispatcherOwns ==
    \A r \in Rows, d, e \in Dispatchers :
        Sends(d, r) /\ Owns(d) /\ Sends(e, r) /\ Owns(e) => d = e

\* No job that could run is left lying: although sends fail, dispatchers and
\* receivers die, settlements and messages are lost and envelopes are poisoned,
\* a runnable job is started, or it ends, or its conversation is held.
RunnableIsTaken == \A j \in Jobs : Runnable(j) ~> ~Runnable(j)
=============================================================================
