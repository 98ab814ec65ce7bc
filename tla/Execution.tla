------------------------------- MODULE Execution -------------------------------
(***************************************************************************)
(* The execution of one job: the loop of src/cloud/worker.py beside the    *)
(* thread of its executor, the capabilities of src/cloud/authorization.py  *)
(* the executor was given, and the connection they are for, with its       *)
(* credential (src/cloud/connections.py).  The loop may leave a thread     *)
(* that goes on; what the thread still holds must then be worth nothing.   *)
(***************************************************************************)
EXTENDS Naturals

CONSTANTS Caps,        \* capabilities that are ever issued
          Refreshes,   \* refreshes of the credential that are ever begun
          MaxAttempt, MaxLink, MaxEra

ASSUME ExecutionBounds == {MaxAttempt, MaxLink, MaxEra} \subseteq Nat \ {0}

VARIABLES era, serving,   \* runtime.epoch and runtime.enabled
          link,        \* the connection
          task,        \* the job
          worker,      \* the execution of each attempt
          cap,         \* capabilities
          refresh      \* refreshes at the provider, as they were captured

executionVars == <<era, serving, link, task, worker, cap, refresh>>

Attempts == 1 .. MaxAttempt
Links == 0 .. MaxLink
Eras == 0 .. MaxEra
\* credential: the generation whose account it was obtained for, 0 for none.
Link == [active: BOOLEAN, generation: 1 .. MaxLink, granted: BOOLEAN, credential: Links]
\* inTime stands for the lease, the working time of the attempt and the expiry.
Task == [state: {"waiting", "running", "ended"}, fence: 0 .. MaxAttempt, inTime: BOOLEAN]
Worker == [loop: {"none", "watching", "left"}, thread: {"none", "running", "returned"},
           told: BOOLEAN]
NoWorker == [loop |-> "none", thread |-> "none", told |-> FALSE]
\* over is a ghost: the attempt, the connection or the epoch it was issued in is gone.
Cap == [fence: 0 .. MaxAttempt, era: Eras, link: Links, revoked: BOOLEAN, expired: BOOLEAN,
        over: BOOLEAN]
NoCap == [fence |-> 0, era |-> 0, link |-> 0, revoked |-> TRUE, expired |-> FALSE, over |-> FALSE]
Refresh == [link: Links, era: Eras]
NoRefresh == [link |-> 0, era |-> 0]

ExecutionInit ==
    /\ era = 1 /\ serving = TRUE
    /\ link = [active |-> TRUE, generation |-> 1, granted |-> FALSE, credential |-> 1]
    /\ task = [state |-> "waiting", fence |-> 0, inTime |-> FALSE]
    /\ worker = [a \in Attempts |-> NoWorker]
    /\ cap = [c \in Caps |-> NoCap]
    /\ refresh = [r \in Refreshes |-> NoRefresh]

\* authorized, of the claim of an attempt.
Authorized(fence) == serving /\ task.state = "running" /\ task.inTime /\ task.fence = fence

\* All that was issued so far is over.
IssuedIsOver == cap' = [c \in Caps |-> [cap[c] EXCEPT !.over = cap[c].fence # 0]]

\* transition out of running; what its attempt holds is over.
Leave(state) ==
    /\ task' = [task EXCEPT !.state = state, !.inTime = FALSE]
    /\ IssuedIsOver

\* retry_or_fail.
RetryOrFail(retryable) ==
    Leave(IF retryable /\ task.fence < MaxAttempt THEN "waiting" ELSE "ended")

---------------------------------------------------------------------------
(* The worker *)

\* Leases.claim, and execute up to its loop.
ClaimTask ==
    /\ serving /\ task.state = "waiting" /\ task.fence < MaxAttempt
    /\ task' = [state |-> "running", fence |-> task.fence + 1, inTime |-> TRUE]
    /\ worker' = [worker EXCEPT ![task.fence + 1] =
                      [loop |-> "watching", thread |-> "running", told |-> FALSE]]
    /\ UNCHANGED <<era, serving, link, cap, refresh>>

\* SIGTERM.
TellToStop(a) ==
    /\ worker[a].loop = "watching" /\ ~worker[a].told
    /\ worker' = [worker EXCEPT ![a].told = TRUE]
    /\ UNCHANGED <<era, serving, link, task, cap, refresh>>

\* The executor's thread returns, or raises.
ThreadEnds(a) ==
    /\ worker[a].thread = "running"
    /\ worker' = [worker EXCEPT ![a].thread = "returned"]
    /\ UNCHANGED <<era, serving, link, task, cap, refresh>>

\* A worker that was told to stop gives its attempt back, if it is still its own.
Shutdown(a) ==
    /\ worker[a].loop = "watching" /\ worker[a].told
    /\ worker' = [worker EXCEPT ![a].loop = "left"]
    /\ IF Authorized(a) THEN RetryOrFail(TRUE) ELSE UNCHANGED <<task, cap>>
    /\ UNCHANGED <<era, serving, link, refresh>>

\* A heartbeat that fails, or raises, makes the loop return; its thread goes on.
HeartbeatLost(a) ==
    /\ worker[a].loop = "watching" /\ worker[a].thread = "running"
    /\ worker' = [worker EXCEPT ![a].loop = "left"]
    /\ UNCHANGED <<era, serving, link, task, cap, refresh>>

\* finish, or fail: executor_failed is retried, invalid_executor_output is not.
Settle(a) ==
    /\ worker[a].loop = "watching" /\ worker[a].thread = "returned" /\ ~worker[a].told
    /\ worker' = [worker EXCEPT ![a].loop = "left"]
    /\ IF Authorized(a) THEN \E retryable \in BOOLEAN : RetryOrFail(retryable)
       ELSE UNCHANGED <<task, cap>>
    /\ UNCHANGED <<era, serving, link, refresh>>

\* The lease or the time of the attempt runs out; Recovery.sweep finds it then.
Lapse ==
    /\ task.state = "running" /\ task.inTime
    /\ task' = [task EXCEPT !.inTime = FALSE]
    /\ IssuedIsOver
    /\ UNCHANGED <<era, serving, link, worker, refresh>>

Sweep ==
    /\ serving /\ task.state = "running" /\ ~task.inTime
    /\ RetryOrFail(TRUE)
    /\ UNCHANGED <<era, serving, link, worker, refresh>>

CancelTask ==
    /\ task.state # "ended" /\ Leave("ended")
    /\ UNCHANGED <<era, serving, link, worker, refresh>>

---------------------------------------------------------------------------
(* Capabilities *)

\* Authorization.issue, called by the executor of an attempt.
Issue(c, a) ==
    /\ worker[a].thread = "running" /\ cap[c] = NoCap
    /\ Authorized(a) /\ link.active /\ link.granted
    /\ cap' = [cap EXCEPT ![c] = [fence |-> a, era |-> era, link |-> link.generation,
                                  revoked |-> FALSE, expired |-> FALSE, over |-> FALSE]]
    /\ UNCHANGED <<era, serving, link, task, worker, refresh>>

\* Sixty seconds, or the lease it was issued under.
Expire(c) ==
    /\ cap[c].fence # 0 /\ ~cap[c].expired
    /\ cap' = [cap EXCEPT ![c].expired = TRUE]
    /\ UNCHANGED <<era, serving, link, task, worker, refresh>>

\* fault: the capability speaks for its job, not for the attempt
ValidForJob(c) ==
    /\ cap[c].fence # 0 /\ Authorized(task.fence) /\ cap[c].era = era
    /\ ~cap[c].revoked /\ ~cap[c].expired
    /\ link.active /\ link.granted /\ link.generation = cap[c].link
\* Authorization.validate.
Valid(c) ==
    /\ cap[c].fence # 0 /\ Authorized(cap[c].fence) /\ cap[c].era = era
    /\ ~cap[c].revoked /\ ~cap[c].expired
    /\ link.active /\ link.granted /\ link.generation = cap[c].link

---------------------------------------------------------------------------
(* The connection *)

\* revoke_work: a job that ever had a capability for the connection is cancelled.
RevokeWork ==
    /\ cap' = [c \in Caps |-> [cap[c] EXCEPT !.revoked = TRUE, !.over = cap[c].fence # 0]]
    /\ task' = IF \E c \in Caps : cap[c].fence # 0
               THEN [task EXCEPT !.state = "ended", !.inTime = FALSE] ELSE task

Connect ==
    /\ serving /\ link.generation < MaxLink
    /\ link' = [active |-> TRUE, generation |-> link.generation + 1, granted |-> FALSE,
                credential |-> link.generation + 1]
    /\ RevokeWork
    /\ UNCHANGED <<era, serving, worker, refresh>>

Disconnect ==
    /\ link.generation < MaxLink
    /\ link' = [active |-> FALSE, generation |-> link.generation + 1, granted |-> FALSE,
                credential |-> 0]
    /\ RevokeWork
    /\ UNCHANGED <<era, serving, worker, refresh>>

\* The provider grants the scopes.
Grant ==
    /\ link.active /\ ~link.granted
    /\ link' = [link EXCEPT !.granted = TRUE]
    /\ UNCHANGED <<era, serving, task, worker, cap, refresh>>

\* The credential is refreshed at the provider; generation and epoch are captured.
BeginRefresh(r) ==
    /\ link.active /\ refresh[r] = NoRefresh
    /\ refresh' = [refresh EXCEPT ![r] = [link |-> link.generation, era |-> era]]
    /\ UNCHANGED <<era, serving, link, task, worker, cap>>

\* refresh_reference.
Stores(r) == serving /\ refresh[r].era = era /\ link.active /\ link.generation = refresh[r].link
EndRefresh(r) ==
    /\ refresh[r].link # 0 /\ refresh[r].era # 0
    /\ link' = IF Stores(r) THEN [link EXCEPT !.credential = refresh[r].link] ELSE link
    /\ refresh' = [refresh EXCEPT ![r].era = 0]
    /\ UNCHANGED <<era, serving, task, worker, cap>>

---------------------------------------------------------------------------
(* Recovery *)

RestoreBegins ==
    /\ era < MaxEra
    /\ era' = era + 1 /\ serving' = FALSE
    /\ task' = [task EXCEPT !.state = "ended", !.inTime = FALSE]
    /\ cap' = [c \in Caps |-> [cap[c] EXCEPT !.revoked = TRUE, !.over = cap[c].fence # 0]]
    /\ UNCHANGED <<link, worker, refresh>>

RestoreEnds ==
    /\ ~serving /\ serving' = TRUE
    /\ UNCHANGED <<era, link, task, worker, cap, refresh>>

ExecutionNext ==
    \/ ClaimTask \/ Lapse \/ Sweep \/ CancelTask
    \/ \E a \in Attempts : TellToStop(a) \/ ThreadEnds(a) \/ Shutdown(a) \/ HeartbeatLost(a)
                           \/ Settle(a)
    \/ \E c \in Caps : Expire(c) \/ \E a \in Attempts : Issue(c, a)
    \/ Connect \/ Disconnect \/ Grant
    \/ \E r \in Refreshes : BeginRefresh(r) \/ EndRefresh(r)
    \/ RestoreBegins \/ RestoreEnds

ExecutionSpec == ExecutionInit /\ [][ExecutionNext]_executionVars

---------------------------------------------------------------------------
(* Properties *)

ExecutionTypeOK ==
    /\ era \in Eras /\ serving \in BOOLEAN
    /\ link \in Link /\ task \in Task
    /\ worker \in [Attempts -> Worker]
    /\ cap \in [Caps -> Cap] /\ refresh \in [Refreshes -> Refresh]

\* What a thread holds is worth something only as long as its attempt, its connection
\* and its epoch last: a capability of a lapsed, retried or cancelled attempt, or of
\* a connection that was disconnected or made anew since, is refused although its
\* thread goes on.
NothingLeftIsValid == \A c \in Caps : Valid(c) => ~cap[c].over

\* The credential of a connection is of the account connected last, whenever a
\* refresh comes back; a disconnected one has none.
CredentialIsCurrent == link.credential = IF link.active THEN link.generation ELSE 0

AccessIsCurrent == NothingLeftIsValid /\ CredentialIsCurrent
=============================================================================
