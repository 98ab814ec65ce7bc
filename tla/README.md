# A TLA+ development of action_inbox_ai

The repository holds two programs. The **cloud service** (`cloud/`) keeps chats,
todos and mail of several owners in PostgreSQL and runs agent turns as durable
jobs on worker processes. The **local application** (`app.py`, `agent/`,
`pollers/`, `db.py`) does the same on one host, in one Flask process and one
poller process on SQLite. Both have pages in `static/js`. This directory models their
state machines in TLA+, checks small instances with TLC and proves the central
facts for every instance with TLAPS.

Contents: [inventory](#1-inventory), [modules](#2-modules),
[runs](#3-runs-and-bounds), [proofs](#4-proofs),
[abstractions](#5-what-is-abstracted), [observations](#6-what-modelling-it-brought-up),
[not modelled](#7-not-modelled), [plan](#8-plan).

## 1. Inventory

| Component | State it keeps | Operations | Hard behaviour | What makes it correct |
| --- | --- | --- | --- | --- |
| Durable work core: `work.py`, `leases.py`, `control.py` | `conversations`, `jobs`, `attempts`, `messages`; `runtime` and `owners` are read | accept, notice, claim, heartbeat, finish, fail, context, cancel, reset, reconcile | workers that are late or dead, retries, resets and holds in the middle of a turn | one authorized attempt per conversation; replies in turn order; settled jobs stay settled; nothing old runs on |
| External effects: `effects.py` | `effects`, `effect_receipts` | prepare, record | the worker dies between the announcement of an effect and its outcome; late evidence | never replay a turn that announced an effect; never forget one without an outcome |
| Recovery, scheduler: `recovery.py`, `scheduler.py` | `recovery_checks`, `recovery_audit`; all job tables | sweep, redispatch, begin_restore, review_check, resume_after_review | candidates read without locks; a restore in the middle of everything | every job ends; work of an old epoch is reviewed, not run |
| Dispatch: `dispatch.py`, `service_bus.py` | `outbox`, the broker's queue | Dispatcher.once (lease, send, record), Receiver.handle, receive_once (settle) | at-least-once and at-most-once failures, late dispatchers, two transactions in the receiver | a runnable job is always taken; rows are fenced |
| Worker loop, connections, capabilities: `worker.py`, `connections.py`, `authorization.py` | one execution with its thread, `connections`, `capabilities` | execute, connect, disconnect, refresh_reference, issue, validate | a thread that outlives its attempt; a refresh that comes back after a disconnect | what is left over from an attempt, a connection or an epoch is worth nothing |
| Gmail ingestion: `gmail.py`, `todos.py` | `mailbox_checkpoints`, `ingested_events`, todos | claim_poll, ingest_page, restart_backfill, record_generation, resync | repeated and late pages, expired history, capacity | no mail is lost or made a todo twice; the cursor follows the jobs |
| Identity: `identity/` | `auth_identities`, `auth_sessions`, `auth_flows`, invites | begin, consume, fail, complete, invite, revoke, resolve, disable, purge | races for seats, double callbacks, recovery hold | seats and sessions bounded, flows used once, a disabled owner out |
| Cloud web layer: `http.py`, `web.py`, `pages.py`, `app.py`, `database.py`, ... | none of its own | parse, call, render | none | its answers are the steps of the pages |
| Local runs and chat: `agent/runs.py`, `app.py`, `db.py` | the run registry, cancel tokens, stored threads and sessions | start, cancel, discard, persist, append_chat_bubble, set_chat, reset | threads, callbacks, read-modify-write of a thread, restarts | a run can be found and stopped; no answered turn is lost; the executor remembers nothing invisible |
| Agent execution: `agent/hermes_runner.py`, `executor.py`, `chrome_profile.py`, `agent_browser.py`, `hermes_activity.py`, `clarify.py` | an external process, two Chromes, a profile copy, the steps of a turn | run, close, snapshot, launch, restore, watch, ask | turns at once, a Chrome that quits late, a thread not waited for | the person's Chrome comes back; steps are told once |
| Local polling: `main.py`, `pollers/` | cursors, seen pages, the digest's days and counts | poll, backfill, generate, send | a crash or reconnect between cursor and todo; things that appear behind a cursor; lost records | nothing missed; one digest a day; finished things stay away |
| Local todos and database: `db.py` | todos, sources, users | save, similar, decide, set status, init_db | two processes upgrade at once, are killed between statements | no row lost or kept without its owner |
| Messaging: `whatsapp.py`, `push_notify.py` | ids seen, links and codes, subscriptions, lists on the phone | webhook, link, enrol, notify | duplicate deliveries, answers to another list | each message handled once; a number does what stood there |
| Google accounts: `pollers/gmail/auth.py`, `agent/google_mcp/` | consents and credentials | callback, disconnect, refresh, call a tool | a refresh over a reconnect | Settings says what the server does |
| Browser client: `static/js` | the page, its timers and requests on their way | poll, post, reset, edit, sign out | lost and late answers, another tab or account | what is shown is so, or will be asked for again; one account at a time |
| Templates, scripts | none | | | out of scope |

How they interact. In the cloud service a web request calls `Work.accept`, which
writes the job, the message and an `outbox` row in one transaction. A dispatcher
sends the row to the broker, a receiver asks `Leases.claim` for the job, a worker
runs it with heartbeats, effects and capabilities, and `Leases.finish` commits the
reply and wakes the next turn. The scheduler sweeps what got stuck, polls mailboxes
and redispatches. An operator may restore the database, which rotates the epoch and
puts all unfinished work in review. All of these meet only in the database: a
transaction first locks runtime, owner, connection, conversation and job in that
order (`locked_job`), so one transaction is one atomic action of the model, and
everything between two transactions interleaves.

In the local application the web process serves each request on a thread of the development
server (on its one worker under gunicorn), runs agent
turns in threads of its own, and shares the SQLite file with the poller process.
There are no long transactions: most handlers read a row, do something slow and
write the row back. So one commit, or one call into another process, is one action.

## 2. Modules

| Module | Models | Actions correspond to |
| --- | --- | --- |
| `DurableWork` | core, effects, recovery, control of conversation jobs | one action per committing call: `Accept`, `Notice`, `Cancel`, `Reset`, `Reconcile`, `Claim`/`RefuseClaim` (the two ways `Leases.claim` writes), `Finish`, `Fail`, `Prepare`, `Record`, `Sweep`, `Redispatch`, `Poison`, `BeginRestore`, `ReviewCheck`, `ResumeAfterReview`, `DisableOwner`; `TimePasses` raises deadlines |
| `TurnLog` | nothing of the code: what the core promises about a conversation | a queue of open turns, a set of held ones, a log of replies |
| `DurableTurns` | the refinement mapping from the tables to `TurnLog` | `TurnsAreSerial == Log!Spec` |
| `LeaseClock` | the deadlines of one job with numbers | `AcceptJob`, `ClaimJob`, `RefuseClaim`, `Heartbeat`, `Finish`, `Fail`, `Cancel`, `Sweep`, `Tick` |
| `LeaseFlags` | the refinement mapping from those numbers to the flags of `DurableWork` | `FlagsFollowClock == Flags!Spec` |
| `Dispatch` | outbox, dispatchers, broker, receivers, redispatch | `Lease`, `Send`, `SendFails`, `RecordSent`, `RecordRefused`, `Receive`, `Check`, `Poison`, `Claim`, `Settle`, `Redispatch`, crashes and losses |
| `GmailIngest` | one mailbox of the cloud: connection, checkpoint, pollers, pages, generation jobs, todos | `Connect`, `Disconnect`, `ClaimPoll`, `Fetch`, `DropPage`/`RestartOnPage`/`IngestPage`, `Resync`, `StartJob`, `RecordGeneration`, `FailJob`, `CancelJob`, `SweepJob`, ... |
| `Identity` | sign-in: seats, login flows, sessions, attempt buckets | `Invite`, `RevokeInvite`, `Begin`, `Consume`, `Complete`, `Fail`, `Logout`, `Operator`, `Purge`, expiries, `BeginRestore`, `Resume` |
| `Execution` | the worker loop beside its executor's thread, capabilities, the connection and its refresh | `ClaimTask`, `HeartbeatLost`, `Settle`, `Shutdown`, `ThreadEnds`, `Issue`, `Connect`, `Disconnect`, `BeginRefresh`, `EndRefresh`, ... |
| `CloudPage` | a tab of the cloud page beside other tabs of the browser | `Revalidate` and its answers, operations with their tickets, `Signalled`, `Visibility`, `LogOut` |
| `WorkPage` | the durable view of a page, with its posts, loads and resets | each request in three steps: sent, handled, back |
| `ThreadPage`, `TodoPage` | the local page with a thread, or with a todo, and the routes behind it | one action per handler of the page and of the server |
| `AgentRuns` | the run registry, cancel tokens and the processes behind them | operations only |
| `LocalChat` | the threads of conversation over `AgentRuns`: requests, runs, the phone, notices, restarts | `TurnStep` of a run; `RequestStep` of a request thread (`Remember`, `Read`, `Recall`, `Check`, `Start`, `ResetStops`, `ResetPops`, `ResetClears`); deliveries, appends |
| `LocalMail`, `LocalNotes`, `LocalSystem`, `LocalDigest`, `LocalPollers` | the poller process: Gmail, the note takers (Pocket and Fathom), the snapshots of the machine, the morning digest, and the process with its sources | one action per commit or call of a poll; the web process connects and disconnects |
| `DigestBuckets` | which todos a digest tells, in hours of UTC and of the user | `HourPasses`, `SendDigest`, `AddWork`, `CloseWork`, `SetDeadline` |
| `LocalBrowser` | the browser-history poller and the person who browses on | `Visit`, `ReadHistory`, `SaveHistoryTodo`, ... |
| `LocalTodos` | the table of todos with its guard against similar ones | `CheckSimilar`, `SaveTodo`, `CreateTodo`, `UpdateDecision`, `SetStatus`, `Retitle`, ... |
| `LocalNotices`, `LocalReplies` | the notice of a new todo with its buttons; the numbers a phone answers with | `NotifyNewTodo` step by step, `ClickButton`, `PhoneAnswers`, ... |
| `LocalLinks` | the WhatsApp link and the push subscription | codes, the webhook, the Settings card, enrolment |
| `LocalGoogle` | consents, refreshes and the account a tool acts on | `GmailCallback`, `DisconnectGmail`, `Renewed`, `Refused`, `CallTool`, ... |
| `LocalSchema` | `init_db` statement by statement, with SQLite's transactions, in two processes | `OpenDatabase` to `Finish`, `Connects`, `Polls`, and a crash at any of them |
| `LocalChrome`, `LocalActivity` | the two browsers of a Hermes turn; the watcher of its steps | `EnsureRunning`, `Snapshot`, `CloseForRun`, `HandBack`, ...; `Drain`, `Tell`, `StopWatching`, ... |
| `LocalParts`, `WebParts` | compositions of the parts of the local app, and of what stands in front of the work of both | one part moves, the others stay |
| `..._proofs` (8 modules) | the theorems | |
| `MC...` | instances for TLC | |

### DurableWork

The variables are the tables: `runtime`, `owners`, `conversations`, `jobs`,
`attempts` (the outcome by job and fence), `effects`, `messages`, `checks`
(`recovery_checks` of the current epoch), `quarantined` (jobs with a quarantined
outbox row), `reviewed` (jobs with a `reconciliations` row), and `wake`, the jobs
for which the last transaction inserted an outbox row. A job id no row has yet
is in state `none`.

A worker is not a variable: it is any claim it may remember, a pair of a job and
a fence that was ever given out (`Claimed`). Each action of a worker takes any
such pair, so a worker that is late, was superseded, or died and never acts again
is included, and so are two workers that both believe they own a job.

`leases.transition` is the operator `Transition`, the same one for all callers:
it turns the end of a job with effects into a review (`Settled`), holds the
conversation (`HoldAfter`), closes the attempt (`CloseAttempt`) and wakes the
next turn (`WakeNext`).

### LeaseClock and the flags

`DurableWork` keeps, for each deadline, only whether it has passed, and lets
`TimePasses` raise any combination of those flags at any moment. `LeaseClock` has the
real comparisons on a clock, and `LeaseFlags` shows that each of its steps is a
step of `DurableWork` for a conversation with one job: a tick is `TimePasses`
or nothing, a heartbeat is nothing, and every handler takes the branch the flags
say. So no behaviour is lost by forgetting the numbers.

### Dispatch

`Dispatch` splits what is one step in the code's comments into the transactions
and the I/O it really has: a dispatcher leases a row, sends outside any
transaction, and records the outcome; a receiver checks the envelope in one
transaction and claims in another, and settles after that. Of the jobs it keeps
only what `enabled`, `claim` and `redispatch` read. The hold of the conversation
is read off the jobs in review, which `HoldIsExact` proves to be the same thing.

### GmailIngest

A poll is three steps, as in `Scheduler.once`: a transaction that leases the
checkpoint, the provider's answer outside of any transaction, and the transaction
of `ingest_page`. A poller therefore holds a claim and a page that may be
old by the time they are used: its lease lapsed, its chain was restarted, its
account was reconnected, the database was restored. Mail is numbered by the
provider's history id, which is also what a cursor is. The provider answers with
any part of the mail it has to list that fits in a page; a backfill names
its baseline before it lists, and its pages end with the history id of that later moment,
which may be beyond what they contain. Wrong answers are malformed, name another
page, point at themselves, or contradict or lack the baseline.

A checkpoint's chain is a counter instead of a random id. `first_since` is kept
for the properties only: it says which mail was too old for the first backfill.
Generation jobs have no conversation and no effects; what `leases.py` does to such a job is
`Closed`, and `Enabled` and `Authorized` compare the connection's generation.

### Identity, Execution

An action of `Identity` is a transaction; the callback of a login is several, so
operators, expiries, a restore and other callbacks come between `Consume` and
`Complete`. An invitation holds a seat until it is redeemed, and the seat then
passes to the person, which is why `Complete` adds none. Cookies and tokens are
names.

`Execution` lets a worker leave its executor's thread behind: the loop ends
because the heartbeat was refused or the process was told to stop, and the thread
still holds capabilities and may use them. `over` is a ghost: it remembers, of each
capability, that its attempt, connection or epoch is gone, and `NothingLeftIsValid`
compares it with what `validate` says.

### The pages

A request of a page is three steps: it leaves, the server handles it, its answer
comes back, and each may be lost. The page may be on another thread or account by
then. Ghosts mark what a page cannot know (`unsure` of `WorkPage`: a reset of which no
answer came; `reloadDue` and `byHand` of `TodoPage`).

### AgentRuns and LocalChat

A run is a thread of the web process with a copy of the thread of conversation it
extends. Its steps are those of `work()`, `persist` and the callbacks of `app.py`;
`AgentRuns` has the registry, the cancel token and the process group a stop kills.
`LocalChat` interleaves them with requests, each of which reads and writes in
steps of its own, with the webhook's deliveries and with the notices the poller
process appends. A restart loses the registry and every thread.

Requests are served by `Threads`, any number of them: Hermes runs under the
development server (`README.md:61`, `app.py:1418`), which has a thread for each
request; gunicorn's worker (`railway.json:4`) has one. Everything between two
accesses to what the threads share is a step of its own: a reset's stop, its pop and its
update; the look for a live run and the start; the look for a message id and its
addition (`whatsapp.first_delivery` has no lock). The row of a todo is read in
one `SELECT` (`_own_todo`), the chat in two (`get_chat`): `Read` takes its thread, `Recall`
its session, as it is by then.

The instance `MCLocalChat` is in scenes, because all of it at once has too many
states: for a todo, `agents` (either engine, one request at a time) and `crossing` (two
requests at once); for the chat, `phone` (two requests at once, one message delivered any
number of times, no resets), `restart` (one request at a time, a restart) and `notices` (one
request at a time, resets, the poller).

### The parts of the local app

Each module of `LocalParts` has its own rows, and they meet only in calls whose
answer the caller's module makes a choice of. So a behaviour of `LocalParts` moves one part, which
`part` names; this loses no interleaving within a part, and there is none
between parts that a property could see. `WebParts` is built the same way.

`LocalSchema` follows what Python's `sqlite3` does: a statement that changes rows
opens a transaction, one that changes a table joins an open one or commits at once,
`executescript` commits first. The two processes and the crash between any two
statements are what the rebuild of `source_connections` must survive.

`DigestBuckets` counts hours, so the offset of a time zone is a number of hours:
5 in the run with the limits of the code, where the default zone has five and a half.

## 3. Runs and bounds

| Run | Instance | Shows |
| --- | --- | --- |
| `durable_effects` | 1 conversation, 2 jobs, 1 effect, 2 attempts, 2 generations, 2 epochs, 2 checks | authority, holds, reviews and retries agree; the tables implement `TurnLog` |
| `durable_turns` | 1 conversation, 3 jobs, 1 notice, 2 attempts, 1 generation, 1 epoch, room for 3 in the conversation and 2 of the owner | order of turns and replies, dense sequence numbers, queue limits, stable context, wake-ups |
| `work_parts` | one part at a time: the clock of 1 job, 3 attempts, lease 2, attempt time 3, lifetime 9, delays 1 and 2 with jitter 0 or 1, clock up to 10; or the wake-ups of 1 job, 2 rows, 2 dispatchers, 1 receiver, 1 fault, 2 epochs | deadlines; every job ends; the clock implements the flags; fencing of outbox rows; a runnable job is taken |
| `mail_polls` | 2 pollers, 2 mails, pages of 1, room for 1 job, 1 attempt, 1 connection, 2 faults | late pollers are fenced; the cursor covers only mail with a job; a resync has a reason |
| `mail_reconnects` | 1 poller, 1 mail, 2 attempts, 3 connection generations, 2 epochs, 1 fault | nothing of an earlier connection runs; one todo for a mail; mail is ingested |
| `web_parts` | sign-in with 2 people, 2 browsers, 1 seat, 1 session, 2 flows, 1 restore; a tab with 2 accounts and 1 operation; a durable page with 1 message, 2 loads, 2 generations; an execution with 2 attempts, 2 capabilities, 1 refresh, 3 links, 2 eras; the local page with 2 threads and 2 calls, or 1 todo and 2 patches | limits, flows and disabling; one account shown; a message is never lost from sight; access is current; the local page is true |
| `local_chat` | 2 runs, 2 request threads, 1 message, 1 notice, 1 restart, in the five scenes of `MCLocalChat` | a run at work is in reach; turns are lost to crossing writers only; no invisible memory of a todo; one turn per message; a stop lands and a turn begun on the phone is answered there |
| `local_parts` | 3 mails and 2 connects; 2 recordings, look-back 2, 4 ticks; 2 machines with 2 states each, 2 ticks; 4 days of digests, 2 prompts, 1 slip; 6 visits on 1 host in 3 rows; 2 todos of 1 task, 3 days; 2 notices and 2 lists; 5 answers with questions and options, of which 2 and 2 are kept; 2 todos in 10 hours of two days; 2 people, 1 phone, 1 code, 2 subscriptions; 2 mailboxes and 2 consents; 2 processes and 3 starts over three old databases; 2 turns with their browsers; 2 turns of 3 steps | the eight properties of the local app |
| `mail_revoked`, `local_reset`, `local_overlap`, `digest_due_today` | 1 mail and 3 connection generations; 1 run and a reset; 2 runs and 2 request threads; 1 todo, 2 days, the limits of the code | four violations (below) |

Why the bounds are enough. What the properties of the core forbid is a conflict
between two jobs, or between two attempts of one job; two jobs and two attempts
make both, a third job adds a turn before and after another, and a second
generation and epoch make work stale. Two names for recovery checks make a
partial review possible; the code has four, with the same role. The clock leaves room
for three attempts with their delays inside one lifetime, and for a lifetime that ends
inside an attempt. In `Dispatch` one fault is a lost send, acknowledgement, message or
settlement, a poisoned envelope, a crash, or a process so late that its lease
lapses. In `GmailIngest` a fault is a wrong answer, a lost history, a lost reply of
`ingest_page`, a poller that dies or outlives its lease, or a page that finds no
room; two of them with two pollers and two mails on two pages make a late page meet
a restarted chain, and mail arrive in the middle of a listing. Polls that could only
find nothing new are left out (`WorthPolling`), so that the fences stay finite.

One seat and one session make two people, or two logins, compete for the last one.
Two runs and two request threads are what a crossing needs: one of each was there before, and
one comes between two steps of the other.
Two callers of everything else (loads, calls, patches, capabilities, turns, starters,
subscriptions) are what an overtaking needs; a third adds a repetition. Three links
are a connection, its loss and another one; three starts of `init_db` are two at once
and one that finds what a crash left. Three mails and two connects let one be
there before the connection, one arrive in the backfill and one after it. The windows
of the note takers (look-back 2 within 4 ticks) let an item appear inside and outside
of them.

The code keeps 3 questions of 4 options each (`QuestionsCap`, `OptionsCap`); with 2 and 2 both
are exceeded by an answer the run still affords.

Bounds of the models by name: `MaxGeneration`, `MaxEpoch` (resets, restores),
`MaxTime`, `LastTime`, `MaxDay`, `LastDay`, `LastHour` (clocks), `MaxFaults`, `MaxMail`, `MaxConnects`,
`MaxConsents`, `MaxSessions`, `MaxFlows`, `MaxAttempt`, `MaxLink`, `MaxEra`, `MaxRestarts`,
`MaxSlips`, `MaxVisits`, `MaxRows`, `MaxLists`, `MaxSubs`, `MaxStarts`, `MaxSteps`, `TurnCount`. The
sets of ids are finite. All models stop at their bounds, so deadlock is not checked.

Fairness. `FairClockSpec` assumes that time passes and that the sweep comes round
(the scheduler is a timer loop; `sweep` orders its candidates by `due_at` and takes
100 at a time, so one job does not wait forever behind others); no worker is
assumed to live. `FairDispatchSpec` assumes that dispatchers, receivers and the scheduler,
which all run in loops, go on, that time passes for rows, and that faults are
finitely many. `FairMailSpec` assumes that the scheduler comes round and asks the
provider, that polls end in a page, that time passes, and that the sweep ends jobs whose
time is over. `LocalChat` assumes that a thread of the web process that can go on does
(`TurnStep`, `RequestStep`); a restart takes the threads with it, and nothing is assumed
of people, of the network or of the poller. Nothing is assumed of the other modules,
which have no liveness property.

Symmetry is used only in runs without liveness properties. Each module states the types of
its variables (`TypeOK`, `ClockTypeOK`, `MailTypeOK`, ...); the runs spend
their time on the properties below, and the types are proved with the inductive invariants of
section 4.

What the properties of the parts leave out. Where the code is known to give a guarantee
up, a ghost marks the case and the property speaks of the rest, so that everything
around the gap stays covered:

* `LocalGoogle.overtaken`: a refresh from before the person's last word was written back over it;
* `LocalSchema.outpaced`: two processes rebuilt the connections from columns they had read before each other's result;
* `LocalChrome.mistaken`, `excused`: two turns looked for a browser at once or a slow one was given up; Chrome was closed by its user, quit after the grace window, could not be relaunched, or the web process died owing it;
* `LocalActivity.unsure`: the store could not be read, or a thread was not waited for;
* `LocalReplies.unlike`: the phone has not got the bubble its number is read against, or its list has twins;
* `LocalNotices.refreshed`, `unposted`: a list was asked for anew; a notice could not be added or was written over;
* `LocalChat.dropped`, `gone`, `twice` and `Crossed`: a reset took a run at work from the registry; a turn was begun before a reset; two requests looked up a message at once; a thread was written back from a copy older than the turn it lost;
* `LocalLinks.unheard`, `Card.quiet`; `ThreadPage.crossed`; `TodoPage.reloadDue`, `byHand`; `WorkPage.unsure`: an answer was lost, or moved another thread's timer.

Each of these cases is described in section 6.

The violations.

* `mail_revoked` checks `CursorLeavesNoRevokedMail` and finds: an account is connected,
  its mail is ingested as a job, and the account is connected again before the job ran.
  `Connections.connect` cancels the job and the next poll restarts the backfill without a
  cursor, so the mail is listed again; but `ingest_page` inserts jobs `ON CONFLICT DO
  NOTHING` under a key made of the connection, which keeps its id, and the message. The
  cancelled job stays, the page is committed and the cursor passes mail nobody will process.
  The design document `docs/superpowers/specs/2026-09-26-durable-work-design.md`
  asks that the cursor advance "only when everything it covers is committed for
  recoverable processing" (lines 224 and 225). `CursorIsCovered`, which only asks for an
  event and a job, holds.
* `local_reset` checks `ResetForgets` and finds: a reset drops the run of a todo from the
  registry and clears its thread; the run's thread goes on, is stopped or not, and writes
  the thread it had read back with its own turn and session. `app.py:743` says that the run
  goes with the reset.
* `local_overlap` checks `OneLiveRun` and finds: a reset has no run to stop yet, another
  request starts one, and the reset then pops it from the registry, whatever it is
  (`discard`, `agent/runs.py:207-209`); the next request finds no run and starts a second one. Both
  are at work, which `agent/runs.py:13` and `app.py:594` exclude. The same happens while the stop waits up
  to five seconds in the kill of a run that ends meanwhile. `RunIsInReach`, which holds, says that this is the
  only way: a run nobody told to stop is registered, unless the pop of a reset dropped it.
* `digest_due_today` checks `DueTodayLeads` and finds: a todo that is due on a date is not in
  the urgent band of that date's digest. A date is read as midnight in UTC, which away
  from UTC has a local time and so is taken for an instant, five and a half hours into
  the user's day; the digest goes out at nine. `pollers/digest/poller.py:153` says that such a
  deadline stays live through the end of its day.

## 4. Proofs

Every property of a passing run that is not about liveness is a theorem for all values of the
constants, but for those listed at the end. Each component has an inductive invariant; what
it adds to the property, and why, is what follows. Assumptions are the named `ASSUME`s of the modules; TLC evaluates
each of them on an instance.

### The cloud service

`DurableWork_proofs.tla` proves, for every set of jobs, conversations, owners, keys,
operations, origins and checks and every limit, that `IInv` is inductive (`Invariance`),
and from it

* `TypeCorrect` (`TypeOK`), `StaleWorkIsSettled` (`NoStaleWork`), `HoldIsExact`
  (`HoldMatchesReviews` and `HeldIsIdle`), `IntentStopsRetries` (`IntentIsNotRetried`),
  `TurnsAreExclusive` (`ExclusiveTurn`), `AuthorityIsUnique` (`OneAuthorizedAttempt`);
* the action properties `OutcomesStayFinal` (`OutcomesAreFinal`), `NextTurnGetsWoken`
  (`NextTurnIsWoken`) and `ContextStaysStable` (`ContextIsStable`);
* `ConversationsStayOrderly` (`ConversationIsOrderly`).
* `TurnsStaySerial` (`TurnsAreSerial`): the refinement of `TurnLog`.

That a turn runs alone rests on the job
orders of a generation being distinct (`OrdersUnique`), which rests on the counter
of the conversation being ahead of them (`RowsOK`), which rests on generations never
going back. That nothing runs in a held conversation rests on each running job
being the first unsettled one (`TurnsInOrder`), because a review counts as
unsettled: the job that is put in review can only be the one that ran, or one
behind it that did not. That a job with an effect is not retried rests on
effects belonging only to jobs that have run (`EffectsOK`).
The lemma `SettlingKeepsIInv` does the work once for everything that goes through
`leases.transition`, and `TransitionKeepsIInv` applies it to the callers.

The messages have an invariant of their own, `MInv`: a message of a turn is of its job
(`MessagesFromJobs`), the counter is past every sequence number (`SequencesBelow`), the
unique keys hold (`MessagesUnique`), and a turn has a reply only when none before it is
unsettled (`RepliesAfterTurns`); without the last, replies would come in the order in which
turns end, which is not yet the order in which they were accepted. The limits of the backlog are
cardinalities; that there are finitely many jobs at any time (`FewJobs`) is part of the
induction, so the set of ids may be infinite. An outcome is final only because what an audited
decision was made about has a final state (`ReviewedIsFinal`). For all of this the steps are put
into seven shapes first (`StepShapes`): a job accepted, claimed, settled or reconciled, a
conversation reset, a restore, and a calm step, which places no job anew.

The refinement maps the jobs of a conversation's generation to lists (`DurableTurns`): those that
are unsettled in their order, those in review, and the replies. A set of jobs has one such list at
most (`ListsAgree`), and it has one because its orders are distinct (`Listed`, an invariant of its own);
so it is enough to name the list after each step. A job that is accepted goes to the end, for its
order is the counter's; the one that runs is the head, by `TurnsInOrder`, and so is the
one that a finish takes off; the jobs behind it that a review holds go nowhere; and a reset begins empty.

`LeaseClock_proofs.tla` proves, for every setting of the lease, the attempt, the expiry,
the limit on attempts, the delays and the jitter, `DeadlinesAreHeld` (`DeadlinesHold`) and the
action property `LapsedStaysLost` (`LapsedIsLost`). `ClockInv` adds what the attempts before, at
and after the fence look like, and that a job that waits for a retry ended its last attempt a
whole delay before it is due: without it nothing relates the next claim to that attempt.

`Dispatch_proofs.tla` proves `RowsAreFenced` (`OneDispatcherOwns`), for any
number of jobs, rows, dispatchers, receivers, faults and restores. Its invariant
says that a dispatcher's fence is never above that of its row, that two
dispatchers with the same row have different fences, and that a row somebody
sends is not given away.

`GmailIngest_proofs.tla` proves `PollsAreFenced` (`OnePollerCommits`), `RevokedWorkStops`
(`NothingRevokedRuns`), `TodosAreUnique` (`OneTodoPerMail`) and `CursorStaysSound`
(`CursorIsSound`). `MailInv` adds that the claims of
two pollers have different fences, none above that of the checkpoint; that a
checkpoint in history mode has a cursor, without which the provider's answer would have
no type; and that a mail with a todo has a job that succeeded, the one state no
step leaves. `CursorInv` follows a listing over its pages: whatever mail is not behind the cursor
and not ingested yet is on a page that is still to come (`ListingIsCovered`), a baseline is not past what its
listing goes up to (`BaselineIsListed`), a page that a poller may still commit leaves nothing
behind but what it points to (`PagesAreSound`), and without a reason to blame the provider it
is a page of the listing (`PagesAreRight`). It needs that a page token is none of the two other
values a key may have (`TokensAreOwn`).

`Identity_proofs.tla` proves, for any number of people, browsers, flows, sessions and
restores and any positive limits, `LimitsAreKept` (`LimitsHold`) and `SessionsStayEarned`
(`SessionsAreEarned`). That a flow gives one
session rests on its number being its own (`FlowsAreNumbered`) and on the flow of a
session being finished wherever its row still is (`SessionsHaveFlows`): `complete` takes
a claimed flow only. That a disabled owner stays out rests on every session that was not
revoked having an enabled owner (`SessionsHaveOwners`), the same conjunct that keeps a
restore from making old sessions count again.

`WebParts_proofs.tla` proves `AccessStaysCurrent` (`AccessIsCurrent`): `ExecutionInv` says of each
capability what must have happened to be `over` and of each refresh which link it was begun for.
`TabsAreSeparate` (`OneAccountShown`): `TabInv` says, for each stage of a bootstrap and of an operation,
for which account its answer will be accepted. `PageTracksWork` (`PageKeepsTrack`), with what the page
and the server say of each message (`SubmissionsAgree`, `StatusesAgree`). `PageStaysTrue`
(`PageIsTrue`): a page that shows a run has a timer or a request for it (`PageInv`), and
an update that was read before another still finds the row as the page will show it, or the
page asks again (`TodoInv`). `PartsAreAsSpecified` and `WebPromises` carry them, with those of
sign-in, over to the composition.

### The local app

`LocalChat_proofs.tla` is about any number of conversations, request threads, runs, messages, notices
and restarts; nothing is assumed of how requests are served.

* `ChatInvariance` is the inductive invariant `ChatInv`: the registry, the rows and the copies in
  runs and requests name runs that were begun (`RowsAgree`), every copy of a todo's
  session goes with a copy of the thread that shows the turn it is of (`MemoryHolds`), and turns are begun for
  messages that were noted, one for each request at most (`TurnsCounted`). From it follow `ChatTypes`
  (`TypeOK`), `MemoryStaysVisible` (`MemoryIsVisible`) and `TurnsAreNotRepeated` (`OneTurnPerMessage`).
  `MemoryIsVisible` is of todos: the two reads of `get_chat` may fall on both sides of a
  run's `set_chat` and give a thread and a session of different turns, and a notice replaces the thread
  alone, so the chat keeps no such promise.
* `RunsStayInReach` (`RunIsInReach`): `start` takes no key of a live run, under the lock, and a run that was
  stopped is not at work; what is popped while it is at work is in `dropped`. `SecondRunIsDropped` draws the
  conclusion: of two runs of one conversation that are both at work, a reset has dropped one.
* `TurnsStayRecorded` (`TurnIsRecorded`) rests on `RecordInvariance`. What was written (`Written`) and what each
  item was built on never change again (`Grows`). A copy fits (`Fits`) when it holds only what was written and
  still has each turn that was stored when it was read, unless it shows something that crossed that turn or a reset came
  between; `RecordInv` says that the threads, and the copies of all requests, runs
  and the poller, fit. Whoever writes a copy back appends its own item to it, and what the thread
  loses by that was not in the copy, so it crossed the writer (`Keeps`). A reset empties the thread, and all that it
  loses is `gone`.

`LocalApp_proofs.tla` proves the eight safety properties of `LocalParts`, of which
`LocalPartsAreAsSpecified` says that each part behaves in it as its own specification says.

* `NothingStaysMissed` (`NothingIsMissed`): for the note takers a poll has all that was there when it
  began and was recorded in its window (`FetchIsComplete`, `ItemIsCaught`); a snapshot that is on record was
  worked through (`SnapshotIsHeeded`); the mail cursor passes considered mail only (`MailInv`).
* `DigestStaysBounded` (`DigestIsBounded`): what is on its way in a poll counts as sent or as a slip.
* `FinishedStaysAway` (`NothingComesBack`): the pages of the history poller (`HistoryInv`) and the table of
  todos (`TableInv`: a find that passed the check is new as long as nobody else saves one, and what
  the list had stays known for its window).
* `AnswersStayUnderstood` (`AnswersAreUnderstood`): a notice names the list it was made of and a reply on the way is
  of the bubble it was read against (`NoticeInv`, `RepliesInv`), for any caps on questions and
  options; the lists are walked through by their length.
* `SettingsStayTrue` (`SettingsAreTrue`): links, enrolments and accounts (`PhoneInv`, `EnrolInv`,
  `GoogleInv`).
* `UpgradesStayWhole` (`UpgradeLosesNothing`): `SchemaInv` says which tables a run of `init_db` may find at each of its
  statements (`StagesHold`, by what it has read and by what others may have done meanwhile), that both
  the committed file and the open transaction are whole (`FilesAreWhole`, `RowsAreHeld`), who may have made the spare
  table (`SpareIsOwn`) and what a run that was never overlapped read (`LoneIsAlone`). It rests on the order `Later`:
  what one run has changed for the new version no other changes back. Any number of processes
  may run it, where the check has two with three starts.
* `DigestsStayFull` (`DigestServes`): an action property. What was told as urgent and not written
  since is still open, and its deadline within the window (`BucketInv`); the sorted suggestions hold each
  todo once (`SortingsHaveAll`), so what is left out are those behind the limit, and as many as told.
* `TurnsAreAttended` (`TurnIsAttended`): a closed Chrome has a turn that owes it (`BrowserInv`), and the steps of a
  turn are handed on in order (`ActivityInv`).

Facts about sequences of any length are shown by the least length that would be a counterexample,
from the library's theorem that the natural numbers are well founded.

### Only model-checked

The liveness properties `StopLands`, `TurnIsAnswered`, `JobEnds`, `RunnableIsTaken` and
`MailIsIngested`: liveness and ENABLED are out of the prover's reach. Every safety
invariant, action property and refinement of a passing run has a theorem. The four violations have
none, of course. No module has a RECURSIVE operator.

## 5. What is abstracted

* The text of messages, inputs, receipts, reasons, prompts and notices. A request key that
  is repeated is answered from its row or refused; neither changes state.
* The identity of workers: only the claim counts in the code, too.
* Locks. All transactions on a conversation take them in one order, so they are
  atomic and serial.
* `DisableOwner` is one-way, as in `identity/sessions.py`; nothing enables an
  owner again.
* Jobs bound to a connection (`gmail_generation`) have no conversation, and
  are in `GmailIngest` only. The backlog of an owner there is that of the one mailbox.
* In `GmailIngest`, labels and deletions (they leave an event and no job), the text of
  `ingestion_error`, the content of a page that is refused because its key was
  used with another one, and the comparison of titles: a generation ends with a todo or without.
* Candidate queries of `sweep` and `redispatch` without locks: the action is the
  recheck under locks, which any candidate list, however stale, leads to.
* Jitter is a set of possible additions to a delay. Heartbeats change no flag of
  `DurableWork` and are in `LeaseClock` and `Execution` only.
* What a model says (of a mail, of a list of actions, of a turn) is a choice, and so is the
  answer of every service: Google, WhatsApp, a push service, the broker.
* Titles that `titles_similar` takes for one task are one name; a label of an
  option is what is left of it after it is cut off and its case is dropped.
* `set_chat` writes the thread and the session in two statements of one transaction; they are one
  step.
* The Fathom poller is the Pocket poller with a look-back of 0. The query limit of Pocket, which
  has no paging, is left out, as are its texts.
* Hermes is modelled with both of its browser options on (`HERMES_PERSISTENT_BROWSER`,
  `HERMES_AUTOCLOSE_CHROME`); without them the steps about the browsers are not taken.

## 6. What modelling it brought up

Behaviour that a reader of the code may not expect, met while translating it. The four
violations are in section 3; these are outside what the properties promise, by the ghosts
of section 3 or because the module describes them as they are.

Runs and chat

* `runs.py:14` says that a second start replaces the first; `start` returns the run that is
  going, and the caller's message and `on_finish` are dropped. The phone is then told that
  it will be answered (`app.py:1037`) for a run of the page, which has no callback to the phone.
* `runs.py:79` says that what is left is killed with SIGKILL; `cancel` returns once the leader
  is gone, and a child that ignored SIGTERM keeps the pipes.
* `append_chat_bubble` and the end of a chat turn both read, change and write the thread: a notice may be
  overwritten, or a turn.
* `ask_ai` reads the row before it looks whether a run is going, so a turn may be built on, and written
  back over, a thread that lacks the turn that ended in between.
* `get_chat` reads thread and session in two statements; a run that a reset dropped may write both in between, and the
  next turn then resumes a session whose turns its thread does not show.
* `first_delivery` looks a message id up and adds it without a lock: two deliveries at once may both be taken
  for the first.
* A number from the phone is read against the last bubble, which may be one of the page
  or a notice that never reached the phone. Options whose labels agree in their first 40
  characters are one option in the bubble and two numbers in the text.

Mail, notes, digest

* `gmail_callback` marks the backfill pending before it clears the cursor (`app.py:1270`). Signing
  in stores the mailbox's credentials, too, without marking a backfill, and so connects a
  mailbox that was disconnected. The backfill is of three days.
* The window of the digest's urgent band is 72 hours and ends at the deadline, where its
  docstring speaks of 48 hours and of overdue items; age-out is measured from the creation of a
  todo, though it speaks of unacted ones; `closed_yesterday` compares UTC strings with strings
  that carry a local offset.
* Fathom's items are not checked for similarity, though `db.py:1156` counts them among the sources.
  A todo whose title was edited no longer guards its task.
* The history poller tells `www.` from the bare host when it clears finished pages and not when it
  asks about a page; a page gets a todo once only; the comment says an hour where the interval is 1000
  seconds, as "once per hour" stands over 60 seconds in the system poller.
* A call of the model that fails in the system poller is recorded as an answer without todos: the hash of the
  snapshot is kept, and the machine is not asked about again until it changes. Fathom looks back not at all, so
  a meeting that appears with a time before the last poll is passed over, where Pocket looks back.

Accounts and database

* A credential refresh in flight writes a disconnected account back, or over a fresh consent.
* A crash between `CREATE TABLE source_connections_new`, which is committed at once, and the copy leaves
  the spare table, and every later `init_db` fails on it. Two rebuilds from columns read before
  each other drop connections made since, or give them another owner. A legacy `history_id` is moved
  to `user_state` after the column it came from was dropped.
* A todo rejected by hand and opened again is closed by the `init_db` of the next request
  (`db.py:366`), as is one that a reject and an accept at once left rejected and open.

Pages

* `app.js` shows the UTC wall time of a deadline as local time, so that opening and leaving the field
  moves the deadline.
* A late answer of another thread ends the poll timer or moves it; an answer on its way over a reset
  caches the old thread again; the reset's own handler does not look which thread is open.
* In durable mode a retry that is refused (401, 409) says that the message was not saved
  although its first post was accepted; a reset that is not confirmed drops the chip of the message's
  status. The status pill writes the value it shows, however old, when it is left.
* The order of the checks makes `session_context_changed` an answer that a page practically never
  gets: the token check before it answers 403.
* A browser whose enrolment was not stored shows "On" after a reload. The WhatsApp card stops
  asking after one failed request. A push button names an action by its index in a list that may
  have been made anew.

Hermes

* The launch of a second run removes the port file of a Chrome that lives, which is then never
  found alive; two turns may overlay a copy that is in use; a Chrome that quits in the last half second of the
  grace window or after it, or whose quitting is cut off by the timeout, is not brought back.
* `stop()` of the watcher waits a second more than its poll, while a read may block for five: steps are told
  twice. A baseline that cannot be read tells the whole session again.

## 7. Not modelled

* `templates/`, `static/css`, rendering and wording: no state.
* `scripts/`: checks of single functions, run by hand.
* Cookies, headers, signatures, encryption, migrations and telemetry of the cloud
  service (`identity/crypto.py`, `database.py`, `migrate.py`, `telemetry.py`): they are
  pure or hold no state that an operation above depends on.
* What the Google tools of the agent ask of Google, and the agent process itself: external.
* The service worker's cache and the drafts of documents on the page.

## 8. Plan

Done: every component that keeps state, with the exceptions above, and a theorem for every safety
invariant, action property and refinement a passing run checks. What would add most next, in this order:

1. An abstract specification of ingestion, for the cloud's mailbox and the local one: a
   set of mail, each settled at most once.
2. Liveness of the pages: a message that was accepted is shown at last, when the network
   answers often enough.
