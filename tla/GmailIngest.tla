----------------------------- MODULE GmailIngest -----------------------------
(***************************************************************************)
(* Gmail ingestion of one connection of one owner: the mailbox checkpoint, *)
(* the pollers that lease it, page by page progress, the generation job of *)
(* every mail and the todo it ends in, while the account is disconnected   *)
(* and connected again and the database restored (cloud/gmail.py,          *)
(* connections.py, todos.py, scheduler.py, recovery.py).                   *)
(*                                                                         *)
(* Every action is one committed transaction, or one answer of the mail    *)
(* provider, which Scheduler.once asks outside of any transaction.  Mail   *)
(* is numbered by its history id.  Label changes and deletions only leave  *)
(* an event and are left out.  The clock is a flag for each deadline, as   *)
(* in DurableWork; the delay of a retry is LeaseClock's business.          *)
(***************************************************************************)
EXTENDS Naturals, FiniteSets

CONSTANTS
    Pollers,        \* schedulers, late ones and dead ones among them
    Start, Null,    \* the page key 'start', SQL NULL
    MaxMail,        \* bound of the model on the mail that arrives
    PageLimit,      \* the longest page valid_page lets through
    OwnerLimit,     \* config.owner_limit
    MaxAttempts,    \* config.max_attempts
    MaxGeneration,  \* bound of the model on connections and disconnections
    MaxEpoch,       \* bound of the model on restores
    MaxFaults       \* bound of the model on what goes wrong on the way

ASSUME MailAssumption ==
    /\ MaxMail \in Nat /\ MaxAttempts \in Nat \ {0}
    /\ PageLimit \in Nat \ {0} /\ OwnerLimit \in Nat /\ PageLimit <= OwnerLimit
    /\ MaxGeneration \in Nat /\ MaxEpoch \in Nat \ {0} /\ MaxFaults \in Nat
    /\ Start # Null /\ Null \notin Nat

VARIABLES
    runtime,     \* the runtime row: epoch and enabled
    owner,       \* owners.enabled
    connection,  \* the connections row, generation 0 before the first connect
    checkpoint,  \* the mailbox_checkpoints row, generation 0 before the first poll
    receipts,    \* page_receipts: chain and page key
    events,      \* ingested_events of received mail
    work,        \* jobs of kind gmail_generation, by mail
    todos,       \* how many todos were made of a mail
    poller,      \* what each poller has in memory
    arrived,     \* the history id of the mailbox
    horizon,     \* mail up to here is older than three days
    faults,      \* what may still go wrong
    blamed       \* did the provider, a lost history or a reconnect call for a resync?

mailVars == <<runtime, owner, connection, checkpoint, receipts, events, work, todos,
              poller, arrived, horizon, faults, blamed>>

Mail == 1 .. MaxMail

\* A page token stands for the mail that is still to be listed, and for how far
\* the whole listing goes.
Token == [rest : SUBSET Mail, upto : Nat]
\* A page token is neither the key of the first page nor the end of a listing.
ASSUME TokensAreOwn == Start \notin Token /\ Null \notin Token
Keys  == Token \cup {Start}

Page == [key : Keys, expected : Keys, next : Keys \cup {Null},
         baseline : Nat \cup {Null}, final : Nat,
         mail : SUBSET Mail, valid : BOOLEAN]  \* what valid_page says

PollClaim == [generation : Nat, fence : Nat, epoch : Nat, chain : Nat]

Poller == [at : {"idle", "claimed", "paged"},
           claim : PollClaim \cup {Null}, page : Page \cup {Null}]

Idle == [at |-> "idle", claim |-> Null, page |-> Null]

Checkpoint ==
    [generation : Nat, fence : Nat, epoch : Nat, chain : Nat,
     lease : {"none", "live", "lapsed"},
     next_page_key : Keys \cup {Null},
     cursor : Nat \cup {Null}, baseline_cursor : Nat \cup {Null},
     mode : {"backfill", "history"},
     backfill_since : Nat,  \* mail up to here is left out of the backfill
     resync_required : BOOLEAN,
     first_since : Nat]     \* not a column: backfill_since of the first poll

Waiting    == {"queued", "retry_pending"}
Unfinished == Waiting \cup {"running"}
ACTIVE     == Unfinished \cup {"needs_reconciliation"}

Job == [state : ACTIVE \cup {"none", "succeeded", "failed", "cancelled", "expired"},
        generation : Nat, epoch : Nat, fence : Nat,  \* attempts counts the same
        lease : {"none", "live", "lapsed"}, expired : BOOLEAN]

MailTypeOK ==
    /\ runtime \in [epoch : 1 .. MaxEpoch, enabled : BOOLEAN]
    /\ owner \in BOOLEAN
    /\ connection \in [generation : Nat, active : BOOLEAN]
    /\ checkpoint \in Checkpoint
    /\ receipts \subseteq Nat \X Keys
    /\ events \subseteq Mail
    /\ work \in [Mail -> Job]
    /\ \A m \in Mail : work[m].lease # "none" <=> work[m].state = "running"
    /\ todos \in [Mail -> Nat]
    /\ poller \in [Pollers -> Poller]
    /\ arrived \in 0 .. MaxMail /\ horizon \in 0 .. arrived
    /\ faults \in 0 .. MaxFaults /\ blamed \in BOOLEAN

-----------------------------------------------------------------------------
(* Connections *)

Closed(row, target) == [row EXCEPT !.state = target, !.lease = "none", !.expired = FALSE]

\* connections.revoke_work; these jobs have no conversation and no effects, so
\* that transition only closes them.
RevokeWork ==
    [m \in Mail |-> IF work[m].state \in Unfinished
                    THEN Closed(work[m], "cancelled") ELSE work[m]]

\* Connections.connect, of a new account or again of the same one.
Connect ==
    /\ runtime.enabled /\ owner
    /\ connection.generation < MaxGeneration
    /\ connection' = [generation |-> connection.generation + 1, active |-> TRUE]
    /\ work' = RevokeWork
    /\ blamed' = (blamed \/ connection.generation > 0)
    /\ UNCHANGED <<runtime, owner, checkpoint, receipts, events, todos, poller,
                   arrived, horizon, faults>>

\* Connections.disconnect, which also works while work is disabled.
Disconnect ==
    /\ connection.generation \in 1 .. MaxGeneration - 1
    /\ connection' = [generation |-> connection.generation + 1, active |-> FALSE]
    /\ work' = RevokeWork
    /\ UNCHANGED <<runtime, owner, checkpoint, receipts, events, todos, poller,
                   arrived, horizon, faults, blamed>>

-----------------------------------------------------------------------------
(* Polling *)

\* restart_backfill: a new chain, for three days back from now.
RestartBackfill(row) ==
    [row EXCEPT !.chain = row.chain + 1, !.fence = row.fence + 1, !.lease = "none",
                !.next_page_key = Start, !.baseline_cursor = Null, !.mode = "backfill",
                !.backfill_since = horizon, !.resync_required = TRUE]

FirstCheckpoint ==
    [generation |-> connection.generation, fence |-> 0, epoch |-> runtime.epoch,
     chain |-> 1, lease |-> "none", next_page_key |-> Start, cursor |-> Null,
     baseline_cursor |-> Null, mode |-> "backfill", backfill_since |-> horizon,
     resync_required |-> FALSE, first_since |-> horizon]

\* The row claim_poll goes on with: a first one, one of another generation, one
\* whose chain is complete, one in the middle of its chain.
Prepared ==
    IF checkpoint.generation = 0 THEN FirstCheckpoint
    ELSE IF checkpoint.generation # connection.generation
    THEN [RestartBackfill(checkpoint) EXCEPT !.generation = connection.generation,
                                             !.cursor = Null]
    ELSE IF checkpoint.next_page_key = Null
    THEN [checkpoint EXCEPT !.chain = checkpoint.chain + 1, !.next_page_key = Start,
                            !.baseline_cursor = Null]
    ELSE checkpoint

\* Bound of the model: a poll that could only find nothing new does not happen.
WorthPolling ==
    \/ checkpoint.generation # connection.generation
    \/ checkpoint.next_page_key # Null
    \/ checkpoint.cursor # arrived

UnleasedOnly == checkpoint.lease = "none"  \* fault: a lapsed lease is not taken over

Unleased ==
    checkpoint.generation = connection.generation => checkpoint.lease # "live"

FenceOf(row) == row.fence  \* fault: a claim takes the fence it finds

NextFence(row) == row.fence + 1

ClaimPoll(p) ==
    /\ poller[p].at = "idle"
    /\ runtime.enabled /\ owner /\ connection.active
    /\ Unleased /\ WorthPolling
    /\ checkpoint' = [Prepared EXCEPT !.fence = NextFence(Prepared),
                                      !.epoch = runtime.epoch, !.lease = "live"]
    /\ poller' = [poller EXCEPT ![p] =
          [at |-> "claimed", page |-> Null,
           claim |-> [generation |-> checkpoint'.generation, fence |-> checkpoint'.fence,
                      epoch |-> checkpoint'.epoch, chain |-> checkpoint'.chain]]]
    /\ UNCHANGED <<runtime, owner, connection, receipts, events, work, todos,
                   arrived, horizon, faults, blamed>>

AuthorizedByPoll(claim) ==  \* fault: the generation of the claim is not compared
    /\ runtime.enabled /\ owner /\ connection.active
    /\ runtime.epoch = claim.epoch /\ checkpoint.epoch = claim.epoch
    /\ checkpoint.fence = claim.fence /\ checkpoint.chain = claim.chain
    /\ checkpoint.lease = "live"

\* authorized_poll
AuthorizedPoll(claim) ==
    /\ runtime.enabled /\ owner /\ connection.active
    /\ connection.generation = claim.generation /\ checkpoint.generation = claim.generation
    /\ runtime.epoch = claim.epoch /\ checkpoint.epoch = claim.epoch
    /\ checkpoint.fence = claim.fence /\ checkpoint.chain = claim.chain
    /\ checkpoint.lease = "live"

\* What the provider may answer to the page key of the checkpoint.  A backfill
\* captures the history id before it lists, and says at each page what it is by
\* then, mail it did not list included.
Answers ==
    LET first    == checkpoint.next_page_key = Start
        filling  == checkpoint.mode = "backfill"
        since    == IF filling THEN checkpoint.backfill_since ELSE checkpoint.cursor
        Listings == IF first
                    THEN {[rest |-> since + 1 .. n, upto |-> n] :
                             n \in IF filling THEN since .. arrived ELSE {arrived}}
                    ELSE {checkpoint.next_page_key}
        Parts(l) == {x \in SUBSET l.rest :
                        Cardinality(x) <= PageLimit /\ (x = {} => l.rest = {})}
        Answer(l, x) ==
            [key |-> checkpoint.next_page_key, expected |-> checkpoint.next_page_key,
             next |-> IF x = l.rest THEN Null ELSE [rest |-> l.rest \ x, upto |-> l.upto],
             baseline |-> IF first /\ filling THEN l.upto ELSE Null,
             final |-> IF filling THEN arrived ELSE l.upto,
             mail |-> x, valid |-> TRUE]
    IN  UNION {{Answer(l, x) : x \in Parts(l)} : l \in Listings}

Fetch(p) ==
    /\ poller[p].at = "claimed" /\ checkpoint.next_page_key # Null
    /\ \E answer \in Answers :
          poller' = [poller EXCEPT ![p].at = "paged", ![p].page = answer]
    /\ UNCHANGED <<runtime, owner, connection, checkpoint, receipts, events, work, todos,
                   arrived, horizon, faults, blamed>>

\* A page that is malformed, belongs elsewhere, points at itself, contradicts the
\* baseline of its chain or has none.
Distorted(answer) ==
    {[answer EXCEPT !.valid = FALSE],
     [answer EXCEPT !.expected = [rest |-> {}, upto |-> 0]],
     [answer EXCEPT !.next = answer.expected],
     [answer EXCEPT !.baseline = 0], [answer EXCEPT !.baseline = Null]}

FetchWrong(p) ==
    /\ poller[p].at = "claimed" /\ checkpoint.next_page_key # Null
    /\ faults > 0
    /\ \E answer \in Answers : \E page \in Distorted(answer) :
          poller' = [poller EXCEPT ![p].at = "paged", ![p].page = page]
    /\ faults' = faults - 1 /\ blamed' = TRUE
    /\ UNCHANGED <<runtime, owner, connection, checkpoint, receipts, events, work, todos,
                   arrived, horizon>>

\* Another poller completed the chain meanwhile, or this one dies.
GiveUp(p) ==
    /\ poller[p].at # "idle"
    /\ \/ poller[p].at = "claimed" /\ checkpoint.next_page_key = Null /\ faults' = faults
       \/ faults > 0 /\ faults' = faults - 1
    /\ poller' = [poller EXCEPT ![p] = Idle]
    /\ UNCHANGED <<runtime, owner, connection, checkpoint, receipts, events, work, todos,
                   arrived, horizon, blamed>>

\* Gmail.resync: the provider no longer has the history since the cursor.
Resync(p) ==
    /\ poller[p].at = "claimed" /\ faults > 0
    /\ poller' = [poller EXCEPT ![p] = Idle]
    /\ checkpoint' = IF AuthorizedPoll(poller[p].claim) THEN RestartBackfill(checkpoint)
                     ELSE checkpoint
    /\ faults' = faults - 1 /\ blamed' = TRUE
    /\ UNCHANGED <<runtime, owner, connection, receipts, events, work, todos,
                   arrived, horizon>>

\* The receipt of a page that was committed before.  The same key with another
\* content is refused, which changes nothing either.
Received(p) ==
    poller[p].page.valid /\ <<poller[p].claim.chain, poller[p].page.key>> \in receipts

\* invalid_page_token
WrongToken(page) ==
    \/ page.expected # checkpoint.next_page_key
    \/ page.next = page.expected
    \/ /\ page.baseline # Null /\ checkpoint.baseline_cursor # Null
       /\ page.baseline # checkpoint.baseline_cursor

NoBaseline(page) ==
    checkpoint.mode = "backfill" /\ checkpoint.baseline_cursor = Null /\ page.baseline = Null

NewMail(page) == {m \in page.mail : work[m].state = "none"}
Active == {m \in Mail : work[m].state \in ACTIVE}

\* owner_capacity
NoRoom(page) == Cardinality(Active) + Cardinality(NewMail(page)) > OwnerLimit

\* ingest_page without a change but to ingestion_error.  A refusal for want of
\* room counts as a fault, a bound of the model on fruitless polls.
DropPage(p) ==
    LET page == poller[p].page
    IN  /\ poller[p].at = "paged"
        /\ \/ Received(p) /\ faults' = faults
           \/ ~Received(p) /\ ~AuthorizedPoll(poller[p].claim) /\ faults' = faults
           \/ /\ ~Received(p) /\ AuthorizedPoll(poller[p].claim)
              /\ ~page.valid \/ (~WrongToken(page) /\ NoBaseline(page))
              /\ faults' = faults
           \/ /\ ~Received(p) /\ AuthorizedPoll(poller[p].claim) /\ page.valid
              /\ ~WrongToken(page) /\ ~NoBaseline(page) /\ NoRoom(page)
              /\ faults > 0 /\ faults' = faults - 1
        /\ poller' = [poller EXCEPT ![p] = Idle]
        /\ UNCHANGED <<runtime, owner, connection, checkpoint, receipts, events, work,
                       todos, arrived, horizon, blamed>>

\* ingest_page of a page with a wrong token
RestartOnPage(p) ==
    /\ poller[p].at = "paged" /\ ~Received(p) /\ AuthorizedPoll(poller[p].claim)
    /\ poller[p].page.valid /\ WrongToken(poller[p].page)
    /\ checkpoint' = RestartBackfill(checkpoint)
    /\ poller' = [poller EXCEPT ![p] = Idle]
    /\ UNCHANGED <<runtime, owner, connection, receipts, events, work, todos,
                   arrived, horizon, faults, blamed>>

\* A job for every mail that has none, whatever became of an older one.
Queued(claim, page) ==
    [m \in Mail |-> IF m \in NewMail(page)
        THEN [state |-> "queued", generation |-> claim.generation, epoch |-> claim.epoch,
              fence |-> 0, lease |-> "none", expired |-> FALSE]
        ELSE work[m]]

FinalCursor(page) == page.final  \* fault: the listing vouches for mail that came during it

\* completed_cursor
CompletedCursor(page) ==
    IF checkpoint.mode = "history" THEN page.final
    ELSE IF checkpoint.baseline_cursor # Null THEN checkpoint.baseline_cursor
    ELSE page.baseline

Advanced(page) ==
    [checkpoint EXCEPT
        !.next_page_key = page.next,
        !.baseline_cursor = IF checkpoint.baseline_cursor = Null THEN page.baseline
                            ELSE checkpoint.baseline_cursor,
        !.cursor = IF page.next = Null THEN CompletedCursor(page) ELSE checkpoint.cursor,
        !.mode = IF page.next = Null THEN "history" ELSE checkpoint.mode,
        !.lease = IF page.next = Null THEN "none" ELSE "live"]

\* ingest_page of a good page; the answer may be lost, and the page sent again.
IngestPage(p) ==
    LET claim == poller[p].claim  page == poller[p].page
    IN  /\ poller[p].at = "paged" /\ ~Received(p) /\ AuthorizedPoll(claim)
        /\ page.valid /\ ~WrongToken(page) /\ ~NoBaseline(page) /\ ~NoRoom(page)
        /\ work' = Queued(claim, page)
        /\ events' = events \cup page.mail
        /\ receipts' = receipts \cup {<<claim.chain, page.key>>}
        /\ checkpoint' = Advanced(page)
        /\ \/ poller' = [poller EXCEPT ![p] = Idle] /\ faults' = faults
           \/ poller' = poller /\ faults > 0 /\ faults' = faults - 1
        /\ UNCHANGED <<runtime, owner, connection, todos, arrived, horizon, blamed>>

-----------------------------------------------------------------------------
(* Generation jobs *)

\* leases.enabled of a job that is bound to the connection
Enabled(m) ==
    /\ runtime.enabled /\ owner /\ work[m].epoch = runtime.epoch
    /\ connection.active /\ work[m].generation = connection.generation

AuthorizedByFence(m, f) ==  \* fault: the state and the lease are not looked at
    Enabled(m) /\ work[m].fence = f

\* leases.authorized
Authorized(m, f) ==
    /\ Enabled(m) /\ work[m].state = "running" /\ work[m].fence = f
    /\ work[m].lease = "live" /\ ~work[m].expired

rest == <<runtime, owner, connection, checkpoint, receipts, events, poller,
          arrived, horizon, faults, blamed>>

Close(m, target) == work' = [work EXCEPT ![m] = Closed(work[m], target)]

\* Leases.claim
StartJob(m) ==
    /\ Enabled(m) /\ work[m].state \in Waiting
    /\ ~work[m].expired /\ work[m].fence < MaxAttempts
    /\ work' = [work EXCEPT ![m] = [work[m] EXCEPT !.state = "running", !.lease = "live",
                                                  !.fence = work[m].fence + 1]]
    /\ UNCHANGED <<rest, todos>>

\* Leases.claim of a job that came too late; it cannot be out of attempts.
RefuseJob(m) ==
    /\ Enabled(m) /\ work[m].state \in Waiting
    /\ work[m].expired \/ work[m].fence >= MaxAttempts
    /\ Close(m, IF work[m].expired THEN "expired" ELSE "failed")
    /\ UNCHANGED <<rest, todos>>

\* Todos.record_generation: created, or duplicate or skipped, and the end of the job.
RecordGeneration(m, f) ==
    /\ Authorized(m, f)
    /\ \E made \in 0 .. 1 : todos' = [todos EXCEPT ![m] = todos[m] + made]
    /\ Close(m, "succeeded")
    /\ UNCHANGED rest

RetryOrFail(m, retryable) ==
    IF work[m].expired THEN Close(m, "expired")
    ELSE IF retryable /\ work[m].fence < MaxAttempts THEN Close(m, "retry_pending")
    ELSE Close(m, "failed")

FailJob(m, f) ==
    /\ Authorized(m, f)
    /\ \E retryable \in BOOLEAN : RetryOrFail(m, retryable)
    /\ UNCHANGED <<rest, todos>>

\* Control.cancel
CancelJob(m) ==
    /\ work[m].state \in Unfinished
    /\ Close(m, "cancelled")
    /\ UNCHANGED <<rest, todos>>

\* Recovery.sweep
SweepJob(m) ==
    /\ runtime.enabled /\ work[m].epoch = runtime.epoch /\ work[m].state \in Unfinished
    /\ IF ~owner THEN Close(m, "cancelled")
       ELSE IF work[m].expired THEN Close(m, "expired")
       ELSE work[m].lease = "lapsed" /\ RetryOrFail(m, TRUE)
    /\ UNCHANGED <<rest, todos>>

\* Control.reconcile
Reconcile(m) ==
    /\ work[m].state = "needs_reconciliation"
    /\ \E target \in {"succeeded", "cancelled"} : Close(m, target)
    /\ UNCHANGED <<rest, todos>>

-----------------------------------------------------------------------------
(* The operator and time *)

\* Recovery.begin_restore
BeginRestore ==
    /\ runtime.epoch < MaxEpoch
    /\ runtime' = [epoch |-> runtime.epoch + 1, enabled |-> FALSE]
    /\ checkpoint' = [checkpoint EXCEPT !.lease = "none", !.fence = checkpoint.fence + 1]
    /\ work' = [m \in Mail |-> IF work[m].state \in Unfinished
                               THEN Closed(work[m], "needs_reconciliation") ELSE work[m]]
    /\ UNCHANGED <<owner, connection, receipts, events, todos, poller,
                   arrived, horizon, faults, blamed>>

\* Recovery.resume_after_review; the reviews are in DurableWork.
Resume ==
    /\ ~runtime.enabled
    /\ runtime' = [runtime EXCEPT !.enabled = TRUE]
    /\ UNCHANGED <<owner, connection, checkpoint, receipts, events, work, todos, poller,
                   arrived, horizon, faults, blamed>>

\* Sessions.disable
DisableOwner ==
    /\ owner /\ owner' = FALSE
    /\ UNCHANGED <<runtime, connection, checkpoint, receipts, events, work, todos, poller,
                   arrived, horizon, faults, blamed>>

Arrive ==
    /\ arrived < MaxMail
    /\ arrived' = arrived + 1
    /\ UNCHANGED <<runtime, owner, connection, checkpoint, receipts, events, work, todos,
                   poller, horizon, faults, blamed>>

\* Three days have gone by since the next mail arrived.
Age ==
    /\ horizon < arrived
    /\ horizon' = horizon + 1
    /\ UNCHANGED <<runtime, owner, connection, checkpoint, receipts, events, work, todos,
                   poller, arrived, faults, blamed>>

\* Sixty seconds have gone by since the poll was claimed or its last page was
\* committed: nobody holds the claim any more, or its poller is late.
Holds(p) == poller[p].at # "idle" /\ poller[p].claim.fence = checkpoint.fence

LapsePoll ==
    /\ checkpoint.lease = "live"
    /\ \/ (\A p \in Pollers : ~Holds(p)) /\ faults' = faults
       \/ (\E p \in Pollers : Holds(p)) /\ faults > 0 /\ faults' = faults - 1
    /\ checkpoint' = [checkpoint EXCEPT !.lease = "lapsed"]
    /\ UNCHANGED <<runtime, owner, connection, receipts, events, work, todos, poller,
                   arrived, horizon, blamed>>

LapseJob(m) ==
    /\ work[m].lease = "live"
    /\ work' = [work EXCEPT ![m].lease = "lapsed"]
    /\ UNCHANGED <<rest, todos>>

\* The lifetime of a job is over, and the lease, which ends before, with it.
ExpireJob(m) ==
    /\ work[m].state \in Unfinished /\ ~work[m].expired
    /\ work' = [work EXCEPT ![m] =
          [work[m] EXCEPT !.expired = TRUE,
                          !.lease = IF work[m].state = "running" THEN "lapsed" ELSE "none"]]
    /\ UNCHANGED <<rest, todos>>

-----------------------------------------------------------------------------
MailInit ==
    /\ runtime = [epoch |-> 1, enabled |-> TRUE] /\ owner = TRUE
    /\ connection = [generation |-> 0, active |-> FALSE]
    /\ checkpoint = [generation |-> 0, fence |-> 0, epoch |-> 0, chain |-> 0,
                     lease |-> "none", next_page_key |-> Null, cursor |-> Null,
                     baseline_cursor |-> Null, mode |-> "backfill", backfill_since |-> 0,
                     resync_required |-> FALSE, first_since |-> 0]
    /\ receipts = {} /\ events = {}
    /\ work = [m \in Mail |-> [state |-> "none", generation |-> 0, epoch |-> 0,
                               fence |-> 0, lease |-> "none", expired |-> FALSE]]
    /\ todos = [m \in Mail |-> 0]
    /\ poller = [p \in Pollers |-> Idle]
    /\ arrived = 0 /\ horizon = 0 /\ faults = MaxFaults /\ blamed = FALSE

JobStep(m) ==
    \/ StartJob(m) \/ RefuseJob(m) \/ CancelJob(m) \/ SweepJob(m) \/ Reconcile(m)
    \/ \E f \in 1 .. MaxAttempts : RecordGeneration(m, f) \/ FailJob(m, f)
    \/ LapseJob(m) \/ ExpireJob(m)

MailNext ==
    \/ Connect \/ Disconnect
    \/ \E p \in Pollers :
          \/ ClaimPoll(p) \/ Fetch(p) \/ FetchWrong(p) \/ GiveUp(p) \/ Resync(p)
          \/ DropPage(p) \/ RestartOnPage(p) \/ IngestPage(p)
    \/ \E m \in Mail : JobStep(m)
    \/ BeginRestore \/ Resume \/ DisableOwner
    \/ Arrive \/ Age \/ LapsePoll

MailSpec == MailInit /\ [][MailNext]_mailVars

\* The scheduler comes round, its polls end in a page, and time passes.
FairMailSpec ==
    /\ MailSpec
    /\ WF_mailVars(\E p \in Pollers : ClaimPoll(p))
    /\ \A p \in Pollers :
          WF_mailVars(Fetch(p) \/ GiveUp(p) \/ DropPage(p) \/ RestartOnPage(p) \/ IngestPage(p))
    /\ WF_mailVars(LapsePoll)
    /\ \A m \in Mail : WF_mailVars(SweepJob(m)) /\ WF_mailVars(ExpireJob(m))

-----------------------------------------------------------------------------
(* Properties *)

\* "Advance the final cursor only when everything it covers is committed": what
\* the cursor has passed has an event and a job, unless it was too old for the
\* first backfill, or for one that is on record as a resync.
CursorIsCovered ==
    checkpoint.cursor # Null => \A m \in 1 .. checkpoint.cursor :
        \/ m \in events /\ work[m].state # "none"
        \/ m <= checkpoint.first_since
        \/ checkpoint.resync_required /\ m <= checkpoint.backfill_since

\* With a provider that keeps its promises, retries, late pollers, lapses and
\* restores never cost the mailbox its place: it is resynced only for a reason.
ResyncHasReason == checkpoint.resync_required => blamed

\* The cursor is neither ahead of the mail nor thrown away for nothing.
CursorIsSound == CursorIsCovered /\ ResyncHasReason

\* "One fenced poll lease per active connection generation": however late pollers
\* are, no two of them can both commit a page.
OnePollerCommits ==
    \A p, q \in Pollers :
        /\ poller[p].at # "idle" /\ AuthorizedPoll(poller[p].claim)
        /\ poller[q].at # "idle" /\ AuthorizedPoll(poller[q].claim)
        => p = q

\* "Revoked connections stop both polling and queued work": no job of an earlier
\* connection, or of an earlier epoch, is left waiting or running, although a page
\* of that connection may be on its way.
NothingRevokedRuns ==
    \A m \in Mail : work[m].state \in Unfinished =>
        /\ connection.active /\ work[m].generation = connection.generation
        /\ runtime.enabled /\ work[m].epoch = runtime.epoch

\* "Overlapping backfill/history must not generate duplicate todos": at most one
\* of all pages, attempts and connections makes a todo of a mail.
OneTodoPerMail == \A m \in Mail : todos[m] <= 1

Polled == runtime.enabled /\ owner /\ connection.active

\* Every mail of a connected account is ingested, or is too old by then.
MailIsIngested ==
    \A m \in Mail : arrived >= m ~> m \in events \/ m <= horizon \/ ~Polled

\* "Advance the final cursor only when everything it covers is committed for
\* recoverable processing": mail that a reconnected account lists again is not
\* left behind with a job that the earlier disconnect cancelled.
CursorLeavesNoRevokedMail ==
    [][checkpoint'.cursor # Null /\ checkpoint'.cursor # checkpoint.cursor =>
          ~\E m \in 1 .. checkpoint'.cursor :
              /\ m > checkpoint.backfill_since
              /\ work'[m].state = "cancelled" /\ todos'[m] = 0
              /\ work'[m].generation < connection'.generation]_mailVars
=============================================================================
