------------------------- MODULE GmailIngest_proofs -------------------------
(***************************************************************************)
(* Theorems about GmailIngest: types, fences of the mailbox checkpoint,    *)
(* revoked work and todos, and the soundness of the cursor, for any number *)
(* of pollers, mails, connections, restores and faults.                    *)
(***************************************************************************)
EXTENDS GmailIngest, TLAPS

\* What a poller remembers is complete, and the fence of its claim was given
\* to it alone and is not above that of the checkpoint.
ClaimsAreFenced ==
    \A p \in Pollers : poller[p].at # "idle" =>
        /\ poller[p].claim \in PollClaim
        /\ checkpoint.generation > 0
        /\ poller[p].claim.fence <= checkpoint.fence
        /\ \A q \in Pollers : q # p /\ poller[q].at # "idle" =>
              poller[q].claim.fence # poller[p].claim.fence

PagesAreRead == \A p \in Pollers : poller[p].at = "paged" => poller[p].page \in Page

HistoryHasCursor == checkpoint.mode = "history" => checkpoint.cursor \in Nat

ActiveWasConnected == connection.active => connection.generation > 0

\* A todo is made once, by the step that ends its job for good.
TodosAreSettled ==
    \A m \in Mail : todos[m] = 0 \/ (todos[m] = 1 /\ work[m].state = "succeeded")

MailInv ==
    /\ MailTypeOK
    /\ ClaimsAreFenced
    /\ PagesAreRead
    /\ HistoryHasCursor
    /\ ActiveWasConnected
    /\ NothingRevokedRuns
    /\ TodosAreSettled

-----------------------------------------------------------------------------
(* Rows *)

\* A job that is closed, whatever its new state, keeps its type, and its lease
\* ends unless it runs.
LEMMA ClosedIsJob ==
    ASSUME NEW row \in Job,
           NEW target \in ACTIVE \cup {"succeeded", "failed", "cancelled", "expired"},
           target # "running"
    PROVE  /\ Closed(row, target) \in Job
           /\ Closed(row, target).state = target
           /\ Closed(row, target).lease = "none"
           /\ Closed(row, target).generation = row.generation
           /\ Closed(row, target).epoch = row.epoch
BY DEF Closed, Job, ACTIVE, Unfinished, Waiting

\* A checkpoint with some of its columns set is a checkpoint.
LEMMA LeaseColumns ==
    ASSUME NEW row \in Checkpoint, NEW f \in Nat, NEW n \in Nat,
           NEW l \in {"none", "live", "lapsed"}
    PROVE  /\ [row EXCEPT !.chain = n, !.fence = f, !.lease = l] \in Checkpoint
           /\ [row EXCEPT !.fence = f, !.epoch = n, !.lease = l] \in Checkpoint
           /\ [row EXCEPT !.lease = l, !.fence = f] \in Checkpoint
           /\ [row EXCEPT !.lease = l] \in Checkpoint
  BY Zenon DEF Checkpoint

\* So is one with another place in its listing.
LEMMA ListingColumns ==
    ASSUME NEW row \in Checkpoint, NEW k \in Keys \cup {Null}, NEW b \in Nat \cup {Null},
           NEW x \in {"backfill", "history"}, NEW n \in Nat
    PROVE  /\ [row EXCEPT !.next_page_key = k, !.baseline_cursor = b, !.mode = x] \in Checkpoint
           /\ [row EXCEPT !.chain = n, !.next_page_key = k, !.baseline_cursor = b]
                 \in Checkpoint
  BY Zenon DEF Checkpoint

\* So is one with another cursor, or another beginning.
LEMMA PlaceColumns ==
    ASSUME NEW row \in Checkpoint, NEW n \in Nat, NEW b \in Nat \cup {Null}
    PROVE  /\ [row EXCEPT !.generation = n, !.cursor = Null] \in Checkpoint
           /\ [row EXCEPT !.backfill_since = n, !.resync_required = TRUE] \in Checkpoint
           /\ [row EXCEPT !.cursor = b] \in Checkpoint
  BY Zenon DEF Checkpoint

\* The first page has a key.
LEMMA KeysExist == Start \in Keys
  BY DEF Keys

\* restart_backfill gives a checkpoint with a greater fence.
LEMMA RestartIsCheckpoint ==
    ASSUME NEW row \in Checkpoint, horizon \in Nat
    PROVE  /\ RestartBackfill(row) \in Checkpoint
           /\ RestartBackfill(row).generation = row.generation
           /\ RestartBackfill(row).fence = row.fence + 1
           /\ RestartBackfill(row).mode = "backfill"
  <1> DEFINE a == [row EXCEPT !.chain = row.chain + 1, !.fence = row.fence + 1, !.lease = "none"]
             b == [a EXCEPT !.next_page_key = Start, !.baseline_cursor = Null,
                            !.mode = "backfill"]
             c == [b EXCEPT !.backfill_since = horizon, !.resync_required = TRUE]
  <1>1. a \in Checkpoint
    <2>1. row.chain + 1 \in Nat /\ row.fence + 1 \in Nat
      BY DEF Checkpoint
    <2> QED BY <2>1, LeaseColumns
  <1>2. b \in Checkpoint
    <2> HIDE DEF a
    <2>1. Start \in Keys \cup {Null} /\ Null \in Nat \cup {Null}
      BY KeysExist
    <2>2. 0 \in Nat
      OBVIOUS
    <2> QED BY <1>1, <2>1, <2>2, ListingColumns
  <1>3. c \in Checkpoint
    <2> HIDE DEF b
    <2>1. Null \in Nat \cup {Null}
      OBVIOUS
    <2> QED BY <1>2, <2>1, PlaceColumns
  <1>4. RestartBackfill(row) = c
    BY DEF RestartBackfill
  <1> HIDE DEF a, b, c
  <1>5. /\ RestartBackfill(row).generation = row.generation
        /\ RestartBackfill(row).fence = row.fence + 1
        /\ RestartBackfill(row).mode = "backfill"
    BY DEF RestartBackfill, Checkpoint
  <1> QED BY <1>3, <1>4, <1>5

\* The row that claim_poll goes on with is a checkpoint whose fence has not gone back.
LEMMA PreparedIsCheckpoint ==
    ASSUME MailTypeOK
    PROVE  /\ Prepared \in Checkpoint
           /\ checkpoint.generation > 0 => Prepared.fence >= checkpoint.fence
           /\ connection.generation > 0 => Prepared.generation > 0
           /\ HistoryHasCursor /\ Prepared.mode = "history" => Prepared.cursor \in Nat
  <1>1. checkpoint \in Checkpoint /\ horizon \in Nat /\ connection.generation \in Nat
        /\ runtime.epoch \in Nat
    BY MailAssumption DEF MailTypeOK
  <1>2. CASE checkpoint.generation = 0
    <2>1. Prepared = FirstCheckpoint
      BY <1>2 DEF Prepared
    <2>2. FirstCheckpoint \in Checkpoint
      BY <1>1, KeysExist DEF FirstCheckpoint, Checkpoint
    <2>3. /\ FirstCheckpoint.generation = connection.generation
          /\ FirstCheckpoint.mode = "backfill"
      BY DEF FirstCheckpoint
    <2> QED BY <1>1, <1>2, <2>1, <2>2, <2>3
  <1>3. CASE checkpoint.generation # 0 /\ checkpoint.generation # connection.generation
    <2> DEFINE row == RestartBackfill(checkpoint)
    <2>1. row \in Checkpoint /\ row.fence = checkpoint.fence + 1 /\ row.mode = "backfill"
      BY <1>1, RestartIsCheckpoint
    <2> HIDE DEF row
    <2>2. Prepared = [row EXCEPT !.generation = connection.generation, !.cursor = Null]
      BY <1>3 DEF Prepared, row
    <2>3. Prepared \in Checkpoint
      <3>1. Null \in Nat \cup {Null}
        OBVIOUS
      <3> QED BY <1>1, <2>1, <2>2, <3>1, PlaceColumns
    <2>4. /\ Prepared.fence = row.fence /\ Prepared.generation = connection.generation
          /\ Prepared.mode = row.mode
      BY <2>1, <2>2 DEF Checkpoint
    <2>5. checkpoint.fence \in Nat
      BY <1>1 DEF Checkpoint
    <2> QED BY <1>1, <2>1, <2>3, <2>4, <2>5
  <1>4. CASE /\ checkpoint.generation # 0 /\ checkpoint.generation = connection.generation
             /\ checkpoint.next_page_key = Null
    <2> DEFINE n == checkpoint.chain + 1
    <2>1. Prepared = [checkpoint EXCEPT !.chain = n, !.next_page_key = Start,
                                        !.baseline_cursor = Null]
      BY <1>4 DEF Prepared
    <2>2. n \in Nat /\ Start \in Keys \cup {Null} /\ Null \in Nat \cup {Null}
      BY <1>1, KeysExist DEF Checkpoint
    <2> HIDE DEF n
    <2>3. Prepared \in Checkpoint
      BY <1>1, <2>1, <2>2, ListingColumns
    <2>4. Prepared.fence = checkpoint.fence /\ Prepared.generation = connection.generation
          /\ Prepared.mode = checkpoint.mode /\ Prepared.cursor = checkpoint.cursor
          /\ checkpoint.fence \in Nat
      BY <1>1, <1>4, <2>1 DEF Checkpoint
    <2> QED BY <2>3, <2>4 DEF HistoryHasCursor
  <1>5. CASE /\ checkpoint.generation # 0 /\ checkpoint.generation = connection.generation
             /\ checkpoint.next_page_key # Null
    <2>1. Prepared = checkpoint /\ checkpoint.fence \in Nat
      BY <1>1, <1>5 DEF Prepared, Checkpoint
    <2> QED BY <1>1, <1>5, <2>1 DEF HistoryHasCursor
  <1> QED BY <1>2, <1>3, <1>4, <1>5

\* The row that ingest_page leaves.
LEMMA AdvancedIsCheckpoint ==
    ASSUME MailTypeOK, HistoryHasCursor, NEW page \in Page, ~NoBaseline(page)
    PROVE  /\ Advanced(page) \in Checkpoint
           /\ Advanced(page).fence = checkpoint.fence
           /\ Advanced(page).generation = checkpoint.generation
           /\ Advanced(page).mode = "history" => Advanced(page).cursor \in Nat
  <1>1. checkpoint \in Checkpoint
    BY DEF MailTypeOK
  <1>2. /\ page.next \in Keys \cup {Null} /\ page.baseline \in Nat \cup {Null}
        /\ page.final \in Nat
    BY DEF Page
  <1> DEFINE base == IF checkpoint.baseline_cursor = Null THEN page.baseline
                     ELSE checkpoint.baseline_cursor
             place == IF page.next = Null THEN CompletedCursor(page) ELSE checkpoint.cursor
             mode == IF page.next = Null THEN "history" ELSE checkpoint.mode
             lease == IF page.next = Null THEN "none" ELSE "live"
             a == [checkpoint EXCEPT !.next_page_key = page.next, !.baseline_cursor = base,
                                     !.mode = mode]
             b == [a EXCEPT !.cursor = place]
             c == [b EXCEPT !.lease = lease]
  <1>3. /\ base \in Nat \cup {Null} /\ mode \in {"backfill", "history"}
        /\ lease \in {"none", "live", "lapsed"} /\ place \in Nat \cup {Null}
    BY <1>1, <1>2 DEF CompletedCursor, Checkpoint
  <1>4. Advanced(page) = c
    BY DEF Advanced
  <1> HIDE DEF base, place, mode, lease
  <1>5. a \in Checkpoint
    BY <1>1, <1>2, <1>3, ListingColumns, 0 \in Nat
  <1> HIDE DEF a
  <1>6. b \in Checkpoint
    BY <1>3, <1>5, PlaceColumns, 0 \in Nat
  <1> HIDE DEF b
  <1>7. c \in Checkpoint
    BY <1>3, <1>6, LeaseColumns, 0 \in Nat
  <1> HIDE DEF c
  <1>8. /\ Advanced(page).fence = checkpoint.fence
        /\ Advanced(page).generation = checkpoint.generation
    BY <1>1 DEF Advanced, Checkpoint
  <1>9. Advanced(page).mode = "history" => Advanced(page).cursor \in Nat
    <2>1. /\ Advanced(page).mode = mode /\ Advanced(page).cursor = place
      BY <1>1 DEF Advanced, Checkpoint, mode, place
    <2>2. mode = "history" => place \in Nat
      BY <1>1, <1>2, MailAssumption
         DEF mode, place, CompletedCursor, Checkpoint, HistoryHasCursor, NoBaseline
    <2> QED BY <2>1, <2>2
  <1> QED BY <1>4, <1>7, <1>8, <1>9

\* What the provider answers is a page.
LEMMA AnswersArePages ==
    ASSUME MailTypeOK, HistoryHasCursor, checkpoint.next_page_key # Null
    PROVE  Answers \subseteq Page
  <1> DEFINE first == checkpoint.next_page_key = Start
             filling == checkpoint.mode = "backfill"
             since == IF filling THEN checkpoint.backfill_since ELSE checkpoint.cursor
             Listings == IF first
                         THEN {[rest |-> since + 1 .. n, upto |-> n] :
                                  n \in IF filling THEN since .. arrived ELSE {arrived}}
                         ELSE {checkpoint.next_page_key}
             Parts(l) == {x \in SUBSET l.rest :
                             Cardinality(x) <= PageLimit /\ (x = {} => l.rest = {})}
             Answer(l, x) ==
                 [key |-> checkpoint.next_page_key, expected |-> checkpoint.next_page_key,
                  next |-> IF x = l.rest THEN Null
                           ELSE [rest |-> l.rest \ x, upto |-> l.upto],
                  baseline |-> IF first /\ filling THEN l.upto ELSE Null,
                  final |-> IF filling THEN arrived ELSE l.upto,
                  mail |-> x, valid |-> TRUE]
  <1>1. SUFFICES ASSUME NEW l \in Listings, NEW x \in Parts(l) PROVE Answer(l, x) \in Page
    BY DEF Answers
  <1>2. l \in Token
    <2>1. CASE ~first
      BY <2>1 DEF MailTypeOK, Checkpoint, Keys
    <2>2. CASE first
      <3>1. PICK n \in IF filling THEN since .. arrived ELSE {arrived} :
               l = [rest |-> since + 1 .. n, upto |-> n]
        BY <2>2
      <3>2. since \in Nat /\ arrived \in Nat /\ arrived <= MaxMail
        BY MailAssumption DEF MailTypeOK, Checkpoint, HistoryHasCursor
      <3>3. n \in Nat /\ n <= MaxMail
        BY <3>1, <3>2, MailAssumption
      <3>4. since + 1 .. n \subseteq Mail
        BY <3>2, <3>3, MailAssumption DEF Mail
      <3> QED BY <3>1, <3>3, <3>4 DEF Token
    <2> QED BY <2>1, <2>2
  <1>3. x \subseteq Mail /\ l.upto \in Nat /\ l.rest \ x \subseteq Mail
    BY <1>2 DEF Token
  <1>4. checkpoint.next_page_key \in Keys /\ arrived \in Nat
    BY DEF MailTypeOK, Checkpoint
  <1>5. [rest |-> l.rest \ x, upto |-> l.upto] \in Keys
    BY <1>3 DEF Keys, Token
  <1> QED BY <1>3, <1>4, <1>5 DEF Page

-----------------------------------------------------------------------------
(* Steps *)

\* A claim keeps its meaning while the fence of the checkpoint does not go back;
\* a poller that lets go is no danger to others.
LEMMA PollersAreKept ==
    ASSUME MailTypeOK, ClaimsAreFenced, PagesAreRead,
           checkpoint' \in Checkpoint, checkpoint'.fence >= checkpoint.fence,
           checkpoint'.generation = checkpoint.generation,
           \/ poller' = poller
           \/ \E p \in Pollers : poller' = [poller EXCEPT ![p] = Idle]
    PROVE  poller' \in [Pollers -> Poller] /\ ClaimsAreFenced' /\ PagesAreRead'
  <1>1. /\ poller \in [Pollers -> Poller] /\ Idle \in Poller /\ Idle.at = "idle"
        /\ checkpoint.fence \in Nat /\ checkpoint'.fence \in Nat
    BY DEF MailTypeOK, Checkpoint, Idle, Poller
  <1>2. /\ poller' \in [Pollers -> Poller]
        /\ \A p \in Pollers : poller'[p] = poller[p] \/ poller'[p].at = "idle"
    BY <1>1
  <1>3. ClaimsAreFenced'
    BY <1>1, <1>2 DEF ClaimsAreFenced, PollClaim
  <1>4. PagesAreRead'
    BY <1>2 DEF PagesAreRead
  <1> QED BY <1>2, <1>3, <1>4

\* A step of one job, which may end in a todo.
LEMMA JobStepKeepsMailInv ==
    ASSUME MailInv, NEW m \in Mail, NEW row \in Job, UNCHANGED rest,
           work' = [work EXCEPT ![m] = row],
           row.lease # "none" <=> row.state = "running",
           row.state \in Unfinished =>
               work[m].state \in Unfinished /\ row.generation = work[m].generation
               /\ row.epoch = work[m].epoch,
           \/ todos' = todos /\ work[m].state # "succeeded"
           \/ /\ work[m].state \in Unfinished /\ row.state = "succeeded"
              /\ \E made \in 0 .. 1 : todos' = [todos EXCEPT ![m] = todos[m] + made]
    PROVE  MailInv'
  <1>1. work \in [Mail -> Job] /\ todos \in [Mail -> Nat]
    BY DEF MailInv, MailTypeOK
  <1>2. /\ work' \in [Mail -> Job] /\ work'[m] = row
        /\ \A k \in Mail \ {m} : work'[k] = work[k]
    BY <1>1
  <1>3. todos' \in [Mail -> Nat] /\ \A k \in Mail \ {m} : todos'[k] = todos[k]
    BY <1>1
  <1>4. MailTypeOK'
    BY <1>2, <1>3 DEF MailInv, MailTypeOK, rest
  <1>5. ClaimsAreFenced' /\ PagesAreRead' /\ HistoryHasCursor' /\ ActiveWasConnected'
    BY DEF MailInv, ClaimsAreFenced, PagesAreRead, HistoryHasCursor, ActiveWasConnected, rest
  <1>6. NothingRevokedRuns'
    BY <1>2 DEF MailInv, NothingRevokedRuns, rest
  <1>7. TodosAreSettled'
    <2>1. \A k \in Mail \ {m} :
             todos'[k] = 0 \/ (todos'[k] = 1 /\ work'[k].state = "succeeded")
      BY <1>2, <1>3 DEF MailInv, TodosAreSettled
    <2>2. todos'[m] = 0 \/ (todos'[m] = 1 /\ work'[m].state = "succeeded")
      <3>1. CASE todos' = todos /\ work[m].state # "succeeded"
        BY <3>1 DEF MailInv, TodosAreSettled
      <3>2. CASE /\ work[m].state \in Unfinished /\ row.state = "succeeded"
                 /\ \E made \in 0 .. 1 : todos' = [todos EXCEPT ![m] = todos[m] + made]
        <4>1. todos[m] = 0
          BY <3>2 DEF MailInv, TodosAreSettled, Unfinished, Waiting
        <4> QED BY <1>1, <1>2, <3>2, <4>1
      <3> QED BY <3>1, <3>2
    <2> QED BY <2>1, <2>2 DEF TodosAreSettled
  <1> QED BY <1>4, <1>5, <1>6, <1>7 DEF MailInv

\* Any job that is not settled yet may be closed.
LEMMA CloseKeepsMailInv ==
    ASSUME MailInv, NEW m \in Mail, UNCHANGED <<rest, todos>>, work[m].state \in ACTIVE,
           NEW target \in {"succeeded", "failed", "cancelled", "expired", "retry_pending"},
           target = "retry_pending" => work[m].state \in Unfinished,
           Close(m, target)
    PROVE  MailInv'
  <1>1. work[m] \in Job
    BY DEF MailInv, MailTypeOK
  <1> DEFINE row == Closed(work[m], target)
  <1>2. /\ row \in Job /\ row.state = target /\ row.lease = "none"
        /\ row.generation = work[m].generation /\ row.epoch = work[m].epoch
    BY <1>1, ClosedIsJob DEF ACTIVE, Unfinished, Waiting
  <1>3. work' = [work EXCEPT ![m] = row]
    BY DEF Close
  <1> HIDE DEF row
  <1>4. work[m].state # "succeeded"
    BY DEF ACTIVE, Unfinished, Waiting
  <1>5. row.state \in Unfinished => work[m].state \in Unfinished
    BY <1>2 DEF Unfinished, Waiting
  <1>6. row.lease # "none" <=> row.state = "running"
    BY <1>2
  <1> QED BY <1>2, <1>3, <1>4, <1>5, <1>6, JobStepKeepsMailInv

\* All unfinished jobs are closed at once, by a revocation or a restore.
LEMMA ClosingUnfinished ==
    ASSUME MailInv, NEW target \in {"cancelled", "needs_reconciliation"},
           work' = [m \in Mail |-> IF work[m].state \in Unfinished
                                   THEN Closed(work[m], target) ELSE work[m]],
           UNCHANGED todos
    PROVE  /\ work' \in [Mail -> Job]
           /\ \A m \in Mail : work'[m].lease # "none" <=> work'[m].state = "running"
           /\ \A m \in Mail : work'[m].state \notin Unfinished
           /\ TodosAreSettled'
  <1>1. \A m \in Mail : work[m] \in Job /\ (work[m].lease # "none" <=> work[m].state = "running")
    BY DEF MailInv, MailTypeOK
  <1>2. ASSUME NEW m \in Mail
        PROVE  /\ work'[m] \in Job
               /\ work'[m].lease # "none" <=> work'[m].state = "running"
               /\ work'[m].state \notin Unfinished
               /\ work[m].state = "succeeded" => work'[m].state = "succeeded"
    <2>1. CASE work[m].state \in Unfinished
      <3>1. work'[m] = Closed(work[m], target)
        BY <2>1
      <3>2. /\ Closed(work[m], target) \in Job /\ Closed(work[m], target).state = target
            /\ Closed(work[m], target).lease = "none"
        BY <1>1, ClosedIsJob DEF ACTIVE
      <3> QED BY <2>1, <3>1, <3>2 DEF Unfinished, Waiting
    <2>2. CASE work[m].state \notin Unfinished
      BY <1>1, <2>2
    <2> QED BY <2>1, <2>2
  <1>3. work' \in [Mail -> Job]
    <2>1. work' = [m \in Mail |-> work'[m]]
      OBVIOUS
    <2> QED BY <1>2, <2>1
  <1>4. TodosAreSettled'
    BY <1>2 DEF MailInv, TodosAreSettled
  <1> QED BY <1>2, <1>3, <1>4

-----------------------------------------------------------------------------
(* Connections and the operator *)

\* A connection or disconnection leaves no unfinished job.
LEMMA ConnectionKeepsMailInv ==
    ASSUME MailInv, Connect \/ Disconnect
    PROVE  MailInv'
  <1>1. /\ work' = RevokeWork
        /\ connection' \in [generation : Nat, active : BOOLEAN]
        /\ connection'.generation > 0
        /\ blamed' \in BOOLEAN
        /\ UNCHANGED <<runtime, owner, checkpoint, receipts, events, todos, poller,
                       arrived, horizon, faults>>
    <2>1. blamed' \in BOOLEAN
      <3>1. CASE Connect
        BY <3>1, Zenon DEF Connect
      <3>2. CASE Disconnect
        BY <3>2 DEF Disconnect, MailInv, MailTypeOK
      <3> QED BY <3>1, <3>2
    <2>2. connection.generation \in Nat
      BY DEF MailInv, MailTypeOK
    <2>3. connection' \in [generation : Nat, active : BOOLEAN] /\ connection'.generation > 0
      <3>1. \E b \in BOOLEAN :
               connection' = [generation |-> connection.generation + 1, active |-> b]
        BY Zenon DEF Connect, Disconnect
      <3> QED BY <2>2, <3>1
    <2>4. /\ work' = RevokeWork
          /\ UNCHANGED <<runtime, owner, checkpoint, receipts, events, todos, poller,
                         arrived, horizon, faults>>
      BY DEF Connect, Disconnect
    <2> QED BY <2>1, <2>3, <2>4
  <1>2. /\ work' \in [Mail -> Job]
        /\ \A m \in Mail : work'[m].lease # "none" <=> work'[m].state = "running"
        /\ \A m \in Mail : work'[m].state \notin Unfinished
        /\ TodosAreSettled'
    <2>1. work' = [m \in Mail |-> IF work[m].state \in Unfinished
                                  THEN Closed(work[m], "cancelled") ELSE work[m]]
      BY <1>1 DEF RevokeWork
    <2> QED BY <1>1, <2>1, ClosingUnfinished
  <1>3. MailTypeOK'
    BY <1>1, <1>2 DEF MailInv, MailTypeOK
  <1>4. ClaimsAreFenced' /\ PagesAreRead' /\ HistoryHasCursor' /\ ActiveWasConnected'
    BY <1>1 DEF MailInv, ClaimsAreFenced, PagesAreRead, HistoryHasCursor, ActiveWasConnected
  <1>5. NothingRevokedRuns'
    BY <1>2 DEF NothingRevokedRuns
  <1> QED BY <1>2, <1>3, <1>4, <1>5 DEF MailInv

\* A restore leaves no unfinished job, and takes the lease from every poller.
LEMMA RestoreKeepsMailInv ==
    ASSUME MailInv, BeginRestore
    PROVE  MailInv'
  <1>1. /\ runtime' \in [epoch : 1 .. MaxEpoch, enabled : BOOLEAN]
        /\ UNCHANGED <<owner, connection, receipts, events, todos, poller,
                       arrived, horizon, faults, blamed>>
    BY MailAssumption DEF BeginRestore, MailInv, MailTypeOK
  <1>2. /\ work' \in [Mail -> Job]
        /\ \A m \in Mail : work'[m].lease # "none" <=> work'[m].state = "running"
        /\ \A m \in Mail : work'[m].state \notin Unfinished
        /\ TodosAreSettled'
    BY <1>1, ClosingUnfinished DEF BeginRestore
  <1>3. checkpoint \in Checkpoint /\ checkpoint.fence \in Nat
    BY DEF MailInv, MailTypeOK, Checkpoint
  <1> DEFINE f == checkpoint.fence + 1
  <1>4. checkpoint' = [checkpoint EXCEPT !.lease = "none", !.fence = f] /\ f \in Nat
    BY <1>3 DEF BeginRestore
  <1>5. checkpoint'.fence > checkpoint.fence
    BY <1>3, <1>4 DEF Checkpoint
  <1> HIDE DEF f
  <1>6. checkpoint' \in Checkpoint
    BY <1>3, <1>4, LeaseColumns, 0 \in Nat
  <1>7. /\ checkpoint'.generation = checkpoint.generation
        /\ checkpoint'.mode = checkpoint.mode /\ checkpoint'.cursor = checkpoint.cursor
    BY <1>3, <1>4 DEF Checkpoint
  <1>8. poller' \in [Pollers -> Poller] /\ ClaimsAreFenced' /\ PagesAreRead'
    <2>1. checkpoint'.fence >= checkpoint.fence
      BY <1>3, <1>5, <1>6 DEF Checkpoint
    <2> QED BY <1>1, <1>6, <1>7, <2>1, PollersAreKept DEF MailInv
  <1>9. MailTypeOK'
    BY <1>1, <1>2, <1>6, <1>8 DEF MailInv, MailTypeOK
  <1>10. HistoryHasCursor' /\ ActiveWasConnected'
    BY <1>1, <1>7 DEF MailInv, HistoryHasCursor, ActiveWasConnected
  <1>11. NothingRevokedRuns'
    BY <1>2 DEF NothingRevokedRuns
  <1> QED BY <1>2, <1>8, <1>9, <1>10, <1>11 DEF MailInv

\* What changes neither the checkpoint nor the jobs nor the pollers.
LEMMA OutsideKeepsMailInv ==
    ASSUME MailInv, Resume \/ DisableOwner \/ Arrive \/ Age
    PROVE  MailInv'
  <1>1. /\ UNCHANGED <<connection, checkpoint, receipts, events, work, todos, poller,
                       faults, blamed>>
        /\ runtime'.epoch = runtime.epoch /\ (runtime.enabled => runtime'.enabled)
    BY DEF Resume, DisableOwner, Arrive, Age, MailInv, MailTypeOK
  <1>2. /\ runtime' \in [epoch : 1 .. MaxEpoch, enabled : BOOLEAN] /\ owner' \in BOOLEAN
        /\ arrived' \in 0 .. MaxMail /\ horizon' \in 0 .. arrived'
    <2>1. CASE Resume
      BY <2>1 DEF Resume, MailInv, MailTypeOK
    <2>2. CASE DisableOwner
      BY <2>2 DEF DisableOwner, MailInv, MailTypeOK
    <2>3. CASE Arrive
      BY <2>3, MailAssumption DEF Arrive, MailInv, MailTypeOK
    <2>4. CASE Age
      BY <2>4, MailAssumption DEF Age, MailInv, MailTypeOK
    <2> QED BY <2>1, <2>2, <2>3, <2>4
  <1>3. MailTypeOK'
    BY <1>1, <1>2 DEF MailInv, MailTypeOK
  <1>4. ClaimsAreFenced' /\ PagesAreRead' /\ HistoryHasCursor' /\ ActiveWasConnected'
    BY <1>1 DEF MailInv, ClaimsAreFenced, PagesAreRead, HistoryHasCursor, ActiveWasConnected
  <1>5. NothingRevokedRuns' /\ TodosAreSettled'
    BY <1>1 DEF MailInv, NothingRevokedRuns, TodosAreSettled
  <1> QED BY <1>3, <1>4, <1>5 DEF MailInv

-----------------------------------------------------------------------------
(* Polls *)

\* A claim gets a fence above that of every other poller.
LEMMA ClaimPollKeepsMailInv ==
    ASSUME MailInv, NEW p \in Pollers, ClaimPoll(p)
    PROVE  MailInv'
  <1>1. /\ checkpoint \in Checkpoint /\ poller \in [Pollers -> Poller]
        /\ runtime.epoch \in Nat
        /\ connection.generation > 0 /\ connection.generation \in Nat
    BY MailAssumption DEF MailInv, MailTypeOK, ClaimPoll, ActiveWasConnected
  <1>2. /\ Prepared \in Checkpoint
        /\ checkpoint.generation > 0 => Prepared.fence >= checkpoint.fence
        /\ Prepared.generation > 0
        /\ Prepared.mode = "history" => Prepared.cursor \in Nat
    BY <1>1, PreparedIsCheckpoint DEF MailInv
  <1> DEFINE f == Prepared.fence + 1  e == runtime.epoch
  <1>3. f \in Nat /\ e \in Nat /\ f > Prepared.fence /\ Prepared.fence \in Nat
    BY <1>1, <1>2 DEF Checkpoint
  <1>4. checkpoint' = [Prepared EXCEPT !.fence = f, !.epoch = e, !.lease = "live"]
    BY DEF ClaimPoll, NextFence
  <1> HIDE DEF f, e
  <1>5. checkpoint' \in Checkpoint
    BY <1>2, <1>3, <1>4, LeaseColumns
  <1>6. /\ checkpoint'.fence = f /\ checkpoint'.generation = Prepared.generation
        /\ checkpoint'.mode = Prepared.mode /\ checkpoint'.cursor = Prepared.cursor
    BY <1>2, <1>4 DEF Checkpoint
  <1> DEFINE claim == [generation |-> checkpoint'.generation, fence |-> checkpoint'.fence,
                       epoch |-> checkpoint'.epoch, chain |-> checkpoint'.chain]
             row == [at |-> "claimed", page |-> Null, claim |-> claim]
  <1>7. poller' = [poller EXCEPT ![p] = row] /\ row.at = "claimed" /\ row.claim = claim
    BY DEF ClaimPoll
  <1>8. claim \in PollClaim /\ claim.fence = f
    BY <1>5, <1>6 DEF Checkpoint, PollClaim
  <1> HIDE DEF claim
  <1>9. row \in Poller
    BY <1>8 DEF Poller
  <1> HIDE DEF row
  <1>10. /\ poller' \in [Pollers -> Poller] /\ poller'[p] = row
         /\ \A q \in Pollers \ {p} : poller'[q] = poller[q]
    BY <1>1, <1>7, <1>9
  <1>11. ClaimsAreFenced'
    <2>1. ASSUME NEW q \in Pollers, poller[q].at # "idle"
          PROVE  poller[q].claim \in PollClaim /\ poller[q].claim.fence < f
      <3>1. /\ poller[q].claim \in PollClaim /\ checkpoint.generation > 0
            /\ poller[q].claim.fence <= checkpoint.fence
        BY <2>1 DEF MailInv, ClaimsAreFenced
      <3> QED BY <1>1, <1>2, <1>3, <3>1 DEF PollClaim, Checkpoint
    <2>2. ASSUME NEW q \in Pollers, poller'[q].at # "idle"
          PROVE  /\ poller'[q].claim \in PollClaim
                 /\ checkpoint'.generation > 0
                 /\ poller'[q].claim.fence <= checkpoint'.fence
      <3>1. CASE q = p
        BY <1>2, <1>3, <1>6, <1>7, <1>8, <1>10, <3>1
      <3>2. CASE q # p
        <4>1. poller[q].claim \in PollClaim /\ poller[q].claim.fence < f
          BY <1>10, <2>1, <2>2, <3>2
        <4> QED BY <1>2, <1>3, <1>6, <1>10, <3>2, <4>1 DEF PollClaim
      <3> QED BY <3>1, <3>2
    <2>3. ASSUME NEW q \in Pollers, NEW r \in Pollers, q # r,
                 poller'[q].at # "idle", poller'[r].at # "idle"
          PROVE  poller'[r].claim.fence # poller'[q].claim.fence
      <3>1. CASE q = p
        BY <1>3, <1>7, <1>8, <1>10, <2>1, <2>3, <3>1 DEF PollClaim
      <3>2. CASE r = p
        BY <1>3, <1>7, <1>8, <1>10, <2>1, <2>3, <3>2 DEF PollClaim
      <3>3. CASE q # p /\ r # p
        BY <1>10, <2>3, <3>3 DEF MailInv, ClaimsAreFenced
      <3> QED BY <3>1, <3>2, <3>3
    <2> QED BY <2>2, <2>3 DEF ClaimsAreFenced
  <1>12. PagesAreRead'
    BY <1>7, <1>10 DEF MailInv, PagesAreRead
  <1>13. MailTypeOK'
    BY <1>5, <1>10 DEF ClaimPoll, MailInv, MailTypeOK
  <1>14. HistoryHasCursor' /\ ActiveWasConnected' /\ NothingRevokedRuns' /\ TodosAreSettled'
    BY <1>2, <1>6 DEF ClaimPoll, MailInv, HistoryHasCursor, ActiveWasConnected,
                      NothingRevokedRuns, TodosAreSettled
  <1> QED BY <1>11, <1>12, <1>13, <1>14 DEF MailInv

\* A wrong answer is a page, too.
LEMMA DistortedArePages ==
    ASSUME NEW answer \in Page PROVE Distorted(answer) \subseteq Page
  <1>1. [rest |-> {}, upto |-> 0] \in Keys
    BY DEF Keys, Token
  <1> DEFINE nowhere == [rest |-> {}, upto |-> 0]
  <1>2. answer.expected \in Keys /\ 0 \in Nat
    BY DEF Page
  <1>3. /\ [answer EXCEPT !.valid = FALSE] \in Page
        /\ [answer EXCEPT !.expected = nowhere] \in Page
        /\ [answer EXCEPT !.next = answer.expected] \in Page
        /\ [answer EXCEPT !.baseline = 0] \in Page
        /\ [answer EXCEPT !.baseline = Null] \in Page
    <2> HIDE DEF nowhere
    <2>1. nowhere \in Keys
      BY <1>1 DEF nowhere
    <2> QED BY <1>2, <2>1, Zenon DEF Page
  <1> QED BY <1>3 DEF Distorted

\* An answer, right or wrong, only fills in the page of a poller.
LEMMA FetchKeepsMailInv ==
    ASSUME MailInv, NEW p \in Pollers, Fetch(p) \/ FetchWrong(p)
    PROVE  MailInv'
  <1>1. /\ poller[p].at = "claimed" /\ faults' \in 0 .. MaxFaults /\ blamed' \in BOOLEAN
        /\ UNCHANGED <<runtime, owner, connection, checkpoint, receipts, events, work, todos,
                       arrived, horizon>>
    <2>1. CASE Fetch(p)
      BY <2>1 DEF Fetch, MailInv, MailTypeOK
    <2>2. CASE FetchWrong(p)
      <3>1. faults \in 0 .. MaxFaults
        BY DEF MailInv, MailTypeOK
      <3>2. faults' \in 0 .. MaxFaults
        BY <2>2, <3>1, MailAssumption DEF FetchWrong
      <3>3. blamed' = TRUE
        BY <2>2 DEF FetchWrong
      <3> QED BY <2>2, <3>2, <3>3 DEF FetchWrong
    <2> QED BY <2>1, <2>2
  <1>2. Answers \subseteq Page
    BY AnswersArePages DEF MailInv, Fetch, FetchWrong
  <1>3. PICK page \in Page :
           poller' = [poller EXCEPT ![p].at = "paged", ![p].page = page]
    <2>1. CASE Fetch(p)
      BY <1>2, <2>1 DEF Fetch
    <2>2. CASE FetchWrong(p)
      BY <1>2, <2>2, DistortedArePages DEF FetchWrong
    <2> QED BY <2>1, <2>2
  <1> DEFINE row == [poller[p] EXCEPT !.at = "paged", !.page = page]
  <1>4. poller \in [Pollers -> Poller] /\ poller' = [poller EXCEPT ![p] = row]
    BY <1>3 DEF MailInv, MailTypeOK
  <1>5. row \in Poller /\ row.claim = poller[p].claim /\ row.page = page /\ row.at = "paged"
    BY <1>4 DEF Poller
  <1> HIDE DEF row
  <1>6. /\ poller' \in [Pollers -> Poller] /\ poller'[p] = row
        /\ \A q \in Pollers \ {p} : poller'[q] = poller[q]
    BY <1>4, <1>5
  <1>7. \A q \in Pollers : /\ poller'[q].claim = poller[q].claim
                           /\ poller'[q].at # "idle" => poller[q].at # "idle"
    BY <1>1, <1>5, <1>6
  <1>8. ClaimsAreFenced'
    BY <1>1, <1>7 DEF MailInv, ClaimsAreFenced
  <1>9. PagesAreRead'
    BY <1>5, <1>6 DEF MailInv, PagesAreRead
  <1>10. MailTypeOK'
    BY <1>1, <1>6 DEF MailInv, MailTypeOK
  <1>11. HistoryHasCursor' /\ ActiveWasConnected' /\ NothingRevokedRuns' /\ TodosAreSettled'
    BY <1>1 DEF MailInv, HistoryHasCursor, ActiveWasConnected,
                NothingRevokedRuns, TodosAreSettled
  <1> QED BY <1>8, <1>9, <1>10, <1>11 DEF MailInv

\* What ends a poll, or goes on with it, without touching jobs and todos.
LEMMA PollKeepsMailInv ==
    ASSUME MailInv,
           checkpoint' \in Checkpoint, checkpoint'.fence >= checkpoint.fence,
           checkpoint'.generation = checkpoint.generation,
           checkpoint'.mode = "history" => checkpoint'.cursor \in Nat,
           poller' = poller \/ \E p \in Pollers : poller' = [poller EXCEPT ![p] = Idle],
           faults' \in 0 .. MaxFaults, blamed' \in BOOLEAN,
           UNCHANGED <<runtime, owner, connection, receipts, events, work, todos,
                       arrived, horizon>>
    PROVE  MailInv'
  <1>1. poller' \in [Pollers -> Poller] /\ ClaimsAreFenced' /\ PagesAreRead'
    BY PollersAreKept DEF MailInv
  <1>2. MailTypeOK'
    BY <1>1 DEF MailInv, MailTypeOK
  <1>3. HistoryHasCursor' /\ ActiveWasConnected' /\ NothingRevokedRuns' /\ TodosAreSettled'
    BY DEF MailInv, HistoryHasCursor, ActiveWasConnected, NothingRevokedRuns, TodosAreSettled
  <1> QED BY <1>1, <1>2, <1>3 DEF MailInv

\* Giving up, dropping a page and a lapse leave the place of the mailbox as it is.
LEMMA FruitlessPollKeepsMailInv ==
    ASSUME MailInv,
           \/ LapsePoll
           \/ \E p \in Pollers : GiveUp(p) \/ DropPage(p)
    PROVE  MailInv'
  <1>1. /\ checkpoint \in Checkpoint /\ faults \in 0 .. MaxFaults /\ blamed \in BOOLEAN
        /\ checkpoint.fence >= checkpoint.fence
    BY DEF MailInv, MailTypeOK, Checkpoint
  <1>2. CASE LapsePoll
    <2>1. checkpoint' = [checkpoint EXCEPT !.lease = "lapsed"]
      BY <1>2 DEF LapsePoll
    <2>2. checkpoint' \in Checkpoint
      BY <1>1, <2>1, LeaseColumns, 0 \in Nat
    <2>3. /\ checkpoint'.fence = checkpoint.fence
          /\ checkpoint'.generation = checkpoint.generation
          /\ checkpoint'.mode = checkpoint.mode /\ checkpoint'.cursor = checkpoint.cursor
      BY <1>1, <2>1 DEF Checkpoint
    <2>4. faults' \in 0 .. MaxFaults
      BY <1>1, <1>2, MailAssumption DEF LapsePoll
    <2>5. UNCHANGED <<runtime, owner, connection, receipts, events, work, todos, poller,
                      arrived, horizon, blamed>>
      BY <1>2 DEF LapsePoll
    <2>6. checkpoint'.mode = "history" => checkpoint'.cursor \in Nat
      BY <2>3 DEF MailInv, HistoryHasCursor
    <2> QED BY <1>1, <2>2, <2>3, <2>4, <2>5, <2>6, PollKeepsMailInv
  <1>3. CASE \E p \in Pollers : GiveUp(p) \/ DropPage(p)
    <2>1. PICK p \in Pollers : GiveUp(p) \/ DropPage(p)
      BY <1>3
    <2>2. faults' \in 0 .. MaxFaults
      BY <1>1, <2>1, MailAssumption DEF GiveUp, DropPage
    <2>3. /\ poller' = [poller EXCEPT ![p] = Idle]
          /\ UNCHANGED <<runtime, owner, connection, checkpoint, receipts, events, work,
                         todos, arrived, horizon, blamed>>
      BY <2>1 DEF GiveUp, DropPage
    <2>4. checkpoint'.mode = "history" => checkpoint'.cursor \in Nat
      BY <2>3 DEF MailInv, HistoryHasCursor
    <2> QED BY <1>1, <2>2, <2>3, <2>4, PollKeepsMailInv
  <1> QED BY <1>2, <1>3

\* A resync, asked for or forced by a page token, opens a new chain.
LEMMA RestartKeepsMailInv ==
    ASSUME MailInv, NEW p \in Pollers, Resync(p) \/ RestartOnPage(p)
    PROVE  MailInv'
  <1>1. /\ checkpoint \in Checkpoint /\ checkpoint.fence \in Nat /\ horizon \in Nat
        /\ faults \in 0 .. MaxFaults
    BY MailAssumption DEF MailInv, MailTypeOK, Checkpoint
  <1>2. checkpoint' = checkpoint \/ checkpoint' = RestartBackfill(checkpoint)
    BY DEF Resync, RestartOnPage
  <1>3. /\ checkpoint' \in Checkpoint /\ checkpoint'.fence >= checkpoint.fence
        /\ checkpoint'.generation = checkpoint.generation
        /\ checkpoint'.mode = "history" => checkpoint'.cursor \in Nat
    <2>1. CASE checkpoint' = checkpoint
      BY <1>1, <2>1 DEF MailInv, HistoryHasCursor
    <2>2. CASE checkpoint' = RestartBackfill(checkpoint)
      BY <1>1, <2>2, RestartIsCheckpoint
    <2> QED BY <1>2, <2>1, <2>2
  <1>4. faults' \in 0 .. MaxFaults /\ blamed' \in BOOLEAN
    <2>1. CASE Resync(p)
      BY <1>1, <2>1, MailAssumption DEF Resync
    <2>2. CASE RestartOnPage(p)
      BY <2>2 DEF RestartOnPage, MailInv, MailTypeOK
    <2> QED BY <2>1, <2>2
  <1>5. /\ poller' = [poller EXCEPT ![p] = Idle]
        /\ UNCHANGED <<runtime, owner, connection, receipts, events, work, todos,
                       arrived, horizon>>
    BY DEF Resync, RestartOnPage
  <1> QED BY <1>3, <1>4, <1>5, PollKeepsMailInv

\* A page is committed with the jobs of its mail.
LEMMA IngestKeepsMailInv ==
    ASSUME MailInv, NEW p \in Pollers, IngestPage(p)
    PROVE  MailInv'
  <1> DEFINE claim == poller[p].claim  page == poller[p].page
  <1>1. /\ page \in Page /\ claim \in PollClaim
        /\ AuthorizedPoll(claim) /\ ~NoBaseline(page)
        /\ work' = Queued(claim, page) /\ events' = events \cup page.mail
        /\ receipts' = receipts \cup {<<claim.chain, page.key>>}
        /\ checkpoint' = Advanced(page)
        /\ UNCHANGED <<runtime, owner, connection, todos, arrived, horizon, blamed>>
    BY DEF IngestPage, MailInv, PagesAreRead, ClaimsAreFenced
  <1>2. /\ faults' \in 0 .. MaxFaults
        /\ poller' = poller \/ poller' = [poller EXCEPT ![p] = Idle]
    BY MailAssumption DEF IngestPage, MailInv, MailTypeOK
  <1> HIDE DEF claim, page
  <1>3. /\ checkpoint' \in Checkpoint /\ checkpoint'.fence = checkpoint.fence
        /\ checkpoint'.generation = checkpoint.generation
        /\ checkpoint'.mode = "history" => checkpoint'.cursor \in Nat
        /\ checkpoint'.fence >= checkpoint.fence
    BY <1>1, AdvancedIsCheckpoint DEF MailInv, MailTypeOK, Checkpoint
  <1>4. poller' \in [Pollers -> Poller] /\ ClaimsAreFenced' /\ PagesAreRead'
    BY <1>2, <1>3, PollersAreKept DEF MailInv
  <1> DEFINE new == [state |-> "queued", generation |-> claim.generation,
                     epoch |-> claim.epoch, fence |-> 0, lease |-> "none", expired |-> FALSE]
  <1>5. /\ new \in Job /\ new.state = "queued" /\ new.lease = "none"
        /\ new.generation = connection.generation /\ new.epoch = runtime.epoch
        /\ connection.active /\ runtime.enabled
    BY <1>1 DEF Job, ACTIVE, Unfinished, Waiting, PollClaim, AuthorizedPoll
  <1>6. \A m \in Mail : \/ work'[m] = work[m]
                        \/ work'[m] = new /\ work[m].state = "none"
    BY <1>1 DEF Queued, NewMail
  <1>7. work' \in [Mail -> Job]
    <2>1. \A m \in Mail : work'[m] \in Job
      BY <1>5, <1>6 DEF MailInv, MailTypeOK
    <2>2. work' = [m \in Mail |-> work'[m]]
      BY <1>1 DEF Queued
    <2> QED BY <2>1, <2>2
  <1> HIDE DEF new
  <1>8. \A m \in Mail : work'[m].lease # "none" <=> work'[m].state = "running"
    BY <1>5, <1>6 DEF MailInv, MailTypeOK
  <1>9. events' \subseteq Mail /\ receipts' \subseteq Nat \X Keys
    BY <1>1 DEF MailInv, MailTypeOK, Page, PollClaim
  <1>10. MailTypeOK'
    BY <1>1, <1>2, <1>3, <1>4, <1>7, <1>8, <1>9 DEF MailInv, MailTypeOK
  <1>11. HistoryHasCursor' /\ ActiveWasConnected'
    BY <1>1, <1>3 DEF MailInv, HistoryHasCursor, ActiveWasConnected
  <1>12. NothingRevokedRuns'
    BY <1>1, <1>5, <1>6 DEF MailInv, NothingRevokedRuns
  <1>13. TodosAreSettled'
    BY <1>1, <1>5, <1>6 DEF MailInv, TodosAreSettled
  <1> QED BY <1>4, <1>10, <1>11, <1>12, <1>13 DEF MailInv

-----------------------------------------------------------------------------
(* Jobs *)

\* The steps that change a lease or a deadline, or begin an attempt.
LEMMA LeaseStepKeepsMailInv ==
    ASSUME MailInv, NEW m \in Mail, StartJob(m) \/ LapseJob(m) \/ ExpireJob(m)
    PROVE  MailInv'
  <1>1. work[m] \in Job /\ (work[m].lease # "none" <=> work[m].state = "running")
        /\ work \in [Mail -> Job]
    BY DEF MailInv, MailTypeOK
  <1>2. PICK row \in Job :
           /\ work' = [work EXCEPT ![m] = row]
           /\ row.lease # "none" <=> row.state = "running"
           /\ row.state \in Unfinished => work[m].state \in Unfinished
           /\ row.generation = work[m].generation /\ row.epoch = work[m].epoch
           /\ work[m].state \in Unfinished
    <2>1. CASE StartJob(m)
      <3> DEFINE f == work[m].fence + 1
                 row == [work[m] EXCEPT !.state = "running", !.lease = "live", !.fence = f]
      <3>1. f \in Nat
        BY <1>1 DEF Job
      <3>2. work' = [work EXCEPT ![m] = row] /\ work[m].state \in Unfinished
        BY <2>1 DEF StartJob, Unfinished
      <3> HIDE DEF f
      <3>3. row \in Job
        BY <1>1, <3>1, Zenon DEF Job, ACTIVE, Unfinished
      <3>4. /\ row.lease = "live" /\ row.state = "running"
            /\ row.generation = work[m].generation /\ row.epoch = work[m].epoch
        BY <1>1 DEF Job
      <3> HIDE DEF row
      <3> QED BY <3>2, <3>3, <3>4
    <2>2. CASE LapseJob(m)
      <3> DEFINE row == [work[m] EXCEPT !.lease = "lapsed"]
      <3>1. work' = [work EXCEPT ![m] = row] /\ work[m].state = "running"
        BY <1>1, <2>2 DEF LapseJob
      <3>2. row \in Job /\ row.lease = "lapsed" /\ row.state = work[m].state
            /\ row.generation = work[m].generation /\ row.epoch = work[m].epoch
        BY <1>1 DEF Job
      <3> HIDE DEF row
      <3> QED BY <3>1, <3>2 DEF Unfinished
    <2>3. CASE ExpireJob(m)
      <3> DEFINE l == IF work[m].state = "running" THEN "lapsed" ELSE "none"
                 row == [work[m] EXCEPT !.expired = TRUE, !.lease = l]
      <3>1. work' = [work EXCEPT ![m] = row] /\ work[m].state \in Unfinished
        BY <2>3 DEF ExpireJob
      <3>2. /\ l \in {"none", "lapsed"}
            /\ l # "none" <=> work[m].state = "running"
        OBVIOUS
      <3> HIDE DEF l
      <3>3. row \in Job
        BY <1>1, <3>2, Zenon DEF Job
      <3>4. /\ row.lease = l /\ row.state = work[m].state
            /\ row.generation = work[m].generation /\ row.epoch = work[m].epoch
        BY <1>1 DEF Job
      <3> HIDE DEF row
      <3> QED BY <3>1, <3>2, <3>3, <3>4
    <2> QED BY <2>1, <2>2, <2>3
  <1>3. UNCHANGED <<rest, todos>>
    BY DEF StartJob, LapseJob, ExpireJob
  <1>4. work[m].state # "succeeded"
    BY <1>2 DEF Unfinished, Waiting
  <1> QED BY <1>2, <1>3, <1>4, JobStepKeepsMailInv

\* The steps that end an attempt or a job without a todo.
LEMMA EndStepKeepsMailInv ==
    ASSUME MailInv, NEW m \in Mail,
           \/ RefuseJob(m) \/ CancelJob(m) \/ SweepJob(m) \/ Reconcile(m)
           \/ \E f \in 1 .. MaxAttempts : FailJob(m, f)
    PROVE  MailInv'
  <1>1. UNCHANGED <<rest, todos>>
    BY DEF RefuseJob, CancelJob, SweepJob, Reconcile, FailJob
  <1>2. PICK target \in {"succeeded", "failed", "cancelled", "expired", "retry_pending"} :
           /\ Close(m, target)
           /\ work[m].state \in ACTIVE
           /\ target = "retry_pending" => work[m].state \in Unfinished
    BY DEF RefuseJob, CancelJob, SweepJob, Reconcile, FailJob, RetryOrFail, Authorized,
           ACTIVE, Unfinished
  <1> QED BY <1>1, <1>2, CloseKeepsMailInv

\* A generation ends its job with a todo or without.
LEMMA GenerationKeepsMailInv ==
    ASSUME MailInv, NEW m \in Mail, NEW f \in 1 .. MaxAttempts, RecordGeneration(m, f)
    PROVE  MailInv'
  <1>1. work[m] \in Job /\ work[m].state \in Unfinished
    BY DEF RecordGeneration, Authorized, MailInv, MailTypeOK, Unfinished
  <1> DEFINE row == Closed(work[m], "succeeded")
  <1>2. row \in Job /\ row.state = "succeeded" /\ row.lease = "none"
    BY <1>1, ClosedIsJob
  <1>3. /\ work' = [work EXCEPT ![m] = row] /\ UNCHANGED rest
        /\ \E made \in 0 .. 1 : todos' = [todos EXCEPT ![m] = todos[m] + made]
    BY DEF RecordGeneration, Close
  <1> HIDE DEF row
  <1>4. /\ row.lease # "none" <=> row.state = "running"
        /\ row.state \notin Unfinished
    BY <1>2 DEF Unfinished, Waiting
  <1> QED BY <1>1, <1>2, <1>3, <1>4, JobStepKeepsMailInv

-----------------------------------------------------------------------------
(* Theorems *)

\* The invariant holds before the first connect.
LEMMA InitHasMailInv == ASSUME MailInit PROVE MailInv
  <1>1. MailTypeOK
    <2>1. checkpoint \in Checkpoint
      BY KeysExist DEF MailInit, Checkpoint
    <2>2. \A m \in Mail : work[m].lease = "none" /\ work[m].state = "none"
      BY DEF MailInit
    <2>3. work \in [Mail -> Job] /\ todos \in [Mail -> Nat]
      BY DEF MailInit, Job
    <2>4. poller \in [Pollers -> Poller]
      BY DEF MailInit, Poller, Idle
    <2>5. /\ runtime \in [epoch : 1 .. MaxEpoch, enabled : BOOLEAN] /\ owner \in BOOLEAN
          /\ connection \in [generation : Nat, active : BOOLEAN]
          /\ receipts \subseteq Nat \X Keys /\ events \subseteq Mail
      BY MailAssumption DEF MailInit
    <2>6. /\ arrived \in 0 .. MaxMail /\ horizon \in 0 .. arrived
          /\ faults \in 0 .. MaxFaults
      <3>1. arrived = 0 /\ horizon = 0 /\ faults = MaxFaults
        BY Zenon DEF MailInit
      <3> QED BY <3>1, MailAssumption
    <2>7. blamed \in BOOLEAN
      BY Zenon DEF MailInit
    <2> QED BY <2>1, <2>2, <2>3, <2>4, <2>5, <2>6, <2>7 DEF MailTypeOK
  <1>2. ClaimsAreFenced /\ PagesAreRead /\ HistoryHasCursor /\ ActiveWasConnected
    BY DEF MailInit, Idle, ClaimsAreFenced, PagesAreRead, HistoryHasCursor, ActiveWasConnected
  <1>3. NothingRevokedRuns /\ TodosAreSettled
    BY DEF MailInit, NothingRevokedRuns, TodosAreSettled, Unfinished, Waiting
  <1> QED BY <1>1, <1>2, <1>3 DEF MailInv

\* It is about the variables only.
LEMMA StutterKeepsMailInv == ASSUME MailInv, UNCHANGED mailVars PROVE MailInv'
  BY DEF mailVars, MailInv, MailTypeOK, ClaimsAreFenced, PagesAreRead, HistoryHasCursor,
         ActiveWasConnected, NothingRevokedRuns, TodosAreSettled

\* Every step keeps it.
LEMMA NextKeepsMailInv == ASSUME MailInv, MailNext PROVE MailInv'
  <1>1. CASE Connect \/ Disconnect
    BY <1>1, ConnectionKeepsMailInv
  <1>2. ASSUME NEW p \in Pollers,
               \/ ClaimPoll(p) \/ Fetch(p) \/ FetchWrong(p) \/ GiveUp(p) \/ Resync(p)
               \/ DropPage(p) \/ RestartOnPage(p) \/ IngestPage(p)
        PROVE  MailInv'
    BY <1>2, ClaimPollKeepsMailInv, FetchKeepsMailInv, FruitlessPollKeepsMailInv,
       RestartKeepsMailInv, IngestKeepsMailInv
  <1>3. ASSUME NEW m \in Mail, JobStep(m) PROVE MailInv'
    BY <1>3, LeaseStepKeepsMailInv, EndStepKeepsMailInv, GenerationKeepsMailInv DEF JobStep
  <1>4. CASE BeginRestore
    BY <1>4, RestoreKeepsMailInv
  <1>5. CASE Resume \/ DisableOwner \/ Arrive \/ Age
    BY <1>5, OutsideKeepsMailInv
  <1>6. CASE LapsePoll
    BY <1>6, FruitlessPollKeepsMailInv
  <1> QED BY <1>1, <1>2, <1>3, <1>4, <1>5, <1>6 DEF MailNext

\* The inductive invariant holds of every mailbox.
THEOREM MailInvariance == MailSpec => []MailInv
  <1>1. MailInit => MailInv
    BY InitHasMailInv
  <1>2. MailInv /\ [MailNext]_mailVars => MailInv'
    BY NextKeepsMailInv, StutterKeepsMailInv
  <1> QED BY <1>1, <1>2, PTL DEF MailSpec

\* Every table and every poller keeps its type.
THEOREM MailTypes == MailSpec => []MailTypeOK
  <1>1. MailInv => MailTypeOK
    BY DEF MailInv
  <1> QED BY <1>1, MailInvariance, PTL

\* However many schedulers poll, and however late they are, two of them can
\* never both commit a page of the mailbox.
THEOREM PollsAreFenced == MailSpec => []OnePollerCommits
  <1>1. MailInv => OnePollerCommits
    BY DEF MailInv, ClaimsAreFenced, OnePollerCommits, AuthorizedPoll
  <1> QED BY <1>1, MailInvariance, PTL

\* Work of an earlier connection or epoch neither waits nor runs.
THEOREM RevokedWorkStops == MailSpec => []NothingRevokedRuns
  <1>1. MailInv => NothingRevokedRuns
    BY DEF MailInv
  <1> QED BY <1>1, MailInvariance, PTL

\* Whatever is listed, polled or tried again, mail ends in one todo at most.
THEOREM TodosAreUnique == MailSpec => []OneTodoPerMail
  <1>1. MailInv => OneTodoPerMail
    BY DEF MailInv, TodosAreSettled, OneTodoPerMail
  <1> QED BY <1>1, MailInvariance, PTL

-----------------------------------------------------------------------------
(* The cursor *)

\* A mail that has its event and its job, and one that was too old for a backfill.
Covered(m) == m \in events /\ work[m].state # "none"
Excused(m) ==
    \/ m <= checkpoint.first_since
    \/ checkpoint.resync_required /\ m <= checkpoint.backfill_since

\* What a listing has passed is covered, up to what is still to be listed.
ListingIsCovered ==
    checkpoint.next_page_key \in Token =>
        \A m \in 1 .. checkpoint.next_page_key.upto :
            m \in checkpoint.next_page_key.rest \/ Covered(m) \/ Excused(m)

\* The baseline of a backfill is not past what its listing goes up to.
BaselineIsListed ==
    /\ checkpoint.next_page_key = Start => checkpoint.baseline_cursor = Null
    /\ checkpoint.next_page_key \in Token /\ checkpoint.baseline_cursor # Null =>
           checkpoint.baseline_cursor <= checkpoint.next_page_key.upto

\* A backfill that does not begin with the first poll is on record as a resync.
SinceIsOnRecord ==
    /\ checkpoint.resync_required \/ checkpoint.backfill_since = checkpoint.first_since
    /\ checkpoint.backfill_since <= horizon

\* The checkpoint follows the connections, of which a second one is a reason to resync.
GenerationsFollow ==
    /\ checkpoint.generation <= connection.generation
    /\ connection.active /\ connection.generation > 1 => blamed

\* A page up to n, once it is committed, leaves nothing behind but what it points to.
SoundUpTo(page, n) ==
    /\ \A m \in 1 .. n : \/ m \in page.mail
                         \/ page.next \in Token /\ m \in page.next.rest
                         \/ Covered(m) \/ Excused(m)
    /\ page.next # Start /\ (page.next \in Token => page.next.upto = n)
    /\ checkpoint.mode = "history" => page.final <= n
    /\ page.baseline # Null => page.baseline <= n
    /\ checkpoint.baseline_cursor # Null => checkpoint.baseline_cursor <= n

\* The poller has a page that its claim may still commit.
MayCommit(p) ==
    /\ poller[p].at = "paged" /\ poller[p].claim.fence = checkpoint.fence
    /\ <<poller[p].claim.chain, poller[p].page.key>> \notin receipts

IsSound(p) == \E n \in Nat : SoundUpTo(poller[p].page, n)
IsWrong(p) == WrongToken(poller[p].page)

PagesAreSound ==
    \A p \in Pollers :
        MayCommit(p) /\ poller[p].page.next # poller[p].page.expected => IsSound(p)

\* A provider that keeps its promises gives no reason to start again.
PagesAreRight == ~blamed => \A p \in Pollers : MayCommit(p) => ~IsWrong(p)

CursorInv ==
    /\ CursorIsCovered /\ ResyncHasReason
    /\ ListingIsCovered /\ BaselineIsListed /\ SinceIsOnRecord
    /\ GenerationsFollow /\ PagesAreSound /\ PagesAreRight

\* What was ingested stays, and so does every job.
NothingIsForgotten ==
    /\ events \subseteq events'
    /\ \A m \in Mail : work[m].state # "none" => work'[m].state # "none"

\* The columns of the checkpoint that place it in the mailbox.
PlaceStays ==
    /\ checkpoint'.generation = checkpoint.generation
    /\ checkpoint'.cursor = checkpoint.cursor
    /\ checkpoint'.baseline_cursor = checkpoint.baseline_cursor
    /\ checkpoint'.next_page_key = checkpoint.next_page_key
    /\ checkpoint'.mode = checkpoint.mode
    /\ checkpoint'.backfill_since = checkpoint.backfill_since
    /\ checkpoint'.resync_required = checkpoint.resync_required
    /\ checkpoint'.first_since = checkpoint.first_since

\* What is covered stays covered.
LEMMA CoveredStays ==
    ASSUME MailInv, NothingIsForgotten, NEW m, Covered(m)
    PROVE  Covered(m)'
  BY DEF Covered, NothingIsForgotten, MailInv, MailTypeOK

\* A step that leaves the place of the checkpoint, and the pollers that may commit, alone.
LEMMA PlaceKeepsCursorInv ==
    ASSUME MailInv, CursorInv, NothingIsForgotten, PlaceStays,
           horizon \in Nat, horizon' \in Nat, horizon <= horizon', blamed => blamed',
           checkpoint.generation <= connection'.generation,
           connection'.active /\ connection'.generation > 1 => blamed',
           \A p \in Pollers : MayCommit(p)' => MayCommit(p) /\ poller'[p] = poller[p]
    PROVE  CursorInv'
  <1>1. \A m : (Covered(m) => Covered(m)') /\ (Excused(m) => Excused(m)')
    BY CoveredStays DEF PlaceStays, Excused
  <1>2. CursorIsCovered'
    <2> SUFFICES ASSUME checkpoint'.cursor # Null, NEW m \in 1 .. checkpoint'.cursor
                 PROVE  Covered(m)' \/ Excused(m)'
      BY Zenon DEF CursorIsCovered, Covered, Excused
    <2>1. Covered(m) \/ Excused(m)
      BY DEF CursorInv, CursorIsCovered, PlaceStays, Covered, Excused
    <2> QED BY <1>1, <2>1
  <1>3. ResyncHasReason'
    BY DEF CursorInv, ResyncHasReason, PlaceStays
  <1>4. ListingIsCovered'
    <2> SUFFICES ASSUME checkpoint'.next_page_key \in Token,
                        NEW m \in 1 .. checkpoint'.next_page_key.upto
                 PROVE  m \in checkpoint'.next_page_key.rest \/ Covered(m)' \/ Excused(m)'
      BY Zenon DEF ListingIsCovered
    <2>1. checkpoint'.next_page_key = checkpoint.next_page_key
      BY DEF PlaceStays
    <2>2. m \in checkpoint.next_page_key.rest \/ Covered(m) \/ Excused(m)
      BY <2>1 DEF CursorInv, ListingIsCovered
    <2> QED BY <1>1, <2>1, <2>2
  <1>5. BaselineIsListed'
    BY DEF CursorInv, BaselineIsListed, PlaceStays
  <1>6. SinceIsOnRecord'
    <2>1. checkpoint.backfill_since \in Nat /\ checkpoint.backfill_since <= horizon
      BY DEF CursorInv, SinceIsOnRecord, MailInv, MailTypeOK, Checkpoint
    <2>2. checkpoint.backfill_since <= horizon'
      BY <2>1
    <2> QED BY <2>2 DEF CursorInv, SinceIsOnRecord, PlaceStays
  <1>7. GenerationsFollow'
    BY DEF GenerationsFollow, PlaceStays
  <1>8. PagesAreSound'
    <2> SUFFICES ASSUME NEW p \in Pollers, MayCommit(p)',
                        poller'[p].page.next # poller'[p].page.expected
                 PROVE  IsSound(p)'
      BY Zenon DEF PagesAreSound
    <2>1. MayCommit(p) /\ poller'[p] = poller[p]
      OBVIOUS
    <2>2. PICK page : page = poller[p].page
      OBVIOUS
    <2>3. PICK n \in Nat : SoundUpTo(page, n)
      BY <2>1, <2>2 DEF CursorInv, PagesAreSound, IsSound
    <2>4. poller'[p].page = page
      BY <2>1, <2>2
    <2>5. \A m \in 1 .. n : \/ m \in page.mail
                            \/ page.next \in Token /\ m \in page.next.rest
                            \/ Covered(m)' \/ Excused(m)'
      BY <1>1, <2>3 DEF SoundUpTo
    <2>6. /\ page.next # Start /\ (page.next \in Token => page.next.upto = n)
          /\ checkpoint'.mode = "history" => page.final <= n
          /\ page.baseline # Null => page.baseline <= n
          /\ checkpoint'.baseline_cursor # Null => checkpoint'.baseline_cursor <= n
      BY <2>3 DEF SoundUpTo, PlaceStays
    <2>7. SoundUpTo(page, n)'
      BY <2>5, <2>6 DEF SoundUpTo
    <2> QED BY <2>4, <2>7 DEF IsSound
  <1>9. PagesAreRight'
    <2> SUFFICES ASSUME ~blamed', NEW p \in Pollers, MayCommit(p)'
                 PROVE  ~IsWrong(p)'
      BY Zenon DEF PagesAreRight
    <2>1. MayCommit(p) /\ poller'[p] = poller[p] /\ ~blamed
      OBVIOUS
    <2>2. ~IsWrong(p)
      BY <2>1 DEF CursorInv, PagesAreRight
    <2> QED BY <2>1, <2>2 DEF IsWrong, WrongToken, PlaceStays
  <1> QED BY <1>2, <1>3, <1>4, <1>5, <1>6, <1>7, <1>8, <1>9 DEF CursorInv

\* A job is never taken back.
LEMMA JobsAreKept ==
    ASSUME MailInv, NEW m \in Mail, JobStep(m)
    PROVE  UNCHANGED rest /\ NothingIsForgotten
  <1>1. work[m] \in Job /\ work \in [Mail -> Job]
    BY DEF MailInv, MailTypeOK
  <1>2. UNCHANGED rest
    BY DEF JobStep, StartJob, RefuseJob, CancelJob, SweepJob, Reconcile, RecordGeneration,
           FailJob, LapseJob, ExpireJob
  <1>3. ASSUME NEW target \in {"succeeded", "failed", "cancelled", "expired", "retry_pending"},
               Close(m, target)
        PROVE  NothingIsForgotten
    <2>1. work' = [work EXCEPT ![m] = Closed(work[m], target)]
      BY <1>3 DEF Close
    <2>2. Closed(work[m], target).state = target
      BY <1>1 DEF Closed, Job
    <2>3. events' = events
      BY <1>2 DEF rest
    <2> QED BY <1>1, <2>1, <2>2, <2>3 DEF NothingIsForgotten
  <1>4. CASE \/ RefuseJob(m) \/ CancelJob(m) \/ SweepJob(m) \/ Reconcile(m)
             \/ \E f \in 1 .. MaxAttempts : RecordGeneration(m, f) \/ FailJob(m, f)
    <2>1. PICK target \in {"succeeded", "failed", "cancelled", "expired", "retry_pending"} :
             Close(m, target)
      BY <1>4 DEF RefuseJob, CancelJob, SweepJob, Reconcile, RecordGeneration, FailJob,
                  RetryOrFail
    <2> QED BY <1>2, <1>3, <2>1
  <1>5. CASE StartJob(m) \/ LapseJob(m) \/ ExpireJob(m)
    <2>1. PICK row : work' = [work EXCEPT ![m] = row]
                     /\ (work[m].state # "none" => row.state # "none")
      <3>1. CASE StartJob(m)
        <4> DEFINE row == [work[m] EXCEPT !.state = "running", !.lease = "live",
                                          !.fence = work[m].fence + 1]
        <4>1. work' = [work EXCEPT ![m] = row] /\ row.state = "running"
          BY <1>1, <3>1 DEF StartJob, Job
        <4> QED BY <4>1
      <3>2. CASE LapseJob(m)
        <4> DEFINE row == [work[m] EXCEPT !.lease = "lapsed"]
        <4>1. work' = [work EXCEPT ![m] = row] /\ row.state = work[m].state
          BY <1>1, <3>2 DEF LapseJob, Job
        <4> QED BY <4>1
      <3>3. CASE ExpireJob(m)
        <4> DEFINE row == [work[m] EXCEPT !.expired = TRUE,
                              !.lease = IF work[m].state = "running" THEN "lapsed" ELSE "none"]
        <4>1. work' = [work EXCEPT ![m] = row] /\ row.state = work[m].state
          BY <1>1, <3>3 DEF ExpireJob, Job
        <4> QED BY <4>1
      <3> QED BY <1>5, <3>1, <3>2, <3>3
    <2>2. events' = events
      BY <1>2 DEF rest
    <2> QED BY <1>1, <1>2, <2>1, <2>2 DEF NothingIsForgotten
  <1> QED BY <1>4, <1>5 DEF JobStep

\* Jobs that are closed together stay jobs.
LEMMA RevokedAreKept ==
    ASSUME MailInv, NEW target \in {"cancelled", "needs_reconciliation"}, events' = events,
           work' = [m \in Mail |-> IF work[m].state \in Unfinished
                                   THEN Closed(work[m], target) ELSE work[m]]
    PROVE  NothingIsForgotten
  <1>1. ASSUME NEW m \in Mail, work[m].state # "none" PROVE work'[m].state # "none"
    <2>1. work[m] \in Job
      BY DEF MailInv, MailTypeOK
    <2>2. Closed(work[m], target).state = target
      BY <2>1 DEF Closed, Job
    <2> QED BY <1>1, <2>2
  <1> QED BY <1>1 DEF NothingIsForgotten

\* The steps of others than the pollers, and the polls that come to nothing.
LEMMA QuietKeepsCursorInv ==
    ASSUME MailInv, CursorInv,
           \/ Connect \/ Disconnect \/ BeginRestore \/ Resume \/ DisableOwner
           \/ Arrive \/ Age \/ LapsePoll \/ UNCHANGED mailVars
           \/ \E p \in Pollers : GiveUp(p) \/ DropPage(p)
           \/ \E m \in Mail : JobStep(m)
    PROVE  CursorInv'
  <1>1. /\ checkpoint \in Checkpoint /\ checkpoint.fence \in Nat
        /\ poller \in [Pollers -> Poller] /\ connection.generation \in Nat
        /\ checkpoint.generation \in Nat
        /\ horizon \in Nat /\ arrived \in Nat
    BY MailAssumption DEF MailInv, MailTypeOK, Checkpoint
  <1>2. NothingIsForgotten
    <2>1. CASE Connect \/ Disconnect
      BY <2>1, RevokedAreKept DEF Connect, Disconnect, RevokeWork
    <2>2. CASE BeginRestore
      BY <2>2, RevokedAreKept DEF BeginRestore
    <2>3. CASE \E m \in Mail : JobStep(m)
      BY <2>3, JobsAreKept
    <2>4. CASE \/ Resume \/ DisableOwner \/ Arrive \/ Age \/ LapsePoll \/ UNCHANGED mailVars
               \/ \E p \in Pollers : GiveUp(p) \/ DropPage(p)
      <3>1. events' = events /\ work' = work
        BY <2>4 DEF Resume, DisableOwner, Arrive, Age, LapsePoll, mailVars, GiveUp, DropPage
      <3> QED BY <3>1 DEF NothingIsForgotten
    <2> QED BY <2>1, <2>2, <2>3, <2>4
  <1>3. /\ PlaceStays
        /\ checkpoint'.fence = checkpoint.fence \/ checkpoint'.fence = checkpoint.fence + 1
    <2>1. CASE BeginRestore
      <3>1. checkpoint' = [checkpoint EXCEPT !.lease = "none", !.fence = checkpoint.fence + 1]
        BY <2>1 DEF BeginRestore
      <3> QED BY <1>1, <3>1 DEF PlaceStays, Checkpoint
    <2>2. CASE LapsePoll
      <3>1. checkpoint' = [checkpoint EXCEPT !.lease = "lapsed"]
        BY <2>2 DEF LapsePoll
      <3> QED BY <1>1, <3>1 DEF PlaceStays, Checkpoint
    <2>3. CASE ~BeginRestore /\ ~LapsePoll
      <3>1. checkpoint' = checkpoint
        <4>1. CASE \E m \in Mail : JobStep(m)
          <5>1. UNCHANGED rest
            BY <4>1, JobsAreKept
          <5> QED BY <5>1 DEF rest
        <4>2. CASE ~\E m \in Mail : JobStep(m)
          BY <2>3, <4>2 DEF Connect, Disconnect, Resume, DisableOwner, Arrive, Age, mailVars,
                            GiveUp, DropPage
        <4> QED BY <4>1, <4>2
      <3> QED BY <3>1 DEF PlaceStays
    <2> QED BY <2>1, <2>2, <2>3
  <1>4. \/ poller' = poller
        \/ \E p \in Pollers : poller' = [poller EXCEPT ![p] = Idle]
    <2>1. CASE \E m \in Mail : JobStep(m)
      <3>1. UNCHANGED rest
        BY <2>1, JobsAreKept
      <3> QED BY <3>1 DEF rest
    <2>2. CASE ~\E m \in Mail : JobStep(m)
      BY <2>2 DEF Connect, Disconnect, BeginRestore, Resume, DisableOwner, Arrive, Age,
                  LapsePoll, mailVars, GiveUp, DropPage
    <2> QED BY <2>1, <2>2
  <1>5. receipts' = receipts /\ (blamed => blamed')
    <2>1. CASE \E m \in Mail : JobStep(m)
      <3>1. UNCHANGED rest
        BY <2>1, JobsAreKept
      <3> QED BY <3>1, Zenon DEF rest
    <2>2. CASE Connect
      BY <2>2, Zenon DEF Connect
    <2>3. CASE ~Connect /\ ~\E m \in Mail : JobStep(m)
      <3>1. UNCHANGED <<receipts, blamed>>
        <4>1. ASSUME NEW p \in Pollers, DropPage(p) PROVE UNCHANGED <<receipts, blamed>>
          BY <4>1, Zenon DEF DropPage
        <4>2. CASE ~\E p \in Pollers : DropPage(p)
          BY <2>3, <4>2, Zenon DEF Disconnect, BeginRestore, Resume, DisableOwner, Arrive, Age,
                  LapsePoll, mailVars, GiveUp
        <4> QED BY <4>1, <4>2
      <3> QED BY <3>1, Zenon
    <2> QED BY <2>1, <2>2, <2>3
  <1>6. \A p \in Pollers : MayCommit(p)' => MayCommit(p) /\ poller'[p] = poller[p]
    <2> SUFFICES ASSUME NEW p \in Pollers, MayCommit(p)'
                 PROVE  MayCommit(p) /\ poller'[p] = poller[p]
      OBVIOUS
    <2>1. poller'[p].at = "paged" /\ poller'[p].claim.fence = checkpoint'.fence
          /\ <<poller'[p].claim.chain, poller'[p].page.key>> \notin receipts'
      BY DEF MayCommit
    <2>2. poller'[p] = poller[p]
      <3>1. Idle.at = "idle"
        BY DEF Idle
      <3> QED BY <1>1, <1>4, <2>1, <3>1
    <2>3. checkpoint'.fence # checkpoint.fence + 1
      <3>1. poller[p].claim.fence <= checkpoint.fence /\ poller[p].claim.fence \in Nat
        BY <2>1, <2>2 DEF MailInv, ClaimsAreFenced, PollClaim
      <3> QED BY <1>1, <2>1, <2>2, <3>1
    <2> QED BY <1>3, <1>5, <2>1, <2>2, <2>3 DEF MayCommit
  <1>7. horizon' \in Nat /\ horizon <= horizon'
    <2>1. CASE Age
      BY <1>1, <2>1 DEF Age
    <2>2. CASE ~Age
      <3>1. horizon' = horizon
        <4>1. CASE \E m \in Mail : JobStep(m)
          <5>1. UNCHANGED rest
            BY <4>1, JobsAreKept
          <5> QED BY <5>1 DEF rest
        <4>2. CASE ~\E m \in Mail : JobStep(m)
          BY <2>2, <4>2 DEF Connect, Disconnect, BeginRestore, Resume, DisableOwner, Arrive,
                  LapsePoll, mailVars, GiveUp, DropPage
        <4> QED BY <4>1, <4>2
      <3> QED BY <1>1, <3>1
    <2> QED BY <2>1, <2>2
  <1>8. /\ checkpoint.generation <= connection'.generation
        /\ connection'.active /\ connection'.generation > 1 => blamed'
    <2>0. /\ checkpoint.generation <= connection.generation
          /\ connection.active /\ connection.generation > 1 => blamed
      BY DEF CursorInv, GenerationsFollow
    <2>1. CASE Connect
      <3>1. /\ connection'.generation = connection.generation + 1
            /\ connection.generation > 0 => blamed'
        <4>1. connection'.generation = connection.generation + 1
          BY <2>1 DEF Connect
        <4>2. connection.generation > 0 => blamed'
          BY <2>1, Zenon DEF Connect
        <4> QED BY <4>1, <4>2
      <3> QED BY <1>1, <2>0, <3>1
    <2>2. CASE Disconnect
      <3>1. connection'.generation = connection.generation + 1 /\ ~connection'.active
        BY <2>2 DEF Disconnect
      <3> QED BY <1>1, <2>0, <3>1
    <2>3. CASE ~Connect /\ ~Disconnect
      <3>1. connection' = connection
        <4>1. CASE \E m \in Mail : JobStep(m)
          <5>1. UNCHANGED rest
            BY <4>1, JobsAreKept
          <5> QED BY <5>1 DEF rest
        <4>2. CASE ~\E m \in Mail : JobStep(m)
          BY <2>3, <4>2 DEF BeginRestore, Resume, DisableOwner, Arrive, Age,
                  LapsePoll, mailVars, GiveUp, DropPage
        <4> QED BY <4>1, <4>2
      <3> QED BY <2>0, <3>1, <1>5
    <2> QED BY <2>1, <2>2, <2>3
  <1> QED BY <1>1, <1>2, <1>3, <1>5, <1>6, <1>7, <1>8, PlaceKeepsCursorInv

\* What a provider that keeps its promises answers leaves nothing behind, and is what
\* the checkpoint waits for.
LEMMA AnswersAreSound ==
    ASSUME MailInv, CursorInv, checkpoint.next_page_key # Null, NEW answer \in Answers
    PROVE  (\E n \in Nat : SoundUpTo(answer, n)) /\ ~WrongToken(answer)
  <1> DEFINE first == checkpoint.next_page_key = Start
             filling == checkpoint.mode = "backfill"
             since == IF filling THEN checkpoint.backfill_since ELSE checkpoint.cursor
             Listings == IF first
                         THEN {[rest |-> since + 1 .. n, upto |-> n] :
                                  n \in IF filling THEN since .. arrived ELSE {arrived}}
                         ELSE {checkpoint.next_page_key}
             Parts(l) == {x \in SUBSET l.rest :
                             Cardinality(x) <= PageLimit /\ (x = {} => l.rest = {})}
             Answer(l, x) ==
                 [key |-> checkpoint.next_page_key, expected |-> checkpoint.next_page_key,
                  next |-> IF x = l.rest THEN Null
                           ELSE [rest |-> l.rest \ x, upto |-> l.upto],
                  baseline |-> IF first /\ filling THEN l.upto ELSE Null,
                  final |-> IF filling THEN arrived ELSE l.upto,
                  mail |-> x, valid |-> TRUE]
  <1>0. PICK l \in Listings : \E x \in Parts(l) : answer = Answer(l, x)
    BY DEF Answers
  <1>x. PICK x \in Parts(l) : answer = Answer(l, x)
    BY <1>0
  <1>1. l \in Listings /\ x \in Parts(l) /\ answer = Answer(l, x)
    BY <1>0, <1>x
  <1>2. /\ checkpoint \in Checkpoint /\ arrived \in Nat /\ arrived <= MaxMail
        /\ checkpoint.next_page_key \in Keys
    BY MailAssumption DEF MailInv, MailTypeOK, Checkpoint
  <1>3. since \in Nat /\ (~filling => checkpoint.mode = "history" /\ checkpoint.cursor # Null)
    BY <1>2, MailAssumption DEF Checkpoint, MailInv, HistoryHasCursor
  <1>4. /\ l.upto \in Nat /\ l \in Token
        /\ \A m \in 1 .. l.upto : m \in l.rest \/ Covered(m) \/ Excused(m)
        /\ checkpoint.baseline_cursor # Null => ~first /\ checkpoint.baseline_cursor <= l.upto
    <2>1. CASE ~first
      <3>1. l = checkpoint.next_page_key /\ l \in Token
        BY <1>1, <1>2, <2>1 DEF Keys
      <3> QED BY <2>1, <3>1 DEF Token, CursorInv, ListingIsCovered, BaselineIsListed
    <2>2. CASE first
      <3>1. PICK n \in IF filling THEN since .. arrived ELSE {arrived} :
               l = [rest |-> since + 1 .. n, upto |-> n]
        BY <1>1, <2>2
      <3>2. n \in Nat /\ n <= MaxMail
        BY <1>2, <1>3, <3>1, MailAssumption
      <3>3. since + 1 .. n \subseteq Mail
        BY <1>3, <3>2, MailAssumption DEF Mail
      <3>4. \A m \in 1 .. n : m \in l.rest \/ m \in 1 .. since
        BY <1>3, <3>1, <3>2
      <3>5. \A m \in 1 .. since : Covered(m) \/ Excused(m)
        <4>1. CASE filling
          BY <4>1, <1>3 DEF CursorInv, SinceIsOnRecord, Excused
        <4>2. CASE ~filling
          BY <4>2, <1>3 DEF CursorInv, CursorIsCovered, Covered, Excused
        <4> QED BY <4>1, <4>2
      <3>6. checkpoint.baseline_cursor = Null
        BY <2>2 DEF CursorInv, BaselineIsListed
      <3> QED BY <3>1, <3>2, <3>3, <3>4, <3>5, <3>6 DEF Token
    <2> QED BY <2>1, <2>2
  <1>5. /\ answer.expected = checkpoint.next_page_key /\ answer.mail = x
        /\ x \subseteq l.rest /\ (x = {} => l.rest = {})
        /\ answer.next = IF x = l.rest THEN Null ELSE [rest |-> l.rest \ x, upto |-> l.upto]
        /\ answer.baseline = IF first /\ filling THEN l.upto ELSE Null
        /\ answer.final = IF filling THEN arrived ELSE l.upto
    BY <1>1
  <1> HIDE DEF Listings, Parts, Answer
  <1>6. answer.next \in Token => answer.next.upto = l.upto /\ answer.next.rest = l.rest \ x
    <2>1. CASE x = l.rest
      BY <1>5, <2>1, TokensAreOwn
    <2>2. CASE x # l.rest
      BY <1>5, <2>2
    <2> QED BY <2>1, <2>2
  <1>7. x = l.rest \/ answer.next \in Token
    BY <1>4, <1>5 DEF Token
  <1>8. SoundUpTo(answer, l.upto)
    <2>1. \A m \in 1 .. l.upto : \/ m \in answer.mail
                                 \/ answer.next \in Token /\ m \in answer.next.rest
                                 \/ Covered(m) \/ Excused(m)
      BY <1>4, <1>5, <1>6, <1>7
    <2>2. checkpoint.mode = "history" => answer.final <= l.upto
      BY <1>4, <1>5
    <2>3. answer.baseline # Null => answer.baseline <= l.upto
      BY <1>4, <1>5
    <2>4. checkpoint.baseline_cursor # Null => checkpoint.baseline_cursor <= l.upto
      BY <1>4
    <2>5. answer.next # Start
      BY <1>5, <1>7, TokensAreOwn, MailAssumption
    <2> QED BY <1>6, <2>1, <2>2, <2>3, <2>4, <2>5 DEF SoundUpTo
  <1>9. ~WrongToken(answer)
    <2>1. answer.next # answer.expected
      <3>1. CASE x = l.rest
        BY <1>5, <3>1
      <3>2. CASE x # l.rest
        <4>1. answer.next \in Token /\ answer.next.rest # l.rest
          BY <1>5, <1>6, <1>7, <3>2
        <4>2. checkpoint.next_page_key = Start \/ checkpoint.next_page_key = l
          BY <1>1 DEF Listings
        <4> QED BY <1>5, <4>1, <4>2, TokensAreOwn
      <3> QED BY <3>1, <3>2
    <2>2. answer.baseline = Null \/ checkpoint.baseline_cursor = Null
      BY <1>4, <1>5
    <2> QED BY <1>5, <2>1, <2>2 DEF WrongToken
  <1> QED BY <1>4, <1>8, <1>9

\* What goes wrong on the way may be noticed, but does no harm that goes unnoticed.
LEMMA DistortedAreSound ==
    ASSUME MailInv, CursorInv, checkpoint.next_page_key # Null,
           NEW answer \in Answers, NEW page \in Distorted(answer)
    PROVE  page.next # page.expected => \E n \in Nat : SoundUpTo(page, n)
  <1>1. PICK n \in Nat : SoundUpTo(answer, n)
    BY AnswersAreSound
  <1>2. answer \in Page
    BY AnswersArePages DEF MailInv
  <1> SUFFICES ASSUME page.next # page.expected PROVE SoundUpTo(page, n)
    OBVIOUS
  <1>3. /\ page.next = answer.next /\ page.mail = answer.mail /\ page.final = answer.final
        /\ page.baseline \in {answer.baseline, 0, Null}
    <2>1. CASE page = [answer EXCEPT !.valid = FALSE]
      BY <1>2, <2>1 DEF Page
    <2>2. CASE page = [answer EXCEPT !.expected = [rest |-> {}, upto |-> 0]]
      BY <1>2, <2>2 DEF Page
    <2>3. CASE page = [answer EXCEPT !.next = answer.expected]
      BY <1>2, <2>3 DEF Page
    <2>4. CASE page = [answer EXCEPT !.baseline = 0]
      BY <1>2, <2>4 DEF Page
    <2>5. CASE page = [answer EXCEPT !.baseline = Null]
      BY <1>2, <2>5 DEF Page
    <2> QED BY <2>1, <2>2, <2>3, <2>4, <2>5 DEF Distorted
  <1>4. page.baseline # Null => page.baseline <= n
    BY <1>1, <1>3 DEF SoundUpTo
  <1>5. \A m \in 1 .. n : \/ m \in page.mail
                          \/ page.next \in Token /\ m \in page.next.rest
                          \/ Covered(m) \/ Excused(m)
    BY <1>1, <1>3 DEF SoundUpTo
  <1> QED BY <1>1, <1>3, <1>4, <1>5 DEF SoundUpTo

\* An answer comes in.
LEMMA FetchKeepsCursorInv ==
    ASSUME MailInv, CursorInv, NEW p \in Pollers, Fetch(p) \/ FetchWrong(p)
    PROVE  CursorInv'
  <1>1. /\ UNCHANGED <<runtime, owner, connection, checkpoint, receipts, events, work, todos,
                       arrived, horizon>>
        /\ checkpoint.next_page_key # Null /\ (blamed => blamed')
    <2>1. CASE Fetch(p)
      BY <2>1, Zenon DEF Fetch
    <2>2. CASE FetchWrong(p)
      BY <2>2, Zenon DEF FetchWrong
    <2> QED BY <2>1, <2>2
  <1>2. PICK page : /\ poller' = [poller EXCEPT ![p].at = "paged", ![p].page = page]
                    /\ page.next # page.expected => \E n \in Nat : SoundUpTo(page, n)
                    /\ ~blamed' => ~WrongToken(page)
    <2>1. CASE Fetch(p)
      <3>1. PICK answer \in Answers :
               poller' = [poller EXCEPT ![p].at = "paged", ![p].page = answer]
        BY <2>1 DEF Fetch
      <3>2. (\E n \in Nat : SoundUpTo(answer, n)) /\ ~WrongToken(answer)
        BY <1>1, AnswersAreSound
      <3> QED BY <3>1, <3>2
    <2>2. CASE FetchWrong(p)
      <3>0. PICK answer \in Answers : \E page \in Distorted(answer) :
               poller' = [poller EXCEPT ![p].at = "paged", ![p].page = page]
        BY <2>2 DEF FetchWrong
      <3>1. PICK page \in Distorted(answer) :
               poller' = [poller EXCEPT ![p].at = "paged", ![p].page = page]
        BY <3>0
      <3>2. page.next # page.expected => \E n \in Nat : SoundUpTo(page, n)
        BY <1>1, DistortedAreSound
      <3>3. blamed'
        BY <2>2, Zenon DEF FetchWrong
      <3> QED BY <3>1, <3>2, <3>3
    <2> QED BY <2>1, <2>2
  <1>3. /\ poller'[p].page = page
        /\ \A q \in Pollers \ {p} : poller'[q] = poller[q]
    <2>1. poller \in [Pollers -> Poller]
      BY DEF MailInv, MailTypeOK
    <2> QED BY <1>2, <2>1 DEF Poller
  <1>4. /\ CursorIsCovered' /\ ListingIsCovered' /\ BaselineIsListed' /\ SinceIsOnRecord'
    BY <1>1 DEF CursorInv, CursorIsCovered, ListingIsCovered, BaselineIsListed,
                SinceIsOnRecord, Covered, Excused
  <1>5. ResyncHasReason' /\ GenerationsFollow'
    BY <1>1 DEF CursorInv, ResyncHasReason, GenerationsFollow
  <1>6. \A m : (Covered(m)' <=> Covered(m)) /\ (Excused(m)' <=> Excused(m))
    BY <1>1 DEF Covered, Excused
  <1>7. ASSUME NEW q \in Pollers \ {p}
        PROVE  /\ MayCommit(q)' <=> MayCommit(q) 
               /\ IsSound(q)' <=> IsSound(q)
               /\ IsWrong(q)' <=> IsWrong(q)
    <2>1. poller'[q] = poller[q]
      BY <1>3
    <2>2. \A n \in Nat : SoundUpTo(poller[q].page, n) <=>
              /\ \A m \in 1 .. n : \/ m \in poller[q].page.mail
                                   \/ poller[q].page.next \in Token /\ m \in poller[q].page.next.rest
                                   \/ Covered(m)' \/ Excused(m)'
              /\ poller[q].page.next # Start
              /\ poller[q].page.next \in Token => poller[q].page.next.upto = n
              /\ checkpoint.mode = "history" => poller[q].page.final <= n
              /\ poller[q].page.baseline # Null => poller[q].page.baseline <= n
              /\ checkpoint.baseline_cursor # Null => checkpoint.baseline_cursor <= n
      BY <1>6 DEF SoundUpTo
    <2>3. IsSound(q)' <=> IsSound(q)
      BY <1>1, <2>1, <2>2 DEF IsSound, SoundUpTo
    <2> QED BY <1>1, <2>1, <2>3 DEF MayCommit, IsWrong, WrongToken
  <1>8. page.next # page.expected => IsSound(p)'
    <2> SUFFICES ASSUME page.next # page.expected PROVE IsSound(p)'
      OBVIOUS
    <2>1. PICK n \in Nat : SoundUpTo(page, n)
      BY <1>2
    <2>2. SoundUpTo(page, n)'
      BY <1>1, <1>6, <2>1 DEF SoundUpTo
    <2> QED BY <1>3, <2>2 DEF IsSound
  <1>9. ~blamed' => ~IsWrong(p)'
    BY <1>1, <1>2, <1>3 DEF IsWrong, WrongToken
  <1>10. PagesAreSound'
    <2>1. ASSUME NEW q \in Pollers, MayCommit(q)', poller'[q].page.next # poller'[q].page.expected
          PROVE  IsSound(q)'
      <3>1. CASE q = p
        BY <1>3, <1>8, <2>1, <3>1
      <3>2. CASE q # p
        BY <1>3, <1>7, <2>1, <3>2 DEF CursorInv, PagesAreSound
      <3> QED BY <3>1, <3>2
    <2> QED BY <2>1, Zenon DEF PagesAreSound
  <1>11. PagesAreRight'
    <2>1. ASSUME ~blamed', NEW q \in Pollers, MayCommit(q)' PROVE ~IsWrong(q)'
      <3>1. CASE q = p
        BY <1>9, <2>1, <3>1
      <3>2. CASE q # p
        BY <1>1, <1>7, <2>1, <3>2 DEF CursorInv, PagesAreRight
      <3> QED BY <3>1, <3>2
    <2> QED BY <2>1, Zenon DEF PagesAreRight
  <1> QED BY <1>4, <1>5, <1>10, <1>11 DEF CursorInv

\* A row with a higher fence than any claim has nothing to fear from the pollers.
LEMMA NoneMayCommit ==
    ASSUME MailInv, checkpoint'.fence > checkpoint.fence,
           checkpoint'.fence \in Nat,
           \A p \in Pollers : poller'[p] = poller[p] \/ poller'[p].at # "paged"
    PROVE  PagesAreSound' /\ PagesAreRight'
  <1>1. ASSUME NEW p \in Pollers PROVE ~MayCommit(p)'
    <2> SUFFICES ASSUME poller'[p].at = "paged", poller'[p].claim.fence = checkpoint'.fence
                 PROVE  FALSE
      BY DEF MayCommit
    <2>1. poller[p].claim.fence <= checkpoint.fence /\ poller[p].claim.fence \in Nat
          /\ poller'[p] = poller[p]
      BY DEF MailInv, ClaimsAreFenced, PollClaim
    <2>2. checkpoint.fence \in Nat
      BY DEF MailInv, MailTypeOK, Checkpoint
    <2> QED BY <2>1, <2>2
  <1>2. PagesAreSound'
    BY <1>1, Zenon DEF PagesAreSound
  <1>3. PagesAreRight'
    BY <1>1, Zenon DEF PagesAreRight
  <1> QED BY <1>2, <1>3

\* What a restart of the backfill leaves of the row.
LEMMA RestartColumns ==
    ASSUME checkpoint \in Checkpoint
    PROVE  /\ RestartBackfill(checkpoint).next_page_key = Start
           /\ RestartBackfill(checkpoint).baseline_cursor = Null
           /\ RestartBackfill(checkpoint).backfill_since = horizon
           /\ RestartBackfill(checkpoint).resync_required = TRUE
           /\ RestartBackfill(checkpoint).first_since = checkpoint.first_since
           /\ RestartBackfill(checkpoint).cursor = checkpoint.cursor
           /\ RestartBackfill(checkpoint).generation = checkpoint.generation
  BY DEF RestartBackfill, Checkpoint

\* A resync, by a lost history or by a page with a wrong token.
LEMMA RestartKeepsCursorInv ==
    ASSUME MailInv, CursorInv, NEW p \in Pollers, Resync(p) \/ RestartOnPage(p)
    PROVE  CursorInv'
  <1>1. /\ UNCHANGED <<runtime, owner, connection, receipts, events, work, todos,
                       arrived, horizon>>
        /\ poller' = [poller EXCEPT ![p] = Idle] /\ (blamed => blamed')
        /\ checkpoint' = RestartBackfill(checkpoint) \/ checkpoint' = checkpoint
    <2>1. CASE Resync(p)
      <3>1. blamed'
        BY <2>1, Zenon DEF Resync
      <3> QED BY <2>1, <3>1 DEF Resync
    <2>2. CASE RestartOnPage(p)
      <3>1. blamed' = blamed
        BY <2>2 DEF RestartOnPage
      <3> QED BY <2>2, <3>1 DEF RestartOnPage
    <2> QED BY <2>1, <2>2
  <1>2. /\ checkpoint \in Checkpoint /\ checkpoint.fence \in Nat /\ horizon \in Nat
        /\ poller \in [Pollers -> Poller] /\ Idle.at = "idle"
    BY MailAssumption DEF MailInv, MailTypeOK, Checkpoint, Idle
  <1>3. \A q \in Pollers : poller'[q] = poller[q] \/ poller'[q].at = "idle"
    BY <1>1, <1>2
  <1>4. CASE checkpoint' = checkpoint
    <2>1. \A q \in Pollers : MayCommit(q)' => MayCommit(q) /\ poller'[q] = poller[q]
      BY <1>1, <1>3, <1>4 DEF MayCommit
    <2>2. NothingIsForgotten /\ PlaceStays /\ horizon' \in Nat /\ horizon <= horizon'
      BY <1>1, <1>2, <1>4 DEF NothingIsForgotten, PlaceStays
    <2>3. /\ checkpoint.generation <= connection'.generation
          /\ connection'.active /\ connection'.generation > 1 => blamed'
      BY <1>1 DEF CursorInv, GenerationsFollow
    <2> QED BY <1>1, <1>2, <2>1, <2>2, <2>3, PlaceKeepsCursorInv
  <1>5. CASE checkpoint' = RestartBackfill(checkpoint) /\ checkpoint' # checkpoint
    <2>1. /\ checkpoint'.next_page_key = Start /\ checkpoint'.baseline_cursor = Null
          /\ checkpoint'.backfill_since = horizon /\ checkpoint'.resync_required = TRUE
          /\ checkpoint'.first_since = checkpoint.first_since
          /\ checkpoint'.cursor = checkpoint.cursor
          /\ checkpoint'.generation = checkpoint.generation
      BY <1>2, <1>5, RestartColumns
    <2>2. checkpoint'.fence = checkpoint.fence + 1
      BY <1>2, <1>5, RestartIsCheckpoint
    <2>3. PagesAreSound' /\ PagesAreRight'
      BY <1>2, <1>3, <2>2, NoneMayCommit
    <2>4. CursorIsCovered'
      <3> SUFFICES ASSUME checkpoint'.cursor # Null, NEW m \in 1 .. checkpoint'.cursor
                   PROVE  Covered(m)' \/ Excused(m)'
        BY Zenon DEF CursorIsCovered, Covered, Excused
      <3>0. m \in Nat
        <4>1. checkpoint.cursor \in Nat
          BY <1>2, <2>1 DEF Checkpoint
        <4> QED BY <2>1, <4>1
      <3>1. Covered(m) \/ Excused(m)
        BY <2>1 DEF CursorInv, CursorIsCovered, Covered, Excused
      <3>2. CASE Covered(m)
        BY <1>1, <3>2 DEF Covered
      <3>3. CASE m <= checkpoint.first_since
        BY <2>1, <3>3 DEF Excused
      <3>4. CASE m <= checkpoint.backfill_since
        <4>1. checkpoint.backfill_since \in Nat /\ checkpoint.backfill_since <= horizon
          BY <1>2 DEF Checkpoint, CursorInv, SinceIsOnRecord
        <4>2. m <= horizon
          BY <1>2, <3>0, <3>4, <4>1
        <4> QED BY <2>1, <4>2 DEF Excused
      <3> QED BY <3>1, <3>2, <3>3, <3>4 DEF Excused
    <2>5. ListingIsCovered' /\ BaselineIsListed'
      BY <2>1, TokensAreOwn DEF ListingIsCovered, BaselineIsListed
    <2>6. SinceIsOnRecord'
      BY <1>1, <1>2, <2>1 DEF SinceIsOnRecord
    <2>7. GenerationsFollow'
      BY <1>1, <2>1 DEF CursorInv, GenerationsFollow
    <2>8. blamed'
      <3>1. CASE Resync(p)
        BY <3>1, Zenon DEF Resync
      <3>2. CASE RestartOnPage(p)
        <4>1. /\ poller[p].at = "paged" /\ ~Received(p) /\ AuthorizedPoll(poller[p].claim)
              /\ poller[p].page.valid /\ IsWrong(p) /\ blamed' = blamed
          BY <3>2 DEF RestartOnPage, IsWrong
        <4>2. MayCommit(p)
          BY <4>1 DEF MayCommit, Received, AuthorizedPoll
        <4> QED BY <4>1, <4>2 DEF CursorInv, PagesAreRight
      <3> QED BY <3>1, <3>2
    <2>9. ResyncHasReason'
      BY <2>8, Zenon DEF ResyncHasReason
    <2> QED BY <2>3, <2>4, <2>5, <2>6, <2>7, <2>9 DEF CursorInv
  <1> QED BY <1>1, <1>4, <1>5

\* The row a claim goes on with keeps its cursor and its excuses, or has no cursor.
LEMMA PreparedKeepsPlace ==
    ASSUME MailInv, CursorInv, connection.active
    PROVE  /\ Prepared.cursor = Null
              \/ /\ Prepared.cursor = checkpoint.cursor
                 /\ Prepared.first_since = checkpoint.first_since
                 /\ Prepared.resync_required = checkpoint.resync_required
                 /\ Prepared.backfill_since = checkpoint.backfill_since
           /\ Prepared.generation = connection.generation
           /\ Prepared.resync_required => blamed
           /\ \/ Prepared.next_page_key = Start /\ Prepared.baseline_cursor = Null
              \/ Prepared = checkpoint
           /\ Prepared.resync_required \/ Prepared.backfill_since = Prepared.first_since
           /\ Prepared.backfill_since <= horizon
  <1>1. /\ checkpoint \in Checkpoint /\ horizon \in Nat /\ connection.generation \in Nat
        /\ checkpoint.generation \in Nat
        /\ checkpoint.generation <= connection.generation
        /\ connection.generation > 1 => blamed
        /\ checkpoint.resync_required => blamed
        /\ checkpoint.resync_required \/ checkpoint.backfill_since = checkpoint.first_since
        /\ checkpoint.backfill_since <= horizon
    <2>1. checkpoint.resync_required => blamed
      BY Zenon DEF CursorInv, ResyncHasReason
    <2>2. connection.generation > 1 => blamed
      BY Zenon DEF CursorInv, GenerationsFollow
    <2> QED BY <2>1, <2>2, MailAssumption DEF MailInv, MailTypeOK, Checkpoint, CursorInv,
               GenerationsFollow, SinceIsOnRecord
  <1>2. CASE checkpoint.generation = 0
    BY <1>1, <1>2 DEF Prepared, FirstCheckpoint
  <1>3. CASE checkpoint.generation # 0 /\ checkpoint.generation # connection.generation
    <2> DEFINE row == RestartBackfill(checkpoint)
    <2>1. /\ row \in Checkpoint /\ row.next_page_key = Start /\ row.baseline_cursor = Null
          /\ row.backfill_since = horizon /\ row.resync_required = TRUE
      BY <1>1, RestartColumns, RestartIsCheckpoint
    <2>2. Prepared = [row EXCEPT !.generation = connection.generation, !.cursor = Null]
      BY <1>3 DEF Prepared
    <2> HIDE DEF row
    <2>3. /\ Prepared.cursor = Null /\ Prepared.generation = connection.generation
          /\ Prepared.next_page_key = Start /\ Prepared.baseline_cursor = Null
          /\ Prepared.backfill_since = horizon /\ Prepared.resync_required = TRUE
      BY <2>1, <2>2 DEF Checkpoint
    <2>4. blamed
      BY <1>1, <1>3
    <2> QED BY <1>1, <2>3, <2>4
  <1>4. CASE /\ checkpoint.generation # 0 /\ checkpoint.generation = connection.generation
             /\ checkpoint.next_page_key = Null
    <2>1. Prepared = [checkpoint EXCEPT !.chain = checkpoint.chain + 1,
                                        !.next_page_key = Start, !.baseline_cursor = Null]
      BY <1>4 DEF Prepared
    <2>2. /\ Prepared.cursor = checkpoint.cursor
          /\ Prepared.first_since = checkpoint.first_since
          /\ Prepared.resync_required = checkpoint.resync_required
          /\ Prepared.backfill_since = checkpoint.backfill_since
          /\ Prepared.generation = checkpoint.generation
          /\ Prepared.next_page_key = Start /\ Prepared.baseline_cursor = Null
      BY <1>1, <2>1 DEF Checkpoint
    <2> QED BY <1>1, <1>4, <2>2
  <1>5. CASE /\ checkpoint.generation # 0 /\ checkpoint.generation = connection.generation
             /\ checkpoint.next_page_key # Null
    BY <1>1, <1>5 DEF Prepared
  <1> QED BY <1>2, <1>3, <1>4, <1>5

LEMMA ClaimKeepsCursorInv ==
    ASSUME MailInv, CursorInv, NEW p \in Pollers, ClaimPoll(p)
    PROVE  CursorInv'
  <1>1. /\ checkpoint \in Checkpoint /\ poller \in [Pollers -> Poller]
        /\ runtime.epoch \in Nat /\ checkpoint.fence \in Nat /\ checkpoint.generation \in Nat
        /\ connection.generation > 0 /\ connection.active
        /\ UNCHANGED <<connection, receipts, events, work, horizon>>
    BY MailAssumption DEF MailInv, MailTypeOK, ClaimPoll, ActiveWasConnected, Checkpoint
  <1>b. blamed' = blamed
    BY Zenon DEF ClaimPoll
  <1>2. /\ Prepared \in Checkpoint
        /\ checkpoint.generation > 0 => Prepared.fence >= checkpoint.fence
    BY <1>1, PreparedIsCheckpoint DEF MailInv
  <1> DEFINE f == Prepared.fence + 1  e == runtime.epoch
  <1>3. f \in Nat /\ e \in Nat /\ f > Prepared.fence /\ Prepared.fence \in Nat
    BY <1>1, <1>2 DEF Checkpoint
  <1>4. checkpoint' = [Prepared EXCEPT !.fence = f, !.epoch = e, !.lease = "live"]
    BY DEF ClaimPoll, NextFence
  <1> HIDE DEF f, e
  <1>5. /\ checkpoint'.fence = f /\ checkpoint'.generation = Prepared.generation
        /\ checkpoint'.mode = Prepared.mode /\ checkpoint'.cursor = Prepared.cursor
        /\ checkpoint'.next_page_key = Prepared.next_page_key
        /\ checkpoint'.baseline_cursor = Prepared.baseline_cursor
        /\ checkpoint'.first_since = Prepared.first_since
        /\ checkpoint'.backfill_since = Prepared.backfill_since
        /\ checkpoint'.resync_required = Prepared.resync_required
    BY <1>2, <1>4 DEF Checkpoint
  <1>6. /\ Prepared.cursor = Null
              \/ /\ Prepared.cursor = checkpoint.cursor
                 /\ Prepared.first_since = checkpoint.first_since
                 /\ Prepared.resync_required = checkpoint.resync_required
                 /\ Prepared.backfill_since = checkpoint.backfill_since
        /\ Prepared.generation = connection.generation
        /\ \/ Prepared.next_page_key = Start /\ Prepared.baseline_cursor = Null
           \/ Prepared = checkpoint
        /\ Prepared.resync_required \/ Prepared.backfill_since = Prepared.first_since
        /\ Prepared.backfill_since <= horizon
    BY <1>1, PreparedKeepsPlace
  <1>7. Prepared.resync_required => blamed
    BY <1>1, PreparedKeepsPlace, Zenon
  <1>8. CursorIsCovered'
    <2> SUFFICES ASSUME checkpoint'.cursor # Null, NEW m \in 1 .. checkpoint'.cursor
                 PROVE  Covered(m)' \/ Excused(m)'
      BY Zenon DEF CursorIsCovered, Covered, Excused
    <2>1. Covered(m) \/ Excused(m)
      BY <1>5, <1>6 DEF CursorInv, CursorIsCovered, Covered, Excused
    <2> QED BY <1>1, <1>5, <1>6, <2>1 DEF Covered, Excused
  <1>9. ListingIsCovered'
    <2> SUFFICES ASSUME checkpoint'.next_page_key \in Token,
                        NEW m \in 1 .. checkpoint'.next_page_key.upto
                 PROVE  m \in checkpoint'.next_page_key.rest \/ Covered(m)' \/ Excused(m)'
      BY Zenon DEF ListingIsCovered
    <2>1. Prepared = checkpoint
      BY <1>5, <1>6, TokensAreOwn
    <2>2. m \in checkpoint.next_page_key.rest \/ Covered(m) \/ Excused(m)
      BY <1>5, <2>1 DEF CursorInv, ListingIsCovered
    <2> QED BY <1>1, <1>5, <2>1, <2>2 DEF Covered, Excused
  <1>10. BaselineIsListed'
    BY <1>5, <1>6, TokensAreOwn DEF BaselineIsListed, CursorInv
  <1>11. SinceIsOnRecord' /\ GenerationsFollow'
    <2>1. connection.generation \in Nat
      BY DEF MailInv, MailTypeOK
    <2>2. connection'.active /\ connection'.generation > 1 => blamed'
      BY <1>1, <1>b DEF CursorInv, GenerationsFollow
    <2> QED BY <1>1, <1>5, <1>6, <2>1, <2>2 DEF SinceIsOnRecord, GenerationsFollow
  <1>12. ResyncHasReason'
    BY <1>5, <1>7, <1>b DEF ResyncHasReason
  <1>13. PagesAreSound' /\ PagesAreRight'
    <2>1. ASSUME NEW q \in Pollers PROVE poller'[q].at # "paged" \/ poller'[q] = poller[q]
      BY <1>1 DEF ClaimPoll
    <2>2. CASE checkpoint.generation > 0
      <3>1. checkpoint'.fence > checkpoint.fence /\ checkpoint'.fence \in Nat
        BY <1>1, <1>2, <1>3, <1>5, <2>2
      <3> QED BY <2>1, <3>1, NoneMayCommit
    <2>3. CASE ~(checkpoint.generation > 0)
      <3>1. ASSUME NEW q \in Pollers PROVE ~MayCommit(q)'
        <4>1. poller[q].at = "idle"
          BY <2>3 DEF MailInv, ClaimsAreFenced
        <4> QED BY <2>1, <4>1 DEF MayCommit
      <3>2. PagesAreSound'
        BY <3>1, Zenon DEF PagesAreSound
      <3>3. PagesAreRight'
        BY <3>1, Zenon DEF PagesAreRight
      <3> QED BY <3>2, <3>3
    <2> QED BY <2>2, <2>3
  <1> QED BY <1>8, <1>9, <1>10, <1>11, <1>12, <1>13 DEF CursorInv

\* What a page that is committed leaves of the row.
LEMMA AdvancedColumns ==
    ASSUME checkpoint \in Checkpoint, NEW page
    PROVE  /\ Advanced(page).next_page_key = page.next
           /\ Advanced(page).baseline_cursor =
                 IF checkpoint.baseline_cursor = Null THEN page.baseline
                 ELSE checkpoint.baseline_cursor
           /\ Advanced(page).cursor =
                 IF page.next = Null THEN CompletedCursor(page) ELSE checkpoint.cursor
           /\ Advanced(page).generation = checkpoint.generation
           /\ Advanced(page).fence = checkpoint.fence
           /\ Advanced(page).backfill_since = checkpoint.backfill_since
           /\ Advanced(page).resync_required = checkpoint.resync_required
           /\ Advanced(page).first_since = checkpoint.first_since
  BY DEF Advanced, Checkpoint

\* A good page.
LEMMA IngestKeepsCursorInv ==
    ASSUME MailInv, CursorInv, NEW p \in Pollers, IngestPage(p)
    PROVE  CursorInv'
  <1>0. PICK page : page = poller[p].page
    OBVIOUS
  <1>1. /\ page \in Page /\ poller[p].claim \in PollClaim /\ poller[p].at = "paged"
        /\ AuthorizedPoll(poller[p].claim)
        /\ ~Received(p) /\ page.valid /\ ~WrongToken(page) /\ ~NoBaseline(page)
        /\ work' = Queued(poller[p].claim, page) /\ events' = events \cup page.mail
        /\ receipts' = receipts \cup {<<poller[p].claim.chain, page.key>>}
        /\ checkpoint' = Advanced(page)
        /\ UNCHANGED <<runtime, owner, connection, todos, arrived, horizon>>
    BY <1>0 DEF IngestPage, MailInv, PagesAreRead, ClaimsAreFenced
  <1>b. blamed' = blamed
    BY Zenon DEF IngestPage
  <1>2. poller' = poller \/ poller' = [poller EXCEPT ![p] = Idle]
    BY DEF IngestPage
  <1>3. /\ checkpoint \in Checkpoint /\ horizon \in Nat /\ checkpoint.fence \in Nat
        /\ poller \in [Pollers -> Poller] /\ work \in [Mail -> Job] /\ events \subseteq Mail
        /\ page.mail \subseteq Mail /\ Idle.at = "idle"
    BY <1>1, MailAssumption DEF MailInv, MailTypeOK, Checkpoint, Page, Idle
  <1>4. /\ checkpoint'.next_page_key = page.next
        /\ checkpoint'.baseline_cursor =
              IF checkpoint.baseline_cursor = Null THEN page.baseline
              ELSE checkpoint.baseline_cursor
        /\ checkpoint'.cursor =
              IF page.next = Null THEN CompletedCursor(page) ELSE checkpoint.cursor
        /\ checkpoint'.generation = checkpoint.generation
        /\ checkpoint'.fence = checkpoint.fence
        /\ checkpoint'.backfill_since = checkpoint.backfill_since
        /\ checkpoint'.resync_required = checkpoint.resync_required
        /\ checkpoint'.first_since = checkpoint.first_since
    BY <1>1, <1>3, AdvancedColumns
  <1>5. MayCommit(p)
    BY <1>0, <1>1 DEF MayCommit, Received, AuthorizedPoll
  <1>6. PICK n \in Nat : SoundUpTo(page, n)
    <2>1. page.next # page.expected
      BY <1>1 DEF WrongToken
    <2> QED BY <1>0, <1>5, <2>1 DEF CursorInv, PagesAreSound, IsSound
  <1>7. \A m \in page.mail : Covered(m)'
    <2> SUFFICES ASSUME NEW m \in page.mail PROVE Covered(m)'
      OBVIOUS
    <2>1. m \in Mail /\ m \in events'
      BY <1>1, <1>3
    <2>2. work'[m].state # "none"
      <3>1. CASE m \in NewMail(page)
        BY <1>1, <2>1, <3>1 DEF Queued
      <3>2. CASE m \notin NewMail(page)
        BY <1>1, <2>1, <3>2 DEF Queued, NewMail
      <3> QED BY <3>1, <3>2
    <2> QED BY <2>1, <2>2 DEF Covered
  <1>8. NothingIsForgotten
    <2>1. ASSUME NEW m \in Mail, work[m].state # "none" PROVE work'[m].state # "none"
      BY <1>1, <2>1 DEF Queued, NewMail
    <2> QED BY <1>1, <2>1 DEF NothingIsForgotten
  <1>9. \A m : (Covered(m) => Covered(m)') /\ (Excused(m) => Excused(m)')
    BY <1>4, <1>8, CoveredStays DEF Excused
  <1>10. \A m \in 1 .. n : \/ page.next \in Token /\ m \in page.next.rest
                           \/ Covered(m)' \/ Excused(m)'
    BY <1>6, <1>7, <1>9 DEF SoundUpTo
  <1>11. /\ page.next # Start /\ (page.next \in Token => page.next.upto = n)
         /\ checkpoint.mode = "history" => page.final <= n
         /\ page.baseline # Null => page.baseline <= n
         /\ checkpoint.baseline_cursor # Null => checkpoint.baseline_cursor <= n
    BY <1>6 DEF SoundUpTo
  <1>12. CursorIsCovered'
    <2> SUFFICES ASSUME checkpoint'.cursor # Null, NEW m \in 1 .. checkpoint'.cursor
                 PROVE  Covered(m)' \/ Excused(m)'
      BY Zenon DEF CursorIsCovered, Covered, Excused
    <2>1. CASE page.next = Null
      <3>1. CompletedCursor(page) \in Nat /\ CompletedCursor(page) <= n
        <4>1. CASE checkpoint.mode = "history"
          BY <1>1, <1>11, <4>1 DEF CompletedCursor, Page
        <4>2. CASE checkpoint.mode # "history" /\ checkpoint.baseline_cursor # Null
          BY <1>3, <1>11, <4>2 DEF CompletedCursor, Checkpoint
        <4>3. CASE checkpoint.mode # "history" /\ checkpoint.baseline_cursor = Null
          <5>1. page.baseline # Null
            BY <1>1, <1>3, <4>3 DEF NoBaseline, Checkpoint
          <5> QED BY <1>1, <1>11, <4>3, <5>1 DEF CompletedCursor, Page
        <4> QED BY <4>1, <4>2, <4>3
      <3>2. checkpoint'.cursor = CompletedCursor(page)
        BY <1>4, <2>1
      <3> HIDE DEF CompletedCursor
      <3>3. m \in 1 .. n
        BY <1>6, <3>1, <3>2
      <3> QED BY <1>10, <2>1, <3>3, TokensAreOwn
    <2>2. CASE page.next # Null
      <3>1. checkpoint'.cursor = checkpoint.cursor
        BY <1>4, <2>2
      <3>2. Covered(m) \/ Excused(m)
        BY <3>1 DEF CursorInv, CursorIsCovered, Covered, Excused
      <3> QED BY <1>9, <3>2
    <2> QED BY <2>1, <2>2
  <1>13. ListingIsCovered'
    <2> SUFFICES ASSUME checkpoint'.next_page_key \in Token,
                        NEW m \in 1 .. checkpoint'.next_page_key.upto
                 PROVE  m \in checkpoint'.next_page_key.rest \/ Covered(m)' \/ Excused(m)'
      BY Zenon DEF ListingIsCovered
    <2>1. page.next \in Token /\ page.next.upto = n
      BY <1>4, <1>11
    <2>2. m \in 1 .. n
      BY <1>4, <2>1
    <2> QED BY <1>4, <1>10, <2>2
  <1>14. BaselineIsListed'
    <2>1. checkpoint'.next_page_key # Start
      BY <1>4, <1>11
    <2>2. checkpoint'.baseline_cursor # Null => checkpoint'.baseline_cursor <= n
      BY <1>4, <1>11
    <2>3. checkpoint'.next_page_key \in Token => checkpoint'.next_page_key.upto = n
      BY <1>4, <1>11
    <2> QED BY <2>1, <2>2, <2>3 DEF BaselineIsListed
  <1>15. SinceIsOnRecord'
    BY <1>1, <1>4 DEF CursorInv, SinceIsOnRecord
  <1>16. GenerationsFollow'
    <2>1. connection' = connection
      BY <1>1
    <2> QED BY <1>4, <1>b, <2>1 DEF CursorInv, GenerationsFollow
  <1>17. ResyncHasReason'
    BY <1>4, <1>b DEF CursorInv, ResyncHasReason
  <1>18. ASSUME NEW q \in Pollers PROVE ~MayCommit(q)'
    <2>1. CASE q = p
      <3>1. CASE poller' = poller
        BY <1>0, <1>1, <2>1, <3>1 DEF MayCommit
      <3>2. CASE poller' = [poller EXCEPT ![p] = Idle]
        BY <1>3, <2>1, <3>2 DEF MayCommit
      <3> QED BY <1>2, <3>1, <3>2
    <2>2. CASE q # p
      <3>1. poller'[q] = poller[q]
        BY <1>2, <1>3, <2>2
      <3>2. poller[p].claim.fence = checkpoint.fence
        BY <1>5 DEF MayCommit
      <3>3. poller[q].at # "idle" => poller[q].claim.fence # checkpoint.fence
        BY <1>1, <2>2, <3>2 DEF MailInv, ClaimsAreFenced
      <3> QED BY <1>4, <3>1, <3>3 DEF MayCommit
    <2> QED BY <2>1, <2>2
  <1>19. PagesAreSound' /\ PagesAreRight'
    <2>1. PagesAreSound'
      BY <1>18, Zenon DEF PagesAreSound
    <2>2. PagesAreRight'
      BY <1>18, Zenon DEF PagesAreRight
    <2> QED BY <2>1, <2>2
  <1> QED BY <1>12, <1>13, <1>14, <1>15, <1>16, <1>17, <1>19 DEF CursorInv

LEMMA InitHasCursorInv == ASSUME MailInit PROVE CursorInv
  <1>1. /\ checkpoint.cursor = Null /\ checkpoint.next_page_key = Null
        /\ checkpoint.resync_required = FALSE /\ checkpoint.backfill_since = 0
        /\ checkpoint.first_since = 0 /\ checkpoint.generation = 0 /\ horizon = 0
        /\ connection.generation = 0 /\ connection.active = FALSE
        /\ \A p \in Pollers : poller[p].at = "idle"
    BY DEF MailInit, Idle
  <1>2. CursorIsCovered /\ ResyncHasReason /\ ListingIsCovered
    BY <1>1, TokensAreOwn DEF CursorIsCovered, ResyncHasReason, ListingIsCovered
  <1>3. BaselineIsListed
    BY <1>1, TokensAreOwn, MailAssumption DEF BaselineIsListed
  <1>4. SinceIsOnRecord /\ GenerationsFollow
    BY <1>1 DEF SinceIsOnRecord, GenerationsFollow
  <1>5. \A p \in Pollers : ~MayCommit(p)
    BY <1>1 DEF MayCommit
  <1>6. PagesAreSound
    BY <1>5, Zenon DEF PagesAreSound
  <1>7. PagesAreRight
    BY <1>5, Zenon DEF PagesAreRight
  <1> QED BY <1>2, <1>3, <1>4, <1>6, <1>7 DEF CursorInv

LEMMA NextKeepsCursorInv == ASSUME MailInv, CursorInv, [MailNext]_mailVars PROVE CursorInv'
  <1>1. ASSUME NEW p \in Pollers,
               \/ ClaimPoll(p) \/ Fetch(p) \/ FetchWrong(p) \/ GiveUp(p) \/ Resync(p)
               \/ DropPage(p) \/ RestartOnPage(p) \/ IngestPage(p)
        PROVE  CursorInv'
    BY <1>1, ClaimKeepsCursorInv, FetchKeepsCursorInv, QuietKeepsCursorInv,
       RestartKeepsCursorInv, IngestKeepsCursorInv
  <1>2. ASSUME NEW m \in Mail, JobStep(m) PROVE CursorInv'
    BY <1>2, QuietKeepsCursorInv
  <1>3. CASE \/ Connect \/ Disconnect \/ BeginRestore \/ Resume \/ DisableOwner
             \/ Arrive \/ Age \/ LapsePoll \/ UNCHANGED mailVars
    BY <1>3, QuietKeepsCursorInv
  <1> QED BY <1>1, <1>2, <1>3 DEF MailNext

\* What the cursor has passed is ingested or excused, and the mailbox never loses its
\* place without a reason.
THEOREM CursorStaysSound == MailSpec => []CursorIsSound
  <1>1. MailInit => MailInv /\ CursorInv
    BY InitHasMailInv, InitHasCursorInv
  <1>2. MailInv /\ CursorInv /\ [MailNext]_mailVars => MailInv' /\ CursorInv'
    BY NextKeepsMailInv, StutterKeepsMailInv, NextKeepsCursorInv
  <1>3. CursorInv => CursorIsSound
    BY Zenon DEF CursorInv, CursorIsSound
  <1> QED BY <1>1, <1>2, <1>3, PTL DEF MailSpec
===============================================================================
