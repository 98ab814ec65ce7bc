------------------------------ MODULE LocalMail ------------------------------
(***************************************************************************)
(* The local poller and one Gmail account: poll of                         *)
(* src/pollers/gmail/poller.py, the todos made of its mail                 *)
(* (_poll_gmail_account in src/main.py, save_todo in src/db.py, the notice *)
(* of src/push_notify.py), and the routes of src/app.py that connect and   *)
(* disconnect the account.  The poller and the web server are two          *)
(* processes over one SQLite file; each write is a commit of its own.      *)
(*                                                                         *)
(* A mail is its position in the account's history.  What the spam filter, *)
(* the model and the search for similar todos say of it is a choice.       *)
(***************************************************************************)
EXTENDS Naturals

CONSTANTS MaxMail,      \* bound on the mail that arrives
          MaxConnects,  \* bound on connect callbacks
          None

ASSUME MailBounds == MaxMail \in Nat /\ MaxConnects \in Nat
ASSUME NoneIsNoMail == None \notin Nat

VARIABLES mailbox,     \* the newest history id
          connected,   \* the account's row in source_connections
          pending,     \* backfill_pending
          backfilled,  \* backfilled
          cursor,      \* history_id
          poller,      \* where the poller is with this account
          web,         \* where the connect callback is
          connects,
          considered,  \* mail the poller has come to a verdict on
          rows,        \* mail with a todo
          announced,   \* how often each todo was announced
          lost,        \* mail of a batch whose poll did not end
          raced        \* a callback cleared the cursor a backfill had stored

settings == <<connected, pending, backfilled, web, connects>>
mailVars == <<mailbox, settings, cursor, poller, considered, rows, announced,
              lost, raced>>

Mail == 1 .. MaxMail
Places == {"idle", "first", "baseline", "store", "flag", "unmark", "history",
           "advance", "todos", "notify"}
Poller == [at: Places, base: 0 .. MaxMail, batch: SUBSET Mail]
IdlePoller == [at |-> "idle", base |-> 0, batch |-> {}]

MailInit ==
    /\ mailbox = 0
    /\ connected = FALSE /\ pending = FALSE /\ backfilled = FALSE
    /\ cursor = None
    /\ poller = IdlePoller
    /\ web = "idle" /\ connects = 0
    /\ considered = {} /\ rows = {} /\ lost = {} /\ raced = FALSE
    /\ announced = [m \in Mail |-> 0]

Arrive ==
    /\ mailbox < MaxMail
    /\ mailbox' = mailbox + 1
    /\ UNCHANGED <<settings, cursor, poller, considered, rows, announced, lost, raced>>

---------------------------------------------------------------------------
(* The connect callback: credentials, then the mark, then the cursor *)

Connect ==
    /\ web = "idle" /\ connects < MaxConnects
    /\ connected' = TRUE
    /\ web' = "ask" /\ connects' = connects + 1
    /\ UNCHANGED <<mailbox, pending, backfilled, cursor, poller, considered, rows,
                   announced, lost, raced>>

\* An account that was backfilled before goes on where its cursor is.
AskBackfilled ==
    /\ web = "ask"
    /\ web' = IF backfilled THEN "idle" ELSE "mark"
    /\ UNCHANGED <<mailbox, connected, pending, backfilled, connects, cursor, poller,
                   considered, rows, announced, lost, raced>>

MarkPending ==
    /\ web = "mark"
    /\ pending' = TRUE
    /\ web' = "clear"
    /\ UNCHANGED <<mailbox, connected, backfilled, connects, cursor, poller,
                   considered, rows, announced, lost, raced>>

ClearCursor ==
    /\ web = "clear"
    /\ cursor' = None
    /\ web' = "idle"
    /\ raced' = (raced \/ ~pending \/ poller.at \in {"flag", "unmark"})
    /\ UNCHANGED <<mailbox, connected, pending, backfilled, connects, poller,
                   considered, rows, announced, lost>>

CallbackDies ==
    /\ web # "idle"
    /\ web' = "idle"
    /\ UNCHANGED <<mailbox, connected, pending, backfilled, connects, cursor, poller,
                   considered, rows, announced, lost, raced>>

\* The cursor and the marks stay.
Disconnect ==
    /\ web = "idle" /\ connected
    /\ connected' = FALSE
    /\ UNCHANGED <<mailbox, pending, backfilled, web, connects, cursor, poller,
                   considered, rows, announced, lost, raced>>

---------------------------------------------------------------------------
(* One poll of the account *)

\* The baseline is taken here, before the mail is read.
Begin ==
    /\ poller.at = "idle" /\ connected
    /\ poller' = [at |-> IF pending THEN "baseline"
                         ELSE IF cursor = None THEN "first" ELSE "history",
                  base |-> IF ~pending /\ cursor # None THEN cursor ELSE mailbox,
                  batch |-> {}]
    /\ UNCHANGED <<mailbox, settings, cursor, considered, rows, announced, lost, raced>>

\* An account without a cursor and without the mark starts at the present.
StartAtPresent ==
    /\ poller.at = "first"
    /\ cursor' = poller.base
    /\ poller' = IdlePoller
    /\ UNCHANGED <<mailbox, settings, considered, rows, announced, lost, raced>>

\* All mail of the window, what came since the baseline included.
Backfill ==
    /\ poller.at = "baseline"
    /\ poller' = [poller EXCEPT !.at = "store", !.batch = 1 .. mailbox]
    /\ UNCHANGED <<mailbox, settings, cursor, considered, rows, announced, lost, raced>>

\* Mutant: the cursor is the newest mail there is when the backfill ends.
StoreNewest ==
    /\ poller.at = "store"
    /\ cursor' = mailbox
    /\ poller' = [poller EXCEPT !.at = "flag"]
    /\ UNCHANGED <<mailbox, settings, considered, rows, announced, lost, raced>>

StoreBaseline ==
    /\ poller.at = "store"
    /\ cursor' = poller.base
    /\ poller' = [poller EXCEPT !.at = "flag"]
    /\ UNCHANGED <<mailbox, settings, considered, rows, announced, lost, raced>>

FlagBackfilled ==
    /\ poller.at = "flag"
    /\ backfilled' = TRUE
    /\ poller' = [poller EXCEPT !.at = "unmark"]
    /\ UNCHANGED <<mailbox, connected, pending, web, connects, cursor, considered,
                   rows, announced, lost, raced>>

Unmark ==
    /\ poller.at = "unmark"
    /\ pending' = FALSE
    /\ poller' = [poller EXCEPT !.at = "todos"]
    /\ UNCHANGED <<mailbox, connected, backfilled, web, connects, cursor, considered,
                   rows, announced, lost, raced>>

\* The pages of history.list after the cursor, read to the end.
History ==
    /\ poller.at = "history"
    /\ poller' = IF mailbox = poller.base THEN IdlePoller
                 ELSE [at |-> "advance", base |-> mailbox,
                       batch |-> poller.base + 1 .. mailbox]
    /\ UNCHANGED <<mailbox, settings, cursor, considered, rows, announced, lost, raced>>

\* The cursor is stored before a todo is made of what it passes.
Advance ==
    /\ poller.at = "advance"
    /\ cursor' = poller.base
    /\ poller' = [poller EXCEPT !.at = "todos"]
    /\ UNCHANGED <<mailbox, settings, considered, rows, announced, lost, raced>>

\* Spam, nothing to do, a similar recent todo, or a new row: INSERT OR IGNORE tells
\* whether the mail had its row already.
Judge(m) ==
    /\ poller.at = "todos" /\ m \in poller.batch
    /\ considered' = considered \cup {m}
    /\ \/ /\ poller' = [poller EXCEPT !.batch = poller.batch \ {m}]
          /\ UNCHANGED rows
       \/ /\ m \notin rows
          /\ rows' = rows \cup {m}
          /\ poller' = [poller EXCEPT !.at = "notify", !.base = m,
                                      !.batch = poller.batch \ {m}]
    /\ UNCHANGED <<mailbox, settings, cursor, announced, lost, raced>>

\* notify_new_todo never raises.
Notify ==
    /\ poller.at = "notify"
    /\ announced' = [announced EXCEPT ![poller.base] = announced[poller.base] + 1]
    /\ poller' = [poller EXCEPT !.at = "todos"]
    /\ UNCHANGED <<mailbox, settings, cursor, considered, rows, lost, raced>>

EndOfBatch ==
    /\ poller.at = "todos" /\ poller.batch = {}
    /\ poller' = IdlePoller
    /\ UNCHANGED <<mailbox, settings, cursor, considered, rows, announced, lost, raced>>

\* The provider, the model or the database raises, and main() goes on with the next
\* account; or the process dies.  Mail that the stored cursor has passed is not
\* read again.
PollEnds ==
    /\ poller.at # "idle"
    /\ lost' = IF poller.at \in {"todos", "notify"} THEN lost \cup poller.batch ELSE lost
    /\ poller' = IdlePoller
    /\ UNCHANGED <<mailbox, settings, cursor, considered, rows, announced, raced>>

MailNext ==
    \/ Arrive
    \/ Connect \/ AskBackfilled \/ MarkPending \/ ClearCursor \/ CallbackDies
    \/ Disconnect
    \/ Begin \/ StartAtPresent \/ Backfill \/ StoreBaseline \/ FlagBackfilled \/ Unmark
    \/ History \/ Advance
    \/ (\E m \in Mail : Judge(m)) \/ Notify \/ EndOfBatch \/ PollEnds

MailSpec == MailInit /\ [][MailNext]_mailVars

---------------------------------------------------------------------------
(* Properties *)

LocalMailTypeOK ==
    /\ mailbox \in 0 .. MaxMail
    /\ connected \in BOOLEAN /\ pending \in BOOLEAN /\ backfilled \in BOOLEAN
    /\ cursor \in 0 .. MaxMail \cup {None}
    /\ poller \in Poller
    /\ web \in {"idle", "ask", "mark", "clear"}
    /\ connects \in 0 .. MaxConnects
    /\ considered \in SUBSET Mail /\ rows \in SUBSET Mail /\ lost \in SUBSET Mail
    /\ announced \in [Mail -> Nat]
    /\ raced \in BOOLEAN

\* Once an account is backfilled, its cursor has passed no mail that was neither
\* considered, nor is about to be, nor was lost when a poll of it ended early
\* (poller.py: "Capture baseline before fetching so incremental polls pick up
\* anything that arrives during backfill").  The exception is a callback that is
\* between its mark and its clear while a whole backfill stores its cursor.
NoSilentGap ==
    backfilled /\ ~pending /\ cursor # None /\ ~raced
        => 1 .. cursor \subseteq considered \cup poller.batch \cup lost

\* However often a mail is read again - an overlap of backfill and history, a
\* reconnect, a poll that ended early - its todo is announced once at most.
AnnouncedOnce == \A m \in Mail : announced[m] <= 1 /\ (announced[m] = 1 => m \in rows)

\* The mail of an account is considered, and told of once.
MailIsHandled == NoSilentGap /\ AnnouncedOnce
=============================================================================
