----------------------------- MODULE LocalSchema -----------------------------
(***************************************************************************)
(* init_db of src/db.py: how a database of an older version becomes one of *)
(* this version.  It is run by the poller process when it starts and by    *)
(* the web process before every request (get_db of src/app.py), so it may  *)
(* run twice at once, be cut off anywhere, and be met by its own leavings. *)
(*                                                                         *)
(* SQLite lets one connection write at a time.  A statement that changes   *)
(* rows opens a transaction (the default of Python's sqlite3); one that    *)
(* changes a table joins it if there is one and is committed at once if    *)
(* there is none; executescript commits what is open first.                *)
(***************************************************************************)
EXTENDS Naturals, Sequences

CONSTANTS Starters,    \* the processes that open the database
          Histories,   \* the versions the database may come from
          NoStarter,
          MaxStarts    \* bound on the runs of init_db

ASSUME SchemaConstants ==
    /\ Histories \subseteq {"fresh", "single_user", "single_account"}
    /\ NoStarter \notin Starters /\ MaxStarts \in Nat

VARIABLES file,       \* the database, as committed
          work,       \* what the writer's transaction has made of it
          writer,     \* the connection that holds the write lock
          opening,    \* each connection's run of init_db
          starts,
          stored,     \* ghost: the connections of sources that must be there
          outpaced   \* ghost: a rebuild of the connections was begun before another's
                      \* and copied its result

schemaVars == <<file, work, writer, opening, starts, stored, outpaced>>

\* Who a row belongs to: the owner the single-user rows are given to, or another.
Owners == {"legacy", "other"}
Connection == [owner: Owners \cup {"nobody"}, source: {"gmail", "fathom"}]

\* The columns the ALTERs are about, in their order: the first group and, from the sixth
\* on, the second.
Altering == <<"urgency", "draft", "dedup_key", "source_meta", "updated_at",
              "user_id", "account_id", "executor_state", "action_options">>
Left == {"urgency", "draft"}
Added == {"dedup_key", "source_meta", "updated_at"}
Second == {Altering[i] : i \in 6 .. 9}
Columns == Left \cup Added \cup Second \cup {"event_id"}   \* and the three that went with it

\* check: the sources the CHECK of the todos knows, if it has one.  conns: the key of
\* source_connections.  spare, copy: source_connections_new and its rows.  Of the
\* cursors in state and user_state one stands for all: its value, 0 for no row.
Database ==
    [cols: SUBSET Columns, check: {"none", "stale", "current"},
     conns: {"missing", "by source", "by user", "by account"}, rows: SUBSET Connection,
     spare: BOOLEAN, copy: SUBSET Connection, state: 0 .. 1, cursor: 0 .. 2,
     \* one todo, with its message id (in event_id or in dedup_key) and its owner
     todo: BOOLEAN, keyed: BOOLEAN, owner: Owners \cup {"nobody"}]

Current == Added \cup Second
Version(h) ==
    CASE h = "fresh" ->
           [cols |-> {}, check |-> "none", conns |-> "missing", rows |-> {}, spare |-> FALSE,
            copy |-> {}, state |-> 0, cursor |-> 0, todo |-> FALSE, keyed |-> FALSE,
            owner |-> "nobody"]
      [] h = "single_user" ->
           [cols |-> {"urgency", "draft", "event_id"}, check |-> "stale",
            conns |-> "by source",
            rows |-> {[owner |-> "nobody", source |-> s] : s \in {"gmail", "fathom"}},
            spare |-> FALSE, copy |-> {}, state |-> 1, cursor |-> 0, todo |-> TRUE,
            keyed |-> FALSE, owner |-> "nobody"]
      [] h = "single_account" ->
           [cols |-> Added \cup {"user_id"}, check |-> "stale", conns |-> "by user",
            rows |-> {[owner |-> "legacy", source |-> s] : s \in {"gmail", "fathom"}},
            spare |-> FALSE, copy |-> {}, state |-> 0, cursor |-> 1, todo |-> TRUE,
            keyed |-> TRUE, owner |-> "legacy"]

Stages == {"off", "tables", "columns", "alter", "backfill", "drop", "columns again", "widen",
           "look", "user", "create", "copy", "swap", "owners", "cursors", "check", "rebuild",
           "finish", "ready", "raised"}
\* What a run has read of the database, and the ALTERs it still means to make; lone: no
\* other run was under way with it.
Opening == [at: Stages, alters: SUBSET Columns, migrates: BOOLEAN, drops: BOOLEAN,
            conns: {"by source", "by user", "by account"}, orphans: BOOLEAN,
            cursor: BOOLEAN, lone: BOOLEAN]
Off == [at |-> "off", alters |-> {}, migrates |-> FALSE, drops |-> FALSE,
        conns |-> "by account", orphans |-> FALSE, cursor |-> FALSE, lone |-> FALSE]

SchemaInit ==
    /\ \E h \in Histories :
          /\ file = Version(h)
          /\ stored = IF h = "fresh" THEN {} ELSE {[owner |-> "legacy", source |-> "fathom"]}
    /\ work = file /\ writer = NoStarter
    /\ opening = [p \in Starters |-> Off]
    /\ starts = 0 /\ outpaced = FALSE

---------------------------------------------------------------------------
(* Statements *)

View(p) == IF writer = p THEN work ELSE file
MayWrite(p) == writer \in {p, NoStarter}

\* INSERT, UPDATE and DELETE.
Changes(p, new) == MayWrite(p) /\ work' = new /\ writer' = p /\ UNCHANGED file

\* ALTER, CREATE and DROP.
Alters(p, new) ==
    /\ MayWrite(p) /\ work' = new
    /\ file' = IF writer = p THEN file ELSE new
    /\ UNCHANGED writer

Commits(p) ==
    /\ file' = View(p) /\ UNCHANGED work
    /\ writer' = IF writer = p THEN NoStarter ELSE writer
Idles == UNCHANGED <<file, work, writer>>

Goes(p, to) == opening' = [opening EXCEPT ![p].at = to]
\* An error ends the run and, with the connection, what it had not committed.
Raises(p) ==
    /\ Goes(p, "raised")
    /\ writer' = IF writer = p THEN NoStarter ELSE writer
    /\ work' = IF writer = p THEN file ELSE work
    /\ UNCHANGED file

---------------------------------------------------------------------------
(* init_db *)

At(p, place) == opening[p].at = place
Busy(p) == opening[p].at \notin {"off", "ready", "raised"}
Quiet == UNCHANGED <<starts, stored, outpaced>>

OpenDatabase(p) ==
    /\ At(p, "off") /\ starts < MaxStarts
    /\ starts' = starts + 1
    /\ opening' = [q \in Starters |->
          IF q = p THEN [Off EXCEPT !.at = "tables",
                                    !.lone = \A other \in Starters : ~Busy(other)]
          ELSE [opening[q] EXCEPT !.lone = @ /\ ~Busy(q)]]
    /\ Idles /\ UNCHANGED <<stored, outpaced>>

\* CREATE TABLE IF NOT EXISTS: a fresh database gets the tables as they are now.
CreateTables(p) ==
    /\ At(p, "tables") /\ Goes(p, "columns") /\ Quiet
    /\ IF View(p).conns # "missing" THEN Idles
       ELSE Alters(p, [View(p) EXCEPT !.cols = Current, !.check = "current",
                                      !.conns = "by account"])

\* The columns of todos are read once for each group of ALTERs.
ReadColumns(p) ==
    /\ At(p, "columns") /\ Idles /\ Quiet
    /\ LET seen == View(p).cols
           migrates == "event_id" \in seen \/ "dedup_key" \notin seen IN
       opening' = [opening EXCEPT ![p] = [@ EXCEPT
           !.at = "alter", !.migrates = migrates, !.drops = "event_id" \in seen,
           !.alters = (Left \cap seen) \cup IF migrates THEN Added \ seen ELSE {}]]
ReadAgain(p) ==
    /\ At(p, "columns again") /\ Idles /\ Quiet
    /\ opening' = [opening EXCEPT ![p].at = "widen",
                                  ![p].alters = Second \ View(p).cols]

\* One ALTER of todos.  It fails when another run was faster, which is "safe to ignore"
\* for the column that is renamed and ends the run for the others.
IsBefore(d, c) == \E i, j \in DOMAIN Altering : i < j /\ d = Altering[i] /\ c = Altering[j]
Alter(p) ==
    /\ At(p, "alter") \/ At(p, "widen")
    /\ Quiet
    /\ \E c \in opening[p].alters :
          LET fits == c \in Left <=> c \in View(p).cols IN
          /\ \A d \in opening[p].alters : ~IsBefore(d, c)
          /\ \/ /\ fits /\ opening' = [opening EXCEPT ![p].alters = @ \ {c}]
                /\ Alters(p, [View(p) EXCEPT !.cols = IF c \in Left THEN @ \ {c} ELSE @ \cup {c}])
             \/ /\ ~fits /\ c = "urgency" /\ Idles
                /\ opening' = [opening EXCEPT ![p].alters = @ \ {c}]
             \/ ~fits /\ c # "urgency" /\ Raises(p)
Altered(p) ==
    /\ opening[p].alters = {} /\ Idles /\ Quiet
    /\ \/ At(p, "alter") /\ Goes(p, IF opening[p].migrates THEN "backfill"
                                     ELSE "columns again")
       \/ At(p, "widen") /\ Goes(p, "look")

\* fault: the todos are keyed after the old columns are dropped, from what is left
KeyTodosLate(p) ==
    /\ At(p, "backfill") /\ Idles /\ Quiet
    /\ Goes(p, "drop")
\* The message id goes from the old columns into dedup_key before they are dropped, in
\* one transaction if there is a todo at all.
KeyTodos(p) ==
    /\ At(p, "backfill") /\ Quiet
    /\ \/ /\ opening[p].drops /\ "event_id" \notin View(p).cols
          /\ Raises(p)
       \/ /\ opening[p].drops => "event_id" \in View(p).cols
          /\ IF View(p).todo
             THEN Changes(p, [View(p) EXCEPT !.keyed = @ \/ opening[p].drops]) ELSE Idles
          /\ Goes(p, "drop")
DropColumns(p) ==
    /\ At(p, "drop") /\ Quiet
    /\ \/ ~opening[p].drops /\ Idles /\ Goes(p, "columns again")
       \/ /\ opening[p].drops /\ "event_id" \in View(p).cols
          /\ Alters(p, [View(p) EXCEPT !.cols = @ \ {"event_id"}])
          /\ Goes(p, "columns again")
       \/ opening[p].drops /\ "event_id" \notin View(p).cols /\ Raises(p)

\* needs_sc_rebuild, has_orphan_todos, has_legacy_sc_rows and has_legacy_state.
Narrow(o) == o.conns # "by account"
Look(p) ==
    /\ At(p, "look") /\ Idles /\ Quiet
    /\ LET db == View(p)
           seen == [opening[p] EXCEPT !.conns = db.conns,
                        !.orphans = db.todo /\ db.owner = "nobody", !.cursor = db.state = 1] IN
       opening' = [opening EXCEPT ![p] = [seen EXCEPT !.at =
           IF seen.orphans \/ seen.cursor \/ (db.conns = "by source" /\ db.rows # {})
           THEN "user" ELSE IF Narrow(seen) THEN "create" ELSE "owners"]]

\* upsert_user commits, and with it whatever is open.
UpsertUser(p) ==
    /\ At(p, "user") /\ MayWrite(p) /\ Quiet
    /\ file' = View(p) /\ work' = View(p) /\ writer' = NoStarter
    /\ Goes(p, IF Narrow(opening[p]) THEN "create" ELSE "owners")

\* CREATE TABLE source_connections_new, without IF NOT EXISTS.
CreateSpare(p) ==
    /\ At(p, "create") /\ Quiet
    /\ IF View(p).spare THEN Raises(p)
       ELSE Alters(p, [View(p) EXCEPT !.spare = TRUE]) /\ Goes(p, "copy")

\* "Gmail rows are deliberately NOT carried across"; rows without a person become the
\* legacy person's, and no two may get the same key.
CarriedOf(p) == {row \in View(p).rows : row.source # "gmail"}
AsCarried(p, row) ==
    [row EXCEPT !.owner = IF opening[p].conns = "by source" THEN "legacy" ELSE @]
Copy(p) ==
    /\ At(p, "copy") /\ UNCHANGED <<starts, stored>>
    /\ IF \E c, d \in CarriedOf(p) : c # d /\ AsCarried(p, c) = AsCarried(p, d)
       THEN Raises(p) /\ UNCHANGED outpaced
       ELSE /\ Changes(p, [View(p) EXCEPT
                           !.copy = {AsCarried(p, row) : row \in CarriedOf(p)}])
            /\ Goes(p, "swap")
            /\ outpaced' = (outpaced \/ View(p).conns = "by account")
\* DROP and RENAME, in the transaction of the copy.
Swap(p) ==
    /\ At(p, "swap") /\ Goes(p, "owners") /\ Quiet
    /\ Changes(p, [View(p) EXCEPT !.rows = View(p).copy, !.copy = {}, !.spare = FALSE,
                                  !.conns = "by account"])

OwnTodos(p) ==
    /\ At(p, "owners") /\ Goes(p, "cursors") /\ Quiet
    /\ IF opening[p].orphans
       THEN Changes(p, [View(p) EXCEPT !.owner = IF @ = "nobody" THEN "legacy" ELSE @])
       ELSE Idles
MoveCursors(p) ==
    /\ At(p, "cursors") /\ Goes(p, "check") /\ Quiet
    /\ IF opening[p].cursor /\ View(p).state = 1
       THEN Changes(p, [View(p) EXCEPT !.cursor = 1, !.state = 0]) ELSE Idles

\* _rebuild_todos_if_source_check_stale: its script commits what is open, and is a
\* transaction of its own ("a rebuild that stopped between DROP and RENAME would take
\* the inbox with it").
CheckSources(p) ==
    /\ At(p, "check") /\ Quiet
    /\ IF View(p).check = "stale" THEN Commits(p) /\ Goes(p, "rebuild")
       ELSE Idles /\ Goes(p, "finish")
RebuildTodos(p) ==
    /\ At(p, "rebuild") /\ Quiet
    /\ IF View(p).cols \subseteq Current
       THEN /\ Alters(p, [View(p) EXCEPT !.check = "current", !.cols = Current])
            /\ Goes(p, "finish")
       ELSE Raises(p)

\* The last script and UPDATE; what they write is no part of this module (see TodoPage).
Finish(p) == At(p, "finish") /\ Commits(p) /\ Goes(p, "ready") /\ Quiet

---------------------------------------------------------------------------
(* The requests and the poller, and their ends *)

\* set_source_credentials, set_user_state of a poll.
Connects(p) ==
    /\ At(p, "ready") /\ writer = NoStarter
    /\ \E c \in [owner: Owners, source: {"gmail", "fathom"}] :
          /\ file' = [file EXCEPT !.rows = @ \cup {c}]
          /\ stored' = stored \cup {c}
    /\ work' = file' /\ UNCHANGED <<writer, opening, starts, outpaced>>
Polls(p) ==
    /\ At(p, "ready") /\ writer = NoStarter
    /\ file' = [file EXCEPT !.cursor = 2] /\ work' = file'
    /\ UNCHANGED <<writer, opening, starts, stored, outpaced>>

\* The request is over, or the process ends, wherever it is.
Closes(p) ==
    /\ opening[p].at # "off"
    /\ opening' = [opening EXCEPT ![p] = Off]
    /\ writer' = IF writer = p THEN NoStarter ELSE writer
    /\ work' = IF writer = p THEN file ELSE work
    /\ UNCHANGED file /\ Quiet

SchemaNext ==
    \E p \in Starters :
        \/ OpenDatabase(p) \/ CreateTables(p) \/ ReadColumns(p) \/ ReadAgain(p) \/ Alter(p)
        \/ Altered(p) \/ KeyTodos(p) \/ DropColumns(p) \/ Look(p) \/ UpsertUser(p)
        \/ CreateSpare(p) \/ Copy(p) \/ Swap(p) \/ OwnTodos(p) \/ MoveCursors(p)
        \/ CheckSources(p) \/ RebuildTodos(p) \/ Finish(p)
        \/ Connects(p) \/ Polls(p) \/ Closes(p)

SchemaSpec == SchemaInit /\ [][SchemaNext]_schemaVars

---------------------------------------------------------------------------
(* Properties *)

SchemaTypeOK ==
    /\ file \in Database /\ work \in Database /\ writer \in Starters \cup {NoStarter}
    /\ opening \in [Starters -> Opening] /\ starts \in 0 .. MaxStarts
    /\ stored \subseteq [owner: Owners, source: {"gmail", "fathom"}]
    /\ outpaced \in BOOLEAN

\* A todo never loses the message it was made from, which is all that keeps it from
\* being made again.
MessageIsKept == file.todo => "event_id" \in file.cols \/ file.keyed

\* A connected source stays connected, to its person, unless two rebuilds of the table
\* ran one after the other from what was read before both.
Under(owner) == IF file.conns = "by source" THEN "nobody" ELSE owner
ConnectionsAreKept ==
    outpaced \/ \A c \in stored : [c EXCEPT !.owner = Under(c.owner)] \in file.rows

\* A source's cursor is moved once and never back.
CursorIsKept == file.state + file.cursor \in 1 .. 2 \/ ~file.todo

\* A run that no other was under way with succeeds, whatever was cut off before it,
\* unless that left source_connections_new behind, empty.
LoneRunWorks ==
    \A p \in Starters : At(p, "raised") =>
        ~opening[p].lone \/ (file.spare /\ file.copy = {})

\* Who gets through finds the tables of this version.
ReadyIsCurrent ==
    \A p \in Starters : At(p, "ready") =>
        /\ file.conns = "by account" /\ file.check # "stale" /\ file.cols = Current
        /\ file.todo => file.owner # "nobody"

\* An upgrade loses nothing, whoever runs it beside whom and wherever it is cut off.
UpgradeLosesNothing ==
    MessageIsKept /\ ConnectionsAreKept /\ CursorIsKept /\ LoneRunWorks /\ ReadyIsCurrent
=============================================================================
