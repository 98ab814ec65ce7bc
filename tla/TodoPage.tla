------------------------------- MODULE TodoPage -------------------------------
(***************************************************************************)
(* One todo on the page of the local app and in the table: the edits of    *)
(* src/static/js/app.js (title, status, accept and reject), the same edits *)
(* by another tab or by the agent's todos_update                           *)
(* (src/agent/todo_tools.py), and update_todo_fields of src/db.py, which   *)
(* reads the row before it writes it.  The page applies to its own copy    *)
(* what it expects the server to have done.  Every request of the web      *)
(* process opens the database with init_db, which settles the rows an      *)
(* older version left rejected and open.                                   *)
(***************************************************************************)
CONSTANTS Patches,   \* updates that can be on their way at once
          Titles

VARIABLES row,       \* the row of the todo
          shown,     \* todosById, and what is drawn from it
          patch,     \* the updates
          reloadDue,   \* ghost: the page cannot know the row, until it is reloaded
          byHand     \* ghost: the status was set by hand after the last decision

todoVars == <<row, shown, patch, reloadDue, byHand>>

Statuses == {"open", "ongoing", "closed"}
Same == "same"       \* a field an update leaves alone
Row == [status: Statuses, decision: {"none", "accepted", "rejected"}, title: Titles]
Update == [status: Statuses \cup {Same}, decision: {"accepted", "rejected", Same},
           title: Titles \cup {Same}]
NoUpdate == [status |-> Same, decision |-> Same, title |-> Same]
\* also: the status update_todo_fields adds; missed: the row was written since it was
\* read; after: the updates of the page written before this one and still unanswered.
Patch == [at: {"none", "sent", "read", "written"}, page: BOOLEAN, sets: Update,
          also: Statuses \cup {Same}, missed: BOOLEAN, after: SUBSET Patches]
NoPatch == [at |-> "none", page |-> FALSE, sets |-> NoUpdate, also |-> Same,
            missed |-> FALSE, after |-> {}]

TodoInit ==
    /\ row \in {[status |-> "open", decision |-> d, title |-> t] :
                   d \in {"none", "accepted"}, t \in Titles}
    /\ shown = row
    /\ patch = [p \in Patches |-> NoPatch]
    /\ reloadDue = FALSE /\ byHand = FALSE

---------------------------------------------------------------------------
(* The page, and the others *)

SendsPatch(p, fromPage, update) ==
    /\ patch[p].at = "none" /\ update # NoUpdate
    /\ patch' = [patch EXCEPT ![p] = [NoPatch EXCEPT !.at = "sent", !.page = fromPage,
                                                     !.sets = update]]
    /\ UNCHANGED <<row, shown, reloadDue, byHand>>

\* The status pill: leaving it commits what it shows, changed or not.
CommitStatus(p) ==
    \E s \in Statuses : SendsPatch(p, TRUE, [NoUpdate EXCEPT !.status = s])

\* startTitleEdit and startRowTitleEdit.
CommitTitle(p) ==
    \E t \in Titles \ {shown.title} : SendsPatch(p, TRUE, [NoUpdate EXCEPT !.title = t])

IsPending == shown.decision = "none" /\ shown.status # "closed"

\* Accept is offered for a pending or rejected todo, Reject for a pending one.
SendDecision(p) ==
    \/ /\ IsPending \/ shown.decision = "rejected"
       /\ SendsPatch(p, TRUE, [NoUpdate EXCEPT !.decision = "accepted"])
    \/ IsPending /\ SendsPatch(p, TRUE, [NoUpdate EXCEPT !.decision = "rejected"])

\* The agent with todos_update, which opens the database without init_db, or another
\* tab after AnyRequest; a title, which decides nothing, on its own.
TodosUpdate(p) ==
    \/ \E s \in Statuses \cup {Same}, d \in {"accepted", "rejected", Same} :
          SendsPatch(p, FALSE, [NoUpdate EXCEPT !.status = s, !.decision = d])
    \/ \E t \in Titles : SendsPatch(p, FALSE, [NoUpdate EXCEPT !.title = t])

\* What is on its way goes on without the page.
Reload ==
    /\ shown' = row /\ reloadDue' = FALSE
    /\ patch' = [p \in Patches |-> IF patch[p].at = "written" THEN NoPatch
                                   ELSE [patch[p] EXCEPT !.page = FALSE]]
    /\ UNCHANGED <<row, byHand>>

---------------------------------------------------------------------------
(* The server *)

\* init_db: "Rejecting now closes. Rows rejected before that rule existed are still open;
\* bring them in line."
Settled(r) == IF r.decision = "rejected" /\ r.status = "open"
              THEN [r EXCEPT !.status = "closed"] ELSE r

\* get_db, which every request of the web process calls first.
AnyRequest ==
    /\ row' = Settled(row) /\ row' # row
    /\ reloadDue' = TRUE
    /\ patch' = [q \in Patches |-> [patch[q] EXCEPT !.missed = @ \/ patch[q].at = "read"]]
    /\ UNCHANGED <<shown, byHand>>
\* The row an update finds, its own request having opened the database.
Found(p) == IF patch[p].page THEN Settled(row) ELSE row

\* A decision alone changes the status of some rows, by what is read of them.
Decides(p) == patch[p].sets.decision # Same /\ patch[p].sets.status = Same

StatusFor(decision, old) ==
    CASE decision = "rejected" /\ old.status # "closed" -> "closed"
      [] decision = "accepted" /\ old.status = "closed" /\ old.decision = "rejected" -> "open"
      [] OTHER -> Same

\* update_todo_fields up to its UPDATE, which is a transaction of its own.
ReadTodo(p) ==
    /\ patch[p].at = "sent" /\ Decides(p)
    /\ row' = Found(p)
    /\ patch' = [q \in Patches |->
          IF q = p THEN [patch[p] EXCEPT !.at = "read",
                             !.also = StatusFor(patch[p].sets.decision, row')]
          ELSE [patch[q] EXCEPT !.missed = @ \/ (patch[q].at = "read" /\ row' # row)]]
    /\ reloadDue' = (reloadDue \/ row' # row)
    /\ UNCHANGED <<shown, byHand>>

Or(new, old) == IF new = Same THEN old ELSE new

WriteTodo(p) ==
    /\ \/ patch[p].at = "sent" /\ ~Decides(p)
       \/ patch[p].at = "read"
    /\ LET sets == patch[p].sets
           old == IF patch[p].at = "sent" THEN Found(p) ELSE row
           unanswered == {q \in Patches : patch[q].at = "written"} IN
       /\ row' = [status   |-> Or(Or(sets.status, patch[p].also), old.status),
                  decision |-> Or(sets.decision, old.decision),
                  title    |-> Or(sets.title, old.title)]
       /\ patch' = [q \in Patches |->
             IF q = p THEN IF patch[p].page
                           THEN [patch[p] EXCEPT !.at = "written", !.after = unanswered]
                           ELSE NoPatch
             ELSE [patch[q] EXCEPT !.missed = @ \/ patch[q].at = "read"]]
       /\ reloadDue' = (reloadDue \/ ~patch[p].page \/ patch[p].missed \/ old # row)
       /\ byHand' = IF sets.status # Same THEN TRUE
                    ELSE IF Decides(p) THEN patch[p].missed ELSE byHand
    /\ UNCHANGED shown

\* The request, the server between its two steps, or the answer is lost.
LosePatch(p) ==
    /\ patch[p].at # "none"
    /\ reloadDue' = (reloadDue \/ patch[p].at = "written")
    /\ patch' = [patch EXCEPT ![p] = NoPatch]
    /\ UNCHANGED <<row, shown, byHand>>

---------------------------------------------------------------------------
(* The page, when an answer is back *)

\* fault: an accepted todo is shown open whatever it was closed for
ReopensClosed(t, decision) ==
    IF decision = "rejected" /\ t.status # "closed" THEN "closed"
    ELSE IF decision = "accepted" /\ t.status = "closed" THEN "open" ELSE t.status
\* applyDecision: "mirror that so the status pill and the row class agree with what a
\* reload would show".
MirroredStatus(t, decision) ==
    IF decision = "rejected" /\ t.status # "closed" THEN "closed"
    ELSE IF decision = "accepted" /\ t.decision = "rejected" /\ t.status = "closed"
         THEN "open" ELSE t.status

PatchReturns(p) ==
    /\ patch[p].at = "written"
    /\ LET sets == patch[p].sets IN
       shown' = [status   |-> IF sets.decision # Same
                              THEN MirroredStatus(shown, sets.decision)
                              ELSE Or(sets.status, shown.status),
                 decision |-> Or(sets.decision, shown.decision),
                 title    |-> Or(sets.title, shown.title)]
    /\ reloadDue' = (reloadDue \/ \E q \in patch[p].after : patch[q].at = "written")
    /\ patch' = [q \in Patches |-> IF q = p THEN NoPatch
                                   ELSE [patch[q] EXCEPT !.after = @ \ {p}]]
    /\ UNCHANGED <<row, byHand>>

TodoNext ==
    \/ \E p \in Patches : CommitStatus(p) \/ CommitTitle(p) \/ SendDecision(p) \/ TodosUpdate(p)
                          \/ ReadTodo(p) \/ WriteTodo(p) \/ LosePatch(p) \/ PatchReturns(p)
    \/ Reload \/ AnyRequest

TodoSpec == TodoInit /\ [][TodoNext]_todoVars

---------------------------------------------------------------------------
(* Properties *)

TodoTypeOK ==
    /\ row \in Row /\ shown \in Row
    /\ patch \in [Patches -> Patch]
    /\ reloadDue \in BOOLEAN /\ byHand \in BOOLEAN

\* A rejection ends a todo: a rejected one is closed, unless its status was set by
\* hand since, or another update came between the two steps of the rejection.
RejectionCloses == row.decision = "rejected" /\ ~byHand => row.status = "closed"

\* The page shows what a reload would, although it never asks, as long as its updates
\* are answered in their order and nobody else wrote the row, init_db included.
PageAgrees == reloadDue \/ (\E p \in Patches : patch[p].at = "written") \/ shown = row

\* What is decided of a todo, here or elsewhere, is what the page shows (db.py:1066).
TodoIsAsShown == RejectionCloses /\ PageAgrees
=============================================================================
