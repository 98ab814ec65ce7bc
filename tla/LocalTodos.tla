------------------------------ MODULE LocalTodos ------------------------------
(***************************************************************************)
(* How todos get into the table of the local app: the save_... functions   *)
(* of src/db.py, called by the pollers, by the page and by the agent.  A   *)
(* poller's find is first compared with the recent todos of every source   *)
(* and then inserted, under an id derived from what it was found in; the   *)
(* two are transactions of their own, with the person and the agent        *)
(* writing in between.  Titles that titles_similar takes for one task are  *)
(* one member of Tasks.                                                    *)
(***************************************************************************)
EXTENDS Integers

CONSTANTS Ids, Tasks,
          Short,    \* days a mail or a recording is compared with
          Long,     \* days a page or a file is compared with
          LastDay   \* bound on the clock

ASSUME WindowsAreDays == Short \in Nat /\ Long \in Nat /\ LastDay \in Nat

VARIABLES today,
          todo,      \* the table
          finding    \* the find the poller process is at

tableVars == <<today, todo, finding>>

Pollers == {"gmail", "pocket", "fathom", "browser_history", "system"}
Sources == Pollers \cup {"user"}
\* retitled: ghost, the title was edited; known: ghost, the todos a find was compared with.
Todo == [source: Sources \cup {"none"}, task: Tasks, born: 0 .. LastDay,
         status: {"open", "closed"}, decision: {"none", "accepted", "rejected"},
         retitled: BOOLEAN, known: SUBSET Ids]
Finding == [at: {"none", "found", "checked"}, id: Ids, source: Sources, task: Tasks,
            known: SUBSET Ids]

SomeId == CHOOSE i \in Ids : TRUE
SomeTask == CHOOSE k \in Tasks : TRUE
NoTodo == [source |-> "none", task |-> SomeTask, born |-> 0, status |-> "open",
           decision |-> "none", retitled |-> FALSE, known |-> {}]
NoFinding == [at |-> "none", id |-> SomeId, source |-> "user", task |-> SomeTask,
              known |-> {}]

Exists(i) == todo[i].source # "none"
Existing == {i \in Ids : Exists(i)}

TableInit ==
    /\ today = 0
    /\ todo = [i \in Ids |-> NoTodo]
    /\ finding = NoFinding

NextDay ==
    /\ today < LastDay /\ today' = today + 1
    /\ UNCHANGED <<todo, finding>>

---------------------------------------------------------------------------
(* The poller process *)

\* Something found makes the same id whenever it is found; a system todo has a new one.
Find(i, s, k) ==
    /\ finding.at = "none"
    /\ ~Exists(i) \/ (s # "system" /\ todo[i].source = s)
    /\ finding' = [at |-> "found", id |-> i, source |-> s, task |-> k, known |-> {}]
    /\ UNCHANGED <<today, todo>>

\* How many days back a source is compared; Fathom's items are inserted as they come.
Compared == Pollers \ {"fathom"}
ComparedDays(s) == IF s \in {"gmail", "pocket"} THEN Short ELSE Long

\* Mutant: only what is still open is in the way.
SimilarOpenTodo(s, k) ==
    \E i \in Existing : /\ todo[i].task = k /\ todo[i].born >= today - ComparedDays(s)
                        /\ todo[i].status = "open"
\* similar_recent_todo: from any source and in any status.
SimilarRecentTodo(s, k) ==
    \E i \in Existing : todo[i].task = k /\ todo[i].born >= today - ComparedDays(s)

CheckSimilar ==
    /\ finding.at = "found"
    /\ finding' = IF finding.source \in Compared /\ SimilarRecentTodo(finding.source, finding.task)
                  THEN NoFinding
                  ELSE [finding EXCEPT !.at = "checked", !.known = Existing]
    /\ UNCHANGED <<today, todo>>

\* _save_todo: INSERT OR IGNORE.
SaveTodo ==
    /\ finding.at = "checked"
    /\ IF Exists(finding.id) THEN UNCHANGED todo
       ELSE todo' = [todo EXCEPT ![finding.id] =
                [NoTodo EXCEPT !.source = finding.source, !.task = finding.task,
                               !.born = today, !.known = finding.known]]
    /\ finding' = NoFinding
    /\ UNCHANGED today

\* The process dies, or a call of the poll raises and the source is left for this round.
PollStops ==
    /\ finding.at # "none"
    /\ finding' = NoFinding
    /\ UNCHANGED <<today, todo>>

---------------------------------------------------------------------------
(* The person, and the agent *)

\* save_user_todo, from the page's form or todos_create, is compared with nothing; nor
\* are the samples of seed_onboarding_todos, which nobody has decided about.
CreateTodo(i, k) ==
    /\ ~Exists(i) /\ (finding.at # "none" => finding.id # i)
    /\ \E decision \in {"accepted", "none"} :
          todo' = [todo EXCEPT ![i] = [NoTodo EXCEPT !.source = "user", !.task = k,
                                                     !.born = today, !.decision = decision,
                                                     !.known = Existing]]
    /\ UNCHANGED <<today, finding>>

\* update_todo_fields; TodoPage has what it does to the other fields.
UpdateDecision(i, decision) ==
    /\ Exists(i) /\ decision # "none"
    /\ todo' = [todo EXCEPT ![i].decision = decision,
          ![i].status = IF decision = "rejected" THEN "closed"
                        ELSE IF todo[i].decision = "rejected" THEN "open" ELSE @]
    /\ UNCHANGED <<today, finding>>
SetStatus(i, status) ==
    /\ Exists(i)
    /\ todo' = [todo EXCEPT ![i].status = status]
    /\ UNCHANGED <<today, finding>>
\* init_db, with the next request of the web process.
CloseRejected ==
    /\ \E i \in Existing : todo[i].decision = "rejected" /\ todo[i].status = "open"
    /\ todo' = [i \in Ids |-> IF todo[i].decision = "rejected"
                               THEN [todo[i] EXCEPT !.status = "closed"] ELSE todo[i]]
    /\ UNCHANGED <<today, finding>>
Retitle(i, k) ==
    /\ Exists(i)
    /\ todo' = [todo EXCEPT ![i].task = k, ![i].retitled = TRUE]
    /\ UNCHANGED <<today, finding>>

TableNext ==
    \/ NextDay \/ CloseRejected \/ CheckSimilar \/ SaveTodo \/ PollStops
    \/ \E i \in Ids :
          \/ \E k \in Tasks : CreateTodo(i, k) \/ Retitle(i, k)
                              \/ \E s \in Pollers : Find(i, s, k)
          \/ \E decision \in {"accepted", "rejected"} : UpdateDecision(i, decision)
          \/ \E status \in {"open", "closed"} : SetStatus(i, status)

TableSpec == TableInit /\ [][TableNext]_tableVars

---------------------------------------------------------------------------
(* Properties *)

TableTypeOK == today \in 0 .. LastDay /\ todo \in [Ids -> Todo] /\ finding \in Finding

\* A task the list had stays away ("a task the user closed or rejected must not come
\* back under a new id", src/db.py:1156): a todo of a compared source has no older one
\* of its task that was there when it was compared and younger than the window, however
\* that one was closed or decided.  Titles that were edited no longer tell.
TaskStaysAway ==
    \A i, j \in Ids :
        /\ Exists(j) /\ todo[j].source \in Compared /\ i \in todo[j].known
        /\ todo[i].task = todo[j].task /\ ~todo[i].retitled /\ ~todo[j].retitled
        => todo[j].born - todo[i].born > ComparedDays(todo[j].source)
=============================================================================
