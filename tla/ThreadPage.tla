------------------------------ MODULE ThreadPage ------------------------------
(***************************************************************************)
(* The page of the local app and the threads of its todos: the execution   *)
(* part of src/static/js/app.js (from setRunning to loadAiThread, and      *)
(* selectTodo, clearSelection and the New thread button), with the run     *)
(* routes of src/app.py behind it.  One thread is on screen, one timer     *)
(* polls for whichever thread set it last, and answers come back in any    *)
(* order.  What a thread says is left out.                                 *)
(***************************************************************************)
CONSTANTS Todos,
          Calls,     \* requests that can be on their way at once
          NoThread   \* no todo

ASSUME NoThreadIsNoTodo == NoThread \notin Todos

VARIABLES
    running,   \* the status of the todo's run in the registry
    onScreen,  \* activeThreadId
    busy,      \* runningTodoId is not null: Stop in place of Send
    pollFor,   \* pollTimer: the thread it will ask for
    call,      \* the requests
    crossed    \* ghost: an answer of another thread has moved the timer

pageVars == <<running, onScreen, busy, pollFor, call, crossed>>

CallKinds == {"load", "ask", "poll", "stop", "reset"}
Call == [at: {"none", "sent", "back", "broken"}, kind: CallKinds, todo: Todos \cup {NoThread},
         status: {"idle", "running", "over"}]
NoCall == [at |-> "none", kind |-> "load", todo |-> NoThread, status |-> "idle"]

PageInit ==
    /\ running = [t \in Todos |-> "idle"]
    /\ onScreen = NoThread /\ busy = FALSE
    /\ pollFor = NoThread
    /\ call = [c \in Calls |-> NoCall]
    /\ crossed = FALSE

Requests(kind, t) ==
    \E c \in Calls :
        /\ call[c].at = "none"
        /\ call' = [call EXCEPT ![c] = [NoCall EXCEPT !.at = "sent", !.kind = kind, !.todo = t]]

---------------------------------------------------------------------------
(* The user *)

\* selectTodo: the thread is asked for, whatever the cache shows of it meanwhile.
Select(t) ==
    /\ Requests("load", t)
    /\ onScreen' = t /\ busy' = FALSE
    /\ pollFor' = NoThread /\ crossed' = FALSE
    /\ UNCHANGED <<running>>

\* clearSelection, and hideChatView.
ClearSelection ==
    /\ onScreen # NoThread
    /\ onScreen' = NoThread /\ pollFor' = NoThread
    /\ UNCHANGED <<running, busy, call, crossed>>

\* callAI, from the composer or an option.
CallAI ==
    /\ onScreen # NoThread /\ ~busy
    /\ Requests("ask", onScreen)
    /\ busy' = TRUE
    /\ UNCHANGED <<running, onScreen, pollFor, crossed>>

StopRun ==
    /\ onScreen # NoThread /\ busy
    /\ Requests("stop", onScreen)
    /\ UNCHANGED <<running, onScreen, busy, pollFor, crossed>>

NewThread ==
    /\ onScreen # NoThread
    /\ Requests("reset", onScreen)
    /\ UNCHANGED <<running, onScreen, busy, pollFor, crossed>>

TimerRings ==
    /\ pollFor # NoThread
    /\ Requests("poll", pollFor)
    /\ pollFor' = NoThread
    /\ UNCHANGED <<running, onScreen, busy, crossed>>

---------------------------------------------------------------------------
(* The server, and the network *)

\* ask_ai starts a run unless one goes on or there is nothing to say; todo_run and
\* stop_todo_run look into the registry; reset_thread discards the run.
AnswerCall(c) ==
    /\ call[c].at = "sent"
    /\ LET t == call[c].todo
           after == CASE call[c].kind = "ask"   -> "running"
                      [] call[c].kind = "reset" -> "idle"
                      [] OTHER                  -> running[t]
           \* a load is answered from the stored thread unless a run goes on
           told  == IF call[c].kind = "load" /\ after # "running" THEN "idle" ELSE after
       IN  /\ running' = [running EXCEPT ![t] = after]
           /\ call' = [call EXCEPT ![c].at = "back", ![c].status = told]
    /\ UNCHANGED <<onScreen, busy, pollFor, crossed>>

LoseCall(c) ==
    /\ call[c].at \in {"sent", "back"}
    /\ call' = [call EXCEPT ![c].at = "broken"]
    /\ UNCHANGED <<running, onScreen, busy, pollFor, crossed>>

\* A run ends, or is no longer known: it was swept, or the process was restarted.
EndRun(t) ==
    /\ running[t] # "idle"
    /\ \E status \in {"over", "idle"} \ {running[t]} : running' = [running EXCEPT ![t] = status]
    /\ UNCHANGED <<onScreen, busy, pollFor, call, crossed>>

---------------------------------------------------------------------------
(* The page, when an answer is back *)

\* An answer for another thread than the one on screen set or cleared the timer.
Crosses(t) == crossed' = (crossed \/ (t # onScreen /\ pollFor' # pollFor))

Forget(c) == call' = [call EXCEPT ![c] = NoCall]

\* applyRunState.
ApplyRunState(t, status) ==
    /\ busy' = IF onScreen = t THEN status = "running" ELSE busy
    /\ pollFor' = IF status = "running" THEN t ELSE NoThread

\* schedulePoll.
KeepsPolling(t) == pollFor' = t

\* The first answer for a thread, ignored when the user has moved on, and when it
\* has nothing to show: no run, and no thread.
LoadReturns(c) ==
    LET t == call[c].todo IN
    /\ call[c].kind = "load" /\ call[c].at \in {"back", "broken"}
    /\ Forget(c)
    /\ \/ call[c].at = "back" /\ onScreen = t /\ ApplyRunState(t, call[c].status)
       \/ /\ call[c].status # "running" \/ call[c].at = "broken" \/ onScreen # t
          /\ UNCHANGED <<busy, pollFor>>
    /\ UNCHANGED <<running, onScreen, crossed>>

AskReturns(c) ==
    LET t == call[c].todo IN
    /\ call[c].kind = "ask" /\ call[c].at \in {"back", "broken"}
    /\ Forget(c)
    /\ IF call[c].at = "back" THEN ApplyRunState(t, call[c].status)
       ELSE pollFor' = NoThread /\ busy' = (busy /\ onScreen # t)
    /\ Crosses(t)
    /\ UNCHANGED <<running, onScreen>>

\* "idle" tells nothing of the thread; the run was reset or the worker restarted.
PollReturns(c) ==
    LET t == call[c].todo IN
    /\ call[c].kind = "poll" /\ call[c].at \in {"back", "broken"}
    /\ Forget(c)
    /\ IF call[c].at = "broken" THEN KeepsPolling(t) /\ UNCHANGED busy
       ELSE ApplyRunState(t, call[c].status)
    /\ Crosses(t)
    /\ UNCHANGED <<running, onScreen>>

StopReturns(c) ==
    /\ call[c].kind = "stop" /\ call[c].at \in {"back", "broken"}
    /\ Forget(c)
    /\ pollFor' = call[c].todo
    /\ Crosses(call[c].todo)
    /\ UNCHANGED <<running, onScreen, busy>>

\* The New thread button does not look at what is on screen by now; a request that
\* was lost does nothing.
NewThreadReturns(c) ==
    /\ call[c].kind = "reset" /\ call[c].at \in {"back", "broken"}
    /\ Forget(c)
    /\ IF call[c].at = "back" THEN pollFor' = NoThread /\ busy' = FALSE
       ELSE UNCHANGED <<pollFor, busy>>
    /\ Crosses(call[c].todo)
    /\ UNCHANGED <<running, onScreen>>

PageNext ==
    \/ (\E t \in Todos : Select(t) \/ EndRun(t))
    \/ ClearSelection \/ CallAI \/ StopRun \/ NewThread \/ TimerRings
    \/ \E c \in Calls : AnswerCall(c) \/ LoseCall(c) \/ LoadReturns(c) \/ AskReturns(c)
                        \/ PollReturns(c) \/ StopReturns(c) \/ NewThreadReturns(c)

PageSpec == PageInit /\ [][PageNext]_pageVars

---------------------------------------------------------------------------
(* Properties *)

PageTypeOK ==
    /\ running \in [Todos -> {"idle", "running", "over"}]
    /\ onScreen \in Todos \cup {NoThread} /\ pollFor \in Todos \cup {NoThread}
    /\ busy \in BOOLEAN /\ crossed \in BOOLEAN
    /\ call \in [Calls -> Call]

\* A request that will tell the page how the run on screen stands.
Asked == \E c \in Calls : call[c].at # "none" /\ call[c].todo = onScreen
                          /\ call[c].kind \in {"ask", "poll", "stop"}

\* The page that shows a run goes on asking for it ("the page starts it, then polls
\* until it reaches a terminal state").
RunIsPolled == onScreen # NoThread /\ busy => pollFor = onScreen \/ Asked

\* The same, as long as no late answer of another thread moves the timer.
RunIsWatched == crossed \/ RunIsPolled
=============================================================================
