------------------------------- MODULE WebParts -------------------------------
(***************************************************************************)
(* The parts of the two web apps in front of their work: sign-in to the    *)
(* cloud app, the tab of a signed-in person, the page that follows the     *)
(* durable queue, the execution of a job with its authority over a         *)
(* connection, and the local app's page, with a thread or a todo on it.    *)
(* Each has its own tables or its own process, and they meet only in calls *)
(* that the module of the caller answers; so one of Parts moves at a time. *)
(***************************************************************************)
EXTENDS Identity, CloudPage, WorkPage, Execution, ThreadPage, TodoPage

CONSTANT Parts
ASSUME PartsAreKnown ==
    Parts \subseteq {"identity", "tab", "work_page", "execution", "thread", "todo"}

VARIABLE part

cloudVars == <<identityVars, tabVars, workPageVars, executionVars>>
shownVars == <<pageVars, todoVars>>
webVars == <<cloudVars, shownVars, part>>

WebInit ==
    /\ part \in Parts
    /\ IdentityInit /\ TabInit /\ WorkPageInit /\ ExecutionInit
    /\ PageInit /\ TodoInit
    /\ part # "tab" => cookie = Nobody /\ channel
    /\ part # "todo" => row.decision = "none" /\ row.title = CHOOSE t \in Titles : TRUE

CloudNext ==
    \/ part = "identity" /\ IdentityNext /\ UNCHANGED <<tabVars, workPageVars, executionVars>>
    \/ part = "tab" /\ TabNext /\ UNCHANGED <<identityVars, workPageVars, executionVars>>
    \/ part = "work_page" /\ WorkPageNext /\ UNCHANGED <<identityVars, tabVars, executionVars>>
    \/ part = "execution" /\ ExecutionNext /\ UNCHANGED <<identityVars, tabVars, workPageVars>>
ShownNext ==
    \/ part = "thread" /\ PageNext /\ UNCHANGED todoVars
    \/ part = "todo" /\ TodoNext /\ UNCHANGED pageVars

WebNext ==
    /\ \/ CloudNext /\ UNCHANGED shownVars
       \/ ShownNext /\ UNCHANGED cloudVars
    /\ UNCHANGED part

WebSpec == WebInit /\ [][WebNext]_webVars

\* Everything the variables of a part may hold.
WebTypeOK ==
    /\ IdentityTypeOK /\ TabTypeOK /\ WorkPageTypeOK /\ ExecutionTypeOK
    /\ PageTypeOK /\ TodoTypeOK

\* What the local page shows of a run and of a todo is so, or will be asked for again.
PageIsTrue == RunIsWatched /\ TodoIsAsShown
=============================================================================
