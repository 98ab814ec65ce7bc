--------------------------- MODULE WebParts_proofs ---------------------------
(***************************************************************************)
(* The parts of the two web apps are proved one by one, each for its own   *)
(* specification: the tab of a signed-in person, the execution of a job,   *)
(* the local page with a thread on it, the page of the durable queue, the  *)
(* local page with a todo on it.  The parts share no variable, so a step   *)
(* of WebParts is a step of one part and a stutter of the others, and what *)
(* holds of a part holds of the whole.                                     *)
(***************************************************************************)
EXTENDS WebParts, Identity_proofs

---------------------------------------------------------------------------
(* The tab of a signed-in person *)

\* The account is the one of the tickets, and only a tab that is awake has one.
TicketsAreForAccount ==
    /\ auth # Nobody => auth = context
    /\ ~suspended => auth = context /\ auth \in Accounts

\* A tab that is hidden or left waits for no answer that would show an account.
NothingIsAwaited == hidden \/ leaving => boot.at = "none"

TabInv ==
    /\ screen \in Screens /\ boot \in Boots
    /\ OneAccountShown
    /\ TicketsAreForAccount
    /\ NothingIsAwaited

\* What clearAccount leaves of the account.
Cleared ==
    /\ suspended' = TRUE
    /\ auth' = Nobody /\ conversation' = Nobody /\ unsent' = Nobody
    /\ screen' = Blank /\ cursor' = Nobody

\* What revalidate and the ends of it leave to be awaited.
BootIsFit == boot' \in Boots /\ (hidden' \/ leaving' => boot'.at = "none")

---------------------------------------------------------------------------
LEMMA Waiting ==
    /\ NoBoot \in Boots /\ NoBoot.at = "none"
    /\ [NoBoot EXCEPT !.at = "sent"] \in Boots
BY DEF NoBoot, Boots, Answers

\* A cleared tab keeps the invariant, whatever it was before.
LEMMA ClearedIsBlank == ASSUME Cleared, BootIsFit PROVE TabInv'
<1>1. screen' \in Screens
  BY DEF Cleared, Blank, Screens
<1>2. OneAccountShown'
  BY DEF Cleared, Blank, OneAccountShown
<1>3. TicketsAreForAccount'
  BY DEF Cleared, TicketsAreForAccount
<1> QED  BY <1>1, <1>2, <1>3 DEF TabInv, BootIsFit, NothingIsAwaited

\* So does a tab whose account is untouched.
LEMMA UntouchedIsKept ==
    ASSUME TabInv, UNCHANGED account, UNCHANGED <<hidden, leaving>>, BootIsFit
    PROVE  TabInv'
<1>1. screen' \in Screens /\ OneAccountShown' /\ TicketsAreForAccount'
  BY DEF TabInv, account, OneAccountShown, TicketsAreForAccount
<1> QED  BY <1>1 DEF TabInv, BootIsFit, NothingIsAwaited

\* revalidate keeps to what a hidden tab may await.
LEMMA RevalidateIsFit ==
    ASSUME Revalidate, UNCHANGED <<hidden, leaving>> PROVE BootIsFit
BY Waiting DEF Revalidate, BootIsFit

\* An awake tab has no part in what is shown but its account's.
LEMMA ShownIsOwn ==
    ASSUME TabInv
    PROVE  /\ screen.profile \subseteq {auth} /\ screen.todos \subseteq {auth}
           /\ screen.thread \subseteq {auth}
           /\ conversation \in {auth, Nobody} /\ unsent \in {auth, Nobody}
           /\ cursor \in {auth, Nobody}
           /\ auth = Nobody => screen.profile = {} /\ screen.todos = {} /\ screen.thread = {}
<1>1. /\ screen.profile \subseteq {auth} /\ screen.todos \subseteq {auth}
      /\ screen.thread \subseteq {auth}
      /\ conversation \in {auth, Nobody} /\ unsent \in {auth, Nobody}
      /\ cursor \in {auth, Nobody}
  BY DEF TabInv, OneAccountShown
<1>2. /\ screen.profile \subseteq Accounts /\ screen.todos \subseteq Accounts
      /\ screen.thread \subseteq Accounts
  BY DEF TabInv, Screens
<1> QED  BY <1>1, <1>2, NobodyHasNoAccount

---------------------------------------------------------------------------
(* Steps *)

LEMMA TabStarts == TabInit => TabInv
<1> SUFFICES ASSUME TabInit PROVE TabInv
  OBVIOUS
<1>1. screen \in Screens /\ OneAccountShown
  BY DEF TabInit, Blank, Screens, OneAccountShown
<1>2. TicketsAreForAccount
  BY DEF TabInit, TicketsAreForAccount
<1>3. boot \in Boots /\ NothingIsAwaited
  BY Waiting DEF TabInit, NothingIsAwaited
<1> QED  BY <1>1, <1>2, <1>3 DEF TabInv

\* An account is shown only in a tab that is seen, and nothing of another stays.
LEMMA ShowingIsOwn == ASSUME TabInv, BootShows PROVE TabInv'
<1> DEFINE a == boot.first
           left == IF context \notin {Nobody, a} THEN {} ELSE screen.thread
<1>1. /\ context' = a /\ suspended' = FALSE /\ auth' = a /\ cursor' \in {a, Nobody}
      /\ screen' = [profile |-> {a}, todos |-> {a}, thread |-> left]
      /\ conversation' = IF context = a THEN conversation ELSE Nobody
      /\ unsent' = IF suspended \/ context # a THEN Nobody ELSE unsent
      /\ boot' = NoBoot /\ UNCHANGED <<hidden, leaving>>
      /\ a \in Accounts /\ Confirmed
  BY Zenon DEF BootShows
<1>2. boot.at \in {"back", "both"}
  BY <1>1 DEF Confirmed
<1>3. ~hidden /\ ~leaving
  BY <1>2 DEF TabInv, NothingIsAwaited
<1>4. left \subseteq {a}
  <2>1. CASE context \in {Nobody, a}
    <3>1. auth \in {Nobody, a}
      BY <2>1 DEF TabInv, TicketsAreForAccount
    <3> QED  BY <2>1, <3>1, ShownIsOwn
  <2> QED  BY <2>1
<1> HIDE DEF left
<1>5. /\ screen' \in Screens /\ screen'.profile = {a} /\ screen'.todos = {a}
      /\ screen'.thread \subseteq {a}
  BY <1>1, <1>4 DEF Screens
<1>6. conversation' \in {a, Nobody} /\ unsent' \in {a, Nobody}
  <2>1. context = a => auth \in {a, Nobody}
    BY DEF TabInv, TicketsAreForAccount
  <2> QED  BY <1>1, <2>1, ShownIsOwn
<1>7. OneAccountShown'
  BY <1>1, <1>3, <1>5, <1>6 DEF OneAccountShown
<1>8. TicketsAreForAccount'
  BY <1>1 DEF TicketsAreForAccount
<1> QED  BY <1>1, <1>3, <1>5, <1>7, <1>8, Waiting DEF TabInv, NothingIsAwaited

\* An answer is used only by the account it was asked for.
LEMMA AnswersAreOwn ==
    ASSUME TabInv, NEW o \in Ops, OpReturns(o)
    PROVE  TabInv'
<1>1. ~suspended /\ op[o].for = context
  BY DEF OpReturns, Succeeds, AcceptResponse
<1>2. op[o].for = auth
  BY <1>1 DEF TabInv, TicketsAreForAccount
<1>3. /\ conversation' \in {auth, conversation}
      /\ unsent' \in {unsent, Nobody} /\ cursor' \in {auth, cursor, Nobody}
      /\ UNCHANGED <<context, suspended, auth, boot, hidden, leaving>>
  <2>1. UNCHANGED <<context, suspended, auth, boot, hidden, leaving>>
    BY Zenon DEF OpReturns
  <2>2. conversation' \in {auth, conversation}
    BY <1>2 DEF OpReturns
  <2>3. unsent' \in {unsent, Nobody}
    BY DEF OpReturns
  <2>4. cursor' \in {auth, cursor, Nobody}
    BY <1>2 DEF OpReturns
  <2> QED  BY <2>1, <2>2, <2>3, <2>4
<1>4. auth \in Accounts /\ ~hidden /\ ~leaving
  BY <1>1, NobodyHasNoAccount DEF TabInv, TicketsAreForAccount, OneAccountShown
<1>5. screen' \in {screen, [screen EXCEPT !.thread = {auth}],
                   [screen EXCEPT !.todos = screen.todos \cup {auth}]}
  BY <1>2 DEF OpReturns
<1>6. /\ screen' \in Screens
      /\ screen'.profile \subseteq {auth} /\ screen'.todos \subseteq {auth}
      /\ screen'.thread \subseteq {auth}
  <2>1. \A s \in Screens, t \in SUBSET Accounts :
            /\ [s EXCEPT !.thread = t] \in Screens
            /\ [s EXCEPT !.thread = t].profile = s.profile
            /\ [s EXCEPT !.thread = t].todos = s.todos
            /\ [s EXCEPT !.thread = t].thread = t
            /\ [s EXCEPT !.todos = t] \in Screens
            /\ [s EXCEPT !.todos = t].profile = s.profile
            /\ [s EXCEPT !.todos = t].todos = t
            /\ [s EXCEPT !.todos = t].thread = s.thread
    BY Zenon DEF Screens
  <2>2. screen \in Screens /\ screen.todos \in SUBSET Accounts
    BY DEF TabInv, Screens
  <2>3. {auth} \in SUBSET Accounts /\ screen.todos \cup {auth} \in SUBSET Accounts
    BY <1>4, <2>2
  <2> DEFINE told == [screen EXCEPT !.thread = {auth}]
             more == [screen EXCEPT !.todos = screen.todos \cup {auth}]
  <2>4. /\ told \in Screens /\ told.profile = screen.profile /\ told.todos = screen.todos
        /\ told.thread = {auth}
    BY <2>1, <2>2, <2>3, Zenon
  <2>5. /\ more \in Screens /\ more.profile = screen.profile /\ more.thread = screen.thread
        /\ more.todos = screen.todos \cup {auth}
    BY <2>1, <2>2, <2>3, Zenon
  <2>6. screen' \in {screen, told, more}
    BY <1>5, Zenon
  <2> HIDE DEF told, more
  <2> QED  BY <2>2, <2>4, <2>5, <2>6, ShownIsOwn
<1>7. OneAccountShown'
  BY <1>3, <1>4, <1>6, ShownIsOwn DEF OneAccountShown
<1>8. TicketsAreForAccount' /\ boot' \in Boots /\ NothingIsAwaited'
  BY <1>3 DEF TabInv, TicketsAreForAccount, NothingIsAwaited
<1> QED  BY <1>6, <1>7, <1>8 DEF TabInv

\* A text is kept for the account it was written by.
LEMMA PostsAreOwn ==
    ASSUME TabInv, NEW o \in Ops, Posts(o)
    PROVE  TabInv'
<1>1. /\ unsent' \in {auth, unsent}
      /\ UNCHANGED <<context, suspended, auth, conversation, screen, cursor, boot, hidden, leaving>>
  BY Zenon DEF Posts
<1>2. OneAccountShown'
  BY <1>1, ShownIsOwn DEF TabInv, OneAccountShown
<1> QED  BY <1>1, <1>2 DEF TabInv, TicketsAreForAccount, NothingIsAwaited

\* So is the draft of a message that was refused.
LEMMA FailuresAreOwn ==
    ASSUME TabInv, NEW o \in Ops, OpFails(o)
    PROVE  TabInv'
<1>1. /\ unsent' \in {unsent, Nobody}
      /\ UNCHANGED <<context, suspended, auth, conversation, screen, cursor, boot, hidden, leaving>>
  BY DEF OpFails
<1>2. OneAccountShown'
  BY <1>1, ShownIsOwn DEF TabInv, OneAccountShown
<1> QED  BY <1>1, <1>2 DEF TabInv, TicketsAreForAccount, NothingIsAwaited

\* The session of the browser is of one of the accounts, or of nobody.
CookieIsKnown == cookie \in Anyone

LEMMA CookieStays == CookieIsKnown /\ [TabNext]_tabVars => CookieIsKnown'
BY Zenon DEF CookieIsKnown, TabNext, tabVars, OtherTab, Signalled, Visibility, Interval, BootAnswers, Confirms,
   BootClears, BootShows, BeginOp, LogOut, MainAnswers, CheckAnswers, StaleReturns,
   SessionReturns, ChecksTicket, Posts, OpReturns, OpFails

LEMMA TabSteps == CookieIsKnown /\ TabInv /\ [TabNext]_tabVars => TabInv'
<1> SUFFICES ASSUME CookieIsKnown, TabInv, [TabNext]_tabVars PROVE TabInv'
  OBVIOUS
<1>b. boot \in Boots /\ NothingIsAwaited
  BY DEF TabInv
<1>1. CASE OtherTab \/ BeginOp
  <2>1. UNCHANGED account /\ UNCHANGED <<hidden, leaving>> /\ boot' = boot
    BY <1>1 DEF OtherTab, BeginOp
  <2> QED  BY <1>b, <2>1, UntouchedIsKept DEF BootIsFit, NothingIsAwaited
<1>2. CASE Signalled
  <2>1. Cleared /\ Revalidate /\ UNCHANGED <<hidden, leaving>>
    BY <1>2 DEF Signalled, ClearAccount, Cleared
  <2> QED  BY <2>1, RevalidateIsFit, ClearedIsBlank
<1>3. CASE Visibility
  <2>1. Cleared
    BY <1>3 DEF Visibility, ClearAccount, Cleared
  <2>2. /\ hidden' = ~hidden /\ ~leaving /\ leaving' = leaving
        /\ boot' = IF hidden THEN [NoBoot EXCEPT !.at = "sent"] ELSE NoBoot
    BY <1>3, Zenon DEF Visibility
  <2>3. BootIsFit
    BY <2>2, Waiting DEF BootIsFit
  <2> QED  BY <2>1, <2>3, ClearedIsBlank
<1>4. CASE Interval
  <2>1. UNCHANGED account /\ UNCHANGED <<hidden, leaving>> /\ Revalidate
    BY <1>4 DEF Interval
  <2> QED  BY <2>1, RevalidateIsFit, UntouchedIsKept
<1>5. CASE BootAnswers \/ Confirms
  <2>1. UNCHANGED account /\ UNCHANGED <<hidden, leaving>> /\ boot.at # "none"
    BY <1>5 DEF BootAnswers, Confirms
  <2>2. \A b \in Boots, t \in Answers :
            /\ [b EXCEPT !.at = "back", !.first = t] \in Boots
            /\ [b EXCEPT !.at = "both", !.second = t] \in Boots
    BY Zenon DEF Boots
  <2>6. \A b \in Boots : [b EXCEPT !.at = "again"] \in Boots
    BY Zenon DEF Boots
  <2>3. Told \subseteq Answers
    BY DEF CookieIsKnown, Told, Answers, Anyone
  <2>4. boot' \in Boots
    <3>1. CASE BootAnswers
      BY <1>b, <2>2, <2>3, <3>1, Zenon DEF BootAnswers
    <3>2. CASE Confirms
      BY <1>b, <2>6, <3>2, Zenon DEF Confirms
    <3> QED  BY <1>5, <3>1, <3>2
  <2>5. ~hidden /\ ~leaving
    BY <1>b, <2>1 DEF NothingIsAwaited
  <2> QED  BY <2>1, <2>4, <2>5, UntouchedIsKept DEF BootIsFit
<1>6. CASE BootClears
  <2>1. Cleared /\ UNCHANGED <<hidden, leaving>>
    BY <1>6 DEF BootClears, ClearAccount, Cleared
  <2>2. Revalidate \/ boot' = NoBoot
    BY <1>6, Zenon DEF BootClears
  <2>3. BootIsFit
    BY <2>1, <2>2, RevalidateIsFit, Waiting DEF BootIsFit
  <2> QED  BY <2>1, <2>3, ClearedIsBlank
<1>7. CASE BootShows
  BY <1>7, ShowingIsOwn
<1>8. CASE LogOut
  <2>1. Cleared /\ boot' = NoBoot
    BY <1>8 DEF LogOut, ClearAccount, Cleared
  <2> QED  BY <2>1, Waiting, ClearedIsBlank DEF BootIsFit
<1>9. ASSUME NEW o \in Ops,
             MainAnswers(o) \/ CheckAnswers(o) \/ StaleReturns(o) \/ ChecksTicket(o)
      PROVE  TabInv'
  <2>1. UNCHANGED account /\ UNCHANGED <<hidden, leaving>> /\ boot' = boot
    BY <1>9 DEF MainAnswers, CheckAnswers, StaleReturns, ChecksTicket
  <2> QED  BY <1>b, <2>1, UntouchedIsKept DEF BootIsFit, NothingIsAwaited
<1>10. ASSUME NEW o \in Ops, SessionReturns(o)
       PROVE  TabInv'
  <2>1. Cleared /\ UNCHANGED <<hidden, leaving>>
    BY <1>10 DEF SessionReturns, ClearAccount, Cleared
  <2>2. Revalidate \/ boot' = NoBoot
    BY <1>10, Zenon DEF SessionReturns
  <2>3. BootIsFit
    BY <2>1, <2>2, RevalidateIsFit, Waiting DEF BootIsFit
  <2> QED  BY <2>1, <2>3, ClearedIsBlank
<1>11. ASSUME NEW o \in Ops, Posts(o) \/ OpReturns(o) \/ OpFails(o)
       PROVE  TabInv'
  BY <1>11, PostsAreOwn, AnswersAreOwn, FailuresAreOwn
<1>12. CASE UNCHANGED tabVars
  <2>1. UNCHANGED account /\ UNCHANGED <<hidden, leaving>> /\ boot' = boot
    BY <1>12 DEF tabVars, account
  <2> QED  BY <1>b, <2>1, UntouchedIsKept DEF BootIsFit, NothingIsAwaited
<1> QED
  BY <1>1, <1>2, <1>3, <1>4, <1>5, <1>6, <1>7, <1>8, <1>9, <1>10, <1>11, <1>12, Zenon
  DEF TabNext

---------------------------------------------------------------------------
(* The theorems about the tab *)

\* The inductive invariant of the tab holds in every reachable state.
THEOREM TabInvariance == TabSpec => []TabInv
<1>1. TabInit => CookieIsKnown
  BY DEF TabInit, CookieIsKnown
<1>2. TabSpec => []CookieIsKnown
  BY <1>1, CookieStays, PTL DEF TabSpec
<1> QED  BY <1>2, TabStarts, TabSteps, PTL DEF TabSpec

\* All that a tab shows and keeps is of one account, the one its requests are made for,
\* and a hidden or signed-out tab shows nothing (src/static/js/cloud-app.js:15, 92).
THEOREM TabsAreSeparate == TabSpec => []OneAccountShown
<1>1. TabInv => OneAccountShown
  BY DEF TabInv
<1> QED  BY <1>1, TabInvariance, PTL

---------------------------------------------------------------------------
(* The execution of a job *)

\* What is over was revoked, or its attempt no longer runs: it has lapsed or ended, or a
\* later one took its place.
OverIsPowerless ==
    \A c \in Caps :
        /\ cap[c].fence <= task.fence
        /\ cap[c].over /\ ~cap[c].revoked
             => task.state # "running" \/ ~task.inTime \/ cap[c].fence < task.fence

ExecutionInv == ExecutionTypeOK /\ OverIsPowerless /\ CredentialIsCurrent

---------------------------------------------------------------------------
(* What the updates do to one capability *)

\* Every capability keeps its fence when those issued so far are over.
LEMMA IssuedOver ==
    ASSUME cap \in [Caps -> Cap], IssuedIsOver
    PROVE  /\ cap' \in [Caps -> Cap]
           /\ \A c \in Caps : cap'[c].fence = cap[c].fence /\ cap'[c].revoked = cap[c].revoked
<1>1. \A c \in Caps : [cap[c] EXCEPT !.over = cap[c].fence # 0] \in Cap
  BY Zenon DEF Cap
<1>2. cap' \in [Caps -> Cap]
  BY <1>1 DEF IssuedIsOver
<1>3. \A c \in Caps : cap'[c].fence = cap[c].fence /\ cap'[c].revoked = cap[c].revoked
  BY DEF IssuedIsOver, Cap
<1> QED  BY <1>2, <1>3

\* Every capability keeps its fence when it is revoked.
LEMMA AllRevoked ==
    ASSUME cap \in [Caps -> Cap],
           cap' = [c \in Caps |-> [cap[c] EXCEPT !.revoked = TRUE, !.over = cap[c].fence # 0]]
    PROVE  /\ cap' \in [Caps -> Cap]
           /\ \A c \in Caps : cap'[c].fence = cap[c].fence /\ cap'[c].revoked
<1>1. \A c \in Caps : [cap[c] EXCEPT !.revoked = TRUE, !.over = cap[c].fence # 0] \in Cap
  BY Zenon DEF Cap
<1>2. cap' \in [Caps -> Cap]
  BY <1>1
<1>3. \A c \in Caps : cap'[c].fence = cap[c].fence /\ cap'[c].revoked
  BY DEF Cap
<1> QED  BY <1>2, <1>3

\* A job that is settled, or given back, keeps the invariant.
LEMMA TaskLeaves ==
    ASSUME ExecutionInv, NEW state \in {"waiting", "ended"}, Leave(state)
    PROVE  /\ task' \in Task /\ cap' \in [Caps -> Cap]
           /\ OverIsPowerless'
<1> USE DEF ExecutionInv
<1>1. /\ task' \in Task /\ task'.state # "running" /\ task'.fence = task.fence
  <2>1. [task EXCEPT !.state = state, !.inTime = FALSE] \in Task
    BY Zenon DEF ExecutionTypeOK, Task
  <2>2. task' \in Task
    BY <2>1 DEF Leave
  <2> QED  BY <2>2 DEF Leave, ExecutionTypeOK, Task
<1>2. /\ cap' \in [Caps -> Cap]
      /\ \A c \in Caps : cap'[c].fence = cap[c].fence
  BY IssuedOver DEF Leave, ExecutionTypeOK
<1> QED  BY <1>1, <1>2 DEF OverIsPowerless

\* So does one whose capabilities are revoked with it.
LEMMA TaskRevoked ==
    ASSUME ExecutionInv,
           task' \in {task, [task EXCEPT !.state = "ended", !.inTime = FALSE]},
           cap' = [c \in Caps |-> [cap[c] EXCEPT !.revoked = TRUE, !.over = cap[c].fence # 0]]
    PROVE  /\ task' \in Task /\ cap' \in [Caps -> Cap]
           /\ OverIsPowerless'
<1> USE DEF ExecutionInv
<1>1. task' \in Task /\ task'.fence = task.fence
  <2>1. [task EXCEPT !.state = "ended", !.inTime = FALSE] \in Task
    BY Zenon DEF ExecutionTypeOK, Task
  <2>2. task' \in Task
    BY <2>1 DEF ExecutionTypeOK
  <2> QED  BY <2>2 DEF ExecutionTypeOK, Task
<1>2. /\ cap' \in [Caps -> Cap]
      /\ \A c \in Caps : cap'[c].fence = cap[c].fence /\ cap'[c].revoked
  BY AllRevoked DEF ExecutionTypeOK
<1> QED  BY <1>1, <1>2 DEF OverIsPowerless

\* retry_or_fail is a settlement of either kind.
LEMMA RetriesLeave ==
    ASSUME NEW retryable \in BOOLEAN, RetryOrFail(retryable)
    PROVE  Leave("waiting") \/ Leave("ended")
BY Zenon DEF RetryOrFail

---------------------------------------------------------------------------
(* Steps *)

LEMMA ExecutionStarts == ExecutionInit => ExecutionInv
<1> SUFFICES ASSUME ExecutionInit PROVE ExecutionInv
  OBVIOUS
<1> USE ExecutionBounds DEF ExecutionInit
<1>1. era \in Eras /\ serving \in BOOLEAN /\ link \in Link /\ task \in Task
  BY DEF Eras, Links, Link, Task
<1>2. NoWorker \in Worker /\ NoCap \in Cap /\ NoRefresh \in Refresh
  BY DEF NoWorker, Worker, NoCap, Cap, NoRefresh, Refresh, Links, Eras
<1>3. ExecutionTypeOK
  BY <1>1, <1>2 DEF ExecutionTypeOK
<1>4. OverIsPowerless
  <2>1. \A c \in Caps : cap[c].fence = 0
    BY DEF NoCap
  <2>2. task.fence = 0 /\ task.state # "running"
    OBVIOUS
  <2> HIDE DEF ExecutionInit
  <2>3. ASSUME NEW c \in Caps PROVE cap[c].fence <= task.fence
    <3>1. cap[c].fence = 0 /\ task.fence = 0
      BY <2>1, <2>2, Zenon
    <3>2. 0 <= 0
      OBVIOUS
    <3> QED  BY <3>1, <3>2, Zenon
  <2> QED  BY <2>2, <2>3, Zenon DEF OverIsPowerless
<1>5. CredentialIsCurrent
  BY DEF CredentialIsCurrent
<1> QED  BY <1>3, <1>4, <1>5 DEF ExecutionInv

\* A worker, a capability or a refresh may be replaced by one of its type.
LEMMA WorkerChanges ==
    ASSUME worker \in [Attempts -> Worker], NEW a \in Attempts, NEW w \in Worker,
           worker' = [worker EXCEPT ![a] = w]
    PROVE  worker' \in [Attempts -> Worker]
OBVIOUS

LEMMA ExecutionSteps == ExecutionInv /\ [ExecutionNext]_executionVars => ExecutionInv'
<1> SUFFICES ASSUME ExecutionInv, [ExecutionNext]_executionVars PROVE ExecutionInv'
  OBVIOUS
<1> USE ExecutionBounds DEF ExecutionInv
<1>t. /\ era \in Eras /\ serving \in BOOLEAN /\ link \in Link /\ task \in Task
      /\ worker \in [Attempts -> Worker]
      /\ cap \in [Caps -> Cap] /\ refresh \in [Refreshes -> Refresh]
  BY DEF ExecutionTypeOK
<1>w. \A a \in Attempts : /\ [worker[a] EXCEPT !.told = TRUE] \in Worker
                          /\ [worker[a] EXCEPT !.loop = "left"] \in Worker
                          /\ [worker[a] EXCEPT !.thread = "returned"] \in Worker
  BY <1>t, Zenon DEF Worker
<1>1. CASE ClaimTask
  <2>1. /\ task' \in Task /\ task'.fence = task.fence + 1
        /\ task.fence + 1 \in Attempts
    BY <1>1, <1>t DEF ClaimTask, Task, Attempts
  <2>2. [loop |-> "watching", thread |-> "running", told |-> FALSE] \in Worker
    BY DEF Worker
  <2>3. worker' \in [Attempts -> Worker]
    BY <1>1, <1>t, <2>1, <2>2 DEF ClaimTask
  <2>4. cap' = cap /\ ExecutionTypeOK'
    BY <1>1, <1>t, <2>1, <2>3 DEF ClaimTask, ExecutionTypeOK
  <2>5. \A c \in Caps : cap[c].fence \in Nat
    BY <1>t DEF Cap
  <2>6. OverIsPowerless'
    BY <1>t, <2>1, <2>4, <2>5 DEF OverIsPowerless, Task
  <2>7. CredentialIsCurrent'
    BY <1>1 DEF ClaimTask, CredentialIsCurrent
  <2> QED  BY <2>4, <2>6, <2>7
<1>2. ASSUME NEW a \in Attempts, TellToStop(a) \/ ThreadEnds(a) \/ HeartbeatLost(a)
      PROVE  ExecutionInv'
  <2>1. worker' \in [Attempts -> Worker]
    BY <1>2, <1>t, <1>w, Zenon DEF TellToStop, ThreadEnds, HeartbeatLost
  <2>2. UNCHANGED <<era, serving, link, task, cap, refresh>>
    BY <1>2 DEF TellToStop, ThreadEnds, HeartbeatLost
  <2> QED  BY <1>t, <2>1, <2>2 DEF ExecutionTypeOK, OverIsPowerless, CredentialIsCurrent
<1>3. ASSUME NEW a \in Attempts, Shutdown(a) \/ Settle(a)
      PROVE  ExecutionInv'
  <2>1. worker' \in [Attempts -> Worker]
    BY <1>3, <1>t, <1>w, Zenon DEF Shutdown, Settle
  <2>2. UNCHANGED <<era, serving, link, refresh>>
    BY <1>3 DEF Shutdown, Settle
  <2>3. Leave("waiting") \/ Leave("ended") \/ UNCHANGED <<task, cap>>
    BY <1>3, RetriesLeave, Zenon DEF Shutdown, Settle
  <2>4. task' \in Task /\ cap' \in [Caps -> Cap] /\ OverIsPowerless'
    BY <2>3, <1>t, TaskLeaves DEF OverIsPowerless
  <2> QED  BY <1>t, <2>1, <2>2, <2>4 DEF ExecutionTypeOK, CredentialIsCurrent
<1>4. CASE Lapse
  <2>1. /\ task' \in Task /\ task'.state = task.state /\ ~task'.inTime /\ task'.fence = task.fence
    <3>1. [task EXCEPT !.inTime = FALSE] \in Task
      BY <1>t, Zenon DEF Task
    <3> QED  BY <1>4, <1>t, <3>1 DEF Lapse, Task
  <2>2. /\ cap' \in [Caps -> Cap] /\ \A c \in Caps : cap'[c].fence = cap[c].fence
    BY <1>4, <1>t, IssuedOver DEF Lapse
  <2>3. OverIsPowerless'
    BY <2>1, <2>2 DEF OverIsPowerless
  <2>4. ExecutionTypeOK' /\ CredentialIsCurrent'
    BY <1>4, <1>t, <2>1, <2>2 DEF Lapse, ExecutionTypeOK, CredentialIsCurrent
  <2> QED  BY <2>3, <2>4
<1>5. CASE Sweep \/ CancelTask
  <2>1. Leave("waiting") \/ Leave("ended")
    BY <1>5, RetriesLeave, Zenon DEF Sweep, CancelTask
  <2>2. UNCHANGED <<era, serving, link, worker, refresh>>
    BY <1>5 DEF Sweep, CancelTask
  <2>3. task' \in Task /\ cap' \in [Caps -> Cap] /\ OverIsPowerless'
    BY <2>1, TaskLeaves
  <2> QED  BY <1>t, <2>2, <2>3 DEF ExecutionTypeOK, CredentialIsCurrent
<1>6. ASSUME NEW c \in Caps, Expire(c)
      PROVE  ExecutionInv'
  <2>1. [cap[c] EXCEPT !.expired = TRUE] \in Cap
    BY <1>t, Zenon DEF Cap
  <2>2. cap' \in [Caps -> Cap]
    BY <1>6, <1>t, <2>1 DEF Expire
  <2>3. \A d \in Caps : /\ cap'[d].fence = cap[d].fence /\ cap'[d].revoked = cap[d].revoked
                        /\ cap'[d].over = cap[d].over
    BY <1>6, <1>t DEF Expire, Cap
  <2>4. UNCHANGED <<era, serving, link, task, worker, refresh>>
    BY <1>6 DEF Expire
  <2> QED  BY <1>t, <2>2, <2>3, <2>4 DEF ExecutionTypeOK, OverIsPowerless, CredentialIsCurrent
<1>7. ASSUME NEW c \in Caps, NEW a \in Attempts, Issue(c, a)
      PROVE  ExecutionInv'
  <2> DEFINE granted == [fence |-> a, era |-> era, link |-> link.generation, revoked |-> FALSE,
                        expired |-> FALSE, over |-> FALSE]
  <2>1. granted \in Cap /\ a = task.fence
    BY <1>7, <1>t DEF Issue, Authorized, Cap, Link, Links, Attempts
  <2>2. cap' = [cap EXCEPT ![c] = granted]
    BY <1>7 DEF Issue
  <2>3. cap' \in [Caps -> Cap]
    BY <1>t, <2>1, <2>2
  <2>4. UNCHANGED <<era, serving, link, task, worker, refresh>>
    BY <1>7 DEF Issue
  <2>5. OverIsPowerless'
    BY <1>t, <2>1, <2>2, <2>4 DEF OverIsPowerless, Task
  <2> QED  BY <1>t, <2>3, <2>4, <2>5 DEF ExecutionTypeOK, CredentialIsCurrent
<1>8. CASE Connect \/ Disconnect
  <2>0. link.generation + 1 \in 1 .. MaxLink
    BY <1>8, <1>t DEF Connect, Disconnect, Link
  <2>1. /\ link' \in Link
        /\ link'.credential = IF link'.active THEN link'.generation ELSE 0
    <3>1. CASE Connect
      BY <3>1, <2>0 DEF Connect, Link, Links
    <3>2. CASE Disconnect
      BY <3>2, <2>0 DEF Disconnect, Link, Links
    <3> QED  BY <1>8, <3>1, <3>2
  <2>2. /\ UNCHANGED <<era, serving, worker, refresh>>
        /\ RevokeWork
    BY <1>8 DEF Connect, Disconnect
  <2>3. task' \in {task, [task EXCEPT !.state = "ended", !.inTime = FALSE]}
    BY <2>2 DEF RevokeWork
  <2>4. task' \in Task /\ cap' \in [Caps -> Cap] /\ OverIsPowerless'
    BY <2>2, <2>3, TaskRevoked DEF RevokeWork
  <2> QED  BY <1>t, <2>1, <2>2, <2>4 DEF ExecutionTypeOK, CredentialIsCurrent
<1>9. CASE Grant
  <2>1. [link EXCEPT !.granted = TRUE] \in Link
    BY <1>t, Zenon DEF Link
  <2>2. link' \in Link /\ UNCHANGED <<era, serving, task, worker, cap, refresh>>
    BY <1>9, <2>1 DEF Grant
  <2>3. CredentialIsCurrent'
    BY <1>9, <1>t DEF Grant, CredentialIsCurrent, Link
  <2> QED  BY <1>t, <2>2, <2>3 DEF ExecutionTypeOK, OverIsPowerless
<1>10. ASSUME NEW r \in Refreshes, BeginRefresh(r)
       PROVE  ExecutionInv'
  <2>1. [link |-> link.generation, era |-> era] \in Refresh
    BY <1>t DEF Refresh, Link, Links
  <2>2. refresh' \in [Refreshes -> Refresh]
    BY <1>10, <1>t, <2>1 DEF BeginRefresh
  <2> QED  BY <1>10, <1>t, <2>2 DEF BeginRefresh, ExecutionTypeOK, OverIsPowerless, CredentialIsCurrent
<1>11. ASSUME NEW r \in Refreshes, EndRefresh(r)
       PROVE  ExecutionInv'
  <2>1. [refresh[r] EXCEPT !.era = 0] \in Refresh
    BY <1>t DEF Refresh, Eras
  <2>2. refresh' \in [Refreshes -> Refresh]
    BY <1>11, <1>t, <2>1 DEF EndRefresh
  <2>3. /\ link' \in Link /\ link'.active = link.active /\ link'.generation = link.generation
        /\ link'.credential = IF Stores(r) THEN refresh[r].link ELSE link.credential
    <3>1. refresh[r].link \in Links
      BY <1>t DEF Refresh
    <3>2. [link EXCEPT !.credential = refresh[r].link] \in Link
      BY <1>t, <3>1, Zenon DEF Link
    <3> QED  BY <1>11, <1>t, <3>2 DEF EndRefresh, Link
  <2>4. CredentialIsCurrent'
    BY <2>3 DEF CredentialIsCurrent, Stores
  <2>5. UNCHANGED <<era, serving, task, worker, cap>>
    BY <1>11 DEF EndRefresh
  <2> QED  BY <1>t, <2>2, <2>3, <2>4, <2>5 DEF ExecutionTypeOK, OverIsPowerless
<1>12. CASE RestoreBegins
  <2>1. /\ era' \in Eras
        /\ serving' \in BOOLEAN
        /\ UNCHANGED <<link, worker, refresh>>
    <3>1. era < MaxEra /\ era' = era + 1
      BY <1>12 DEF RestoreBegins
    <3>2. era' \in Eras
      BY <1>t, <3>1 DEF Eras
    <3>3. serving' = FALSE /\ UNCHANGED <<link, worker, refresh>>
      BY <1>12, Zenon DEF RestoreBegins
    <3>4. serving' \in BOOLEAN
      BY <3>3, Zenon
    <3> QED  BY <3>2, <3>3, <3>4, Zenon
  <2>2. task' \in Task /\ cap' \in [Caps -> Cap] /\ OverIsPowerless'
    BY <1>12, TaskRevoked DEF RestoreBegins
  <2> QED  BY <1>t, <2>1, <2>2 DEF ExecutionTypeOK, CredentialIsCurrent
<1>13. CASE RestoreEnds
  BY <1>13, <1>t DEF RestoreEnds, ExecutionTypeOK, OverIsPowerless, CredentialIsCurrent
<1>14. CASE UNCHANGED executionVars
  BY <1>14, <1>t DEF executionVars, ExecutionTypeOK, OverIsPowerless, CredentialIsCurrent
<1> QED
  BY <1>1, <1>2, <1>3, <1>4, <1>5, <1>6, <1>7, <1>8, <1>9, <1>10, <1>11, <1>12, <1>13, <1>14,
     Zenon DEF ExecutionNext

---------------------------------------------------------------------------
(* The theorems about the execution *)

\* The inductive invariant of an execution holds in every reachable state.
THEOREM ExecutionInvariance == ExecutionSpec => []ExecutionInv
BY ExecutionStarts, ExecutionSteps, PTL DEF ExecutionSpec

\* The job, its executions, the connection, capabilities and refreshes keep their types.
THEOREM ExecutionTypes == ExecutionSpec => []ExecutionTypeOK
<1>1. ExecutionInv => ExecutionTypeOK
  BY DEF ExecutionInv
<1> QED  BY <1>1, ExecutionInvariance, PTL

\* A capability whose attempt, connection or epoch is gone is refused
\* (src/cloud/authorization.py:36), and a refresh that comes back late leaves no
\* credential behind (src/cloud/connections.py:61).
THEOREM AccessStaysCurrent == ExecutionSpec => []AccessIsCurrent
<1>1. ExecutionInv => AccessIsCurrent
  <2> SUFFICES ASSUME ExecutionInv PROVE AccessIsCurrent
    OBVIOUS
  <2>1. ASSUME NEW c \in Caps, Valid(c) PROVE ~cap[c].over
    <3>1. /\ ~cap[c].revoked /\ task.state = "running" /\ task.inTime
          /\ task.fence = cap[c].fence
      BY <2>1 DEF Valid, Authorized
    <3>2. task.fence \in Nat
      BY DEF ExecutionInv, ExecutionTypeOK, Task
    <3> QED  BY <3>1, <3>2 DEF ExecutionInv, OverIsPowerless
  <2> QED  BY <2>1 DEF AccessIsCurrent, NothingLeftIsValid, ExecutionInv
<1> QED  BY <1>1, ExecutionInvariance, PTL

---------------------------------------------------------------------------
(* The thread on screen *)

\* A request is about a todo.
CallsAreKnown == \A c \in Calls : call[c].at # "none" => call[c].todo \in Todos

PageInv == PageTypeOK /\ CallsAreKnown /\ RunIsWatched

LEMMA PageStarts == PageInit => PageInv
<1> SUFFICES ASSUME PageInit PROVE PageInv
  OBVIOUS
<1>1. NoCall \in Call
  BY DEF NoCall, Call, CallKinds
<1>2. PageTypeOK
  BY <1>1 DEF PageInit, PageTypeOK
<1>3. CallsAreKnown
  BY DEF PageInit, CallsAreKnown, NoCall
<1> QED  BY <1>2, <1>3 DEF PageInv, PageInit, RunIsWatched, RunIsPolled

\* A request goes out on a call that was free.
LEMMA RequestGoesOut ==
    ASSUME PageTypeOK, CallsAreKnown, NEW kind \in CallKinds, NEW t \in Todos, Requests(kind, t)
    PROVE  /\ call' \in [Calls -> Call] /\ CallsAreKnown'
           /\ onScreen' = onScreen /\ Asked => Asked'
           /\ onScreen' = t /\ kind \in {"ask", "poll", "stop"} => Asked'
<1> DEFINE N == [NoCall EXCEPT !.at = "sent", !.kind = kind, !.todo = t]
<1>1. PICK c \in Calls : call[c].at = "none" /\ call' = [call EXCEPT ![c] = N]
  BY DEF Requests
<1>2. N \in Call /\ N.at = "sent" /\ N.kind = kind /\ N.todo = t
  BY DEF NoCall, Call, CallKinds
<1> HIDE DEF N
<1>3. call \in [Calls -> Call]
  BY DEF PageTypeOK
<1>4. call' \in [Calls -> Call] /\ call'[c] = N /\ \A d \in Calls \ {c} : call'[d] = call[d]
  BY <1>1, <1>2, <1>3
<1>5. ASSUME onScreen' = onScreen, Asked PROVE Asked'
  <2>1. PICK d \in Calls : call[d].at # "none" /\ call[d].todo = onScreen
                           /\ call[d].kind \in {"ask", "poll", "stop"}
    BY <1>5 DEF Asked
  <2> QED  BY <2>1, <1>1, <1>4, <1>5 DEF Asked
<1>6. ASSUME onScreen' = t, kind \in {"ask", "poll", "stop"} PROVE Asked'
  BY <1>6, <1>2, <1>4 DEF Asked
<1>7. CallsAreKnown'
  BY <1>2, <1>4 DEF CallsAreKnown
<1> QED  BY <1>4, <1>5, <1>6, <1>7

\* A call that is over leaves the others.
LEMMA CallIsForgotten ==
    ASSUME PageTypeOK, CallsAreKnown, NEW c \in Calls, Forget(c), onScreen' = onScreen
    PROVE  /\ call' \in [Calls -> Call] /\ CallsAreKnown'
           /\ Asked /\ (call[c].todo # onScreen \/ call[c].kind \notin {"ask", "poll", "stop"})
                  => Asked'
<1>1. NoCall \in Call /\ NoCall.at = "none"
  BY DEF NoCall, Call, CallKinds
<1>2. call \in [Calls -> Call] /\ call' = [call EXCEPT ![c] = NoCall]
  BY DEF PageTypeOK, Forget
<1>3. call' \in [Calls -> Call] /\ \A d \in Calls \ {c} : call'[d] = call[d]
  BY <1>1, <1>2
<1>4. CallsAreKnown'
  BY <1>1, <1>2 DEF CallsAreKnown
<1> QED  BY <1>3, <1>4 DEF Asked

LEMMA PageSteps == PageInv /\ [PageNext]_pageVars => PageInv'
<1> SUFFICES ASSUME PageInv, [PageNext]_pageVars PROVE PageInv'
  OBVIOUS
<1>t. PageTypeOK /\ CallsAreKnown /\ (crossed \/ RunIsPolled)
  BY DEF PageInv, RunIsWatched
<1>r. ASSUME running' \in [Todos -> {"idle", "running", "over"}],
             onScreen' \in Todos \cup {NoThread}, pollFor' \in Todos \cup {NoThread},
             busy' \in BOOLEAN, crossed' \in BOOLEAN, call' \in [Calls -> Call],
             CallsAreKnown', crossed' \/ RunIsPolled'
      PROVE  PageInv'
  BY <1>r, Zenon DEF PageInv, PageTypeOK, RunIsWatched
<1>c. /\ call \in [Calls -> Call] /\ running \in [Todos -> {"idle", "running", "over"}]
      /\ onScreen \in Todos \cup {NoThread} /\ pollFor \in Todos \cup {NoThread}
      /\ \A c \in Calls : call[c].todo \in Todos \cup {NoThread}
  BY <1>t DEF PageTypeOK, Call
<1>b. busy \in BOOLEAN /\ crossed \in BOOLEAN
  BY <1>t, Zenon DEF PageTypeOK
<1>1. ASSUME NEW t \in Todos, Select(t) PROVE PageInv'
  <2>1. call' \in [Calls -> Call] /\ CallsAreKnown' /\ onScreen' = t /\ busy' = FALSE
        /\ pollFor' = NoThread /\ crossed' = FALSE /\ running' = running
    BY <1>1, <1>t, RequestGoesOut DEF Select, CallKinds
  <2> QED  BY <2>1, <1>r, <1>c DEF RunIsPolled
<1>2. ASSUME NEW t \in Todos, EndRun(t) PROVE PageInv'
  <2>1. UNCHANGED <<onScreen, busy, pollFor, call, crossed>>
        /\ running' \in [Todos -> {"idle", "running", "over"}]
    BY <1>2, <1>c DEF EndRun
  <2>2. (RunIsPolled' <=> RunIsPolled) /\ CallsAreKnown'
    BY <2>1, <1>t DEF RunIsPolled, Asked, CallsAreKnown
  <2> QED  BY <2>1, <2>2, <1>b, <1>r, <1>c, <1>t
<1>3. CASE ClearSelection
  <2>1. onScreen' = NoThread /\ pollFor' = NoThread /\ UNCHANGED <<running, busy, call, crossed>>
        /\ CallsAreKnown'
    BY <1>3, <1>t DEF ClearSelection, CallsAreKnown
  <2> QED  BY <2>1, <1>b, <1>r, <1>c DEF RunIsPolled
<1>4. CASE CallAI
  <2>1. call' \in [Calls -> Call] /\ CallsAreKnown' /\ Asked' /\ busy' = TRUE
        /\ UNCHANGED <<running, onScreen, pollFor, crossed>>
    BY <1>4, <1>t, <1>c, RequestGoesOut DEF CallAI, CallKinds
  <2> QED  BY <2>1, <1>b, <1>r, <1>c DEF RunIsPolled
<1>5. CASE StopRun
  <2>1. call' \in [Calls -> Call] /\ CallsAreKnown' /\ Asked' /\ UNCHANGED <<running, onScreen, busy, pollFor, crossed>>
    BY <1>5, <1>t, <1>c, RequestGoesOut DEF StopRun, CallKinds
  <2> QED  BY <2>1, <1>b, <1>r, <1>c DEF RunIsPolled
<1>6. CASE NewThread
  <2>1. /\ call' \in [Calls -> Call] /\ CallsAreKnown' /\ (Asked => Asked')
        /\ UNCHANGED <<running, onScreen, busy, pollFor, crossed>>
    BY <1>6, <1>t, <1>c, RequestGoesOut DEF NewThread, CallKinds
  <2> QED  BY <2>1, <1>b, <1>r, <1>c, <1>t DEF RunIsPolled
<1>7. CASE TimerRings
  <2>1. /\ call' \in [Calls -> Call] /\ CallsAreKnown' /\ (Asked => Asked') /\ (onScreen = pollFor => Asked')
        /\ UNCHANGED <<running, onScreen, busy, crossed>> /\ pollFor' = NoThread
    BY <1>7, <1>t, <1>c, RequestGoesOut DEF TimerRings, CallKinds
  <2> QED  BY <2>1, <1>b, <1>r, <1>c, <1>t DEF RunIsPolled
<1>8. ASSUME NEW c \in Calls, AnswerCall(c) PROVE PageInv'
  <2> DEFINE t == call[c].todo
             after == CASE call[c].kind = "ask"   -> "running"
                        [] call[c].kind = "reset" -> "idle"
                        [] OTHER                  -> running[t]
             told == IF call[c].kind = "load" /\ after # "running" THEN "idle" ELSE after
  <2>1. /\ running' = [running EXCEPT ![t] = after]
        /\ call' = [call EXCEPT ![c].at = "back", ![c].status = told]
        /\ UNCHANGED <<onScreen, busy, pollFor, crossed>> /\ call[c].at = "sent"
    BY <1>8 DEF AnswerCall
  <2>2. t \in Todos
    BY <2>1, <1>t DEF CallsAreKnown
  <2>3. after \in {"idle", "running", "over"}
    BY <2>2, <1>c
  <2> HIDE DEF after, t
  <2>4. told \in {"idle", "running", "over"}
    BY <2>3
  <2> HIDE DEF told
  <2>5. running' \in [Todos -> {"idle", "running", "over"}]
    BY <2>1, <2>2, <2>3, <1>c
  <2>6. call' \in [Calls -> Call]
    BY <2>1, <2>4, <1>c DEF Call
  <2>7. \A d \in Calls : call'[d].todo = call[d].todo /\ call'[d].kind = call[d].kind
                         /\ (call[d].at # "none" <=> call'[d].at # "none")
    BY <2>1, <1>c DEF Call
  <2>8. (Asked => Asked') /\ CallsAreKnown'
    BY <2>7, <2>1, <1>t DEF Asked, CallsAreKnown
  <2> QED  BY <2>5, <2>6, <2>8, <2>1, <1>b, <1>r, <1>c, <1>t DEF RunIsPolled
<1>9. ASSUME NEW c \in Calls, LoseCall(c) PROVE PageInv'
  <2>1. /\ call' = [call EXCEPT ![c].at = "broken"]
        /\ UNCHANGED <<running, onScreen, busy, pollFor, crossed>>
        /\ call[c].at # "none"
    BY <1>9 DEF LoseCall
  <2>2. call' \in [Calls -> Call]
    BY <2>1, <1>c DEF Call
  <2>3. \A d \in Calls : call'[d].todo = call[d].todo /\ call'[d].kind = call[d].kind
                         /\ (call[d].at # "none" <=> call'[d].at # "none")
    BY <2>1, <1>c DEF Call
  <2>4. (Asked => Asked') /\ CallsAreKnown'
    BY <2>3, <2>1, <1>t DEF Asked, CallsAreKnown
  <2> QED  BY <2>2, <2>4, <2>1, <1>b, <1>r, <1>c, <1>t DEF RunIsPolled
<1>10. ASSUME NEW c \in Calls, LoadReturns(c) PROVE PageInv'
  <2> DEFINE t == call[c].todo
  <2>1. /\ Forget(c) /\ UNCHANGED <<running, onScreen, crossed>> /\ call[c].kind = "load"
        /\ \/ onScreen = t /\ ApplyRunState(t, call[c].status)
           \/ UNCHANGED <<busy, pollFor>>
    BY <1>10 DEF LoadReturns
  <2>2. /\ call' \in [Calls -> Call] /\ CallsAreKnown' /\ (Asked => Asked')
    BY <2>1, <1>t, CallIsForgotten
  <2>3. CASE onScreen = t /\ ApplyRunState(t, call[c].status)
    <3>1. /\ busy' = (call[c].status = "running")
          /\ pollFor' = IF call[c].status = "running" THEN t ELSE NoThread
      BY <2>3 DEF ApplyRunState
    <3>2. busy' \in BOOLEAN
      BY <3>1
    <3>3. pollFor' \in Todos \cup {NoThread} /\ RunIsPolled'
      BY <3>1, <2>3, <2>1, <1>c DEF RunIsPolled
    <3> QED  BY <3>2, <3>3, <2>1, <2>2, <1>b, <1>r, <1>c
  <2>4. CASE UNCHANGED <<busy, pollFor>>
    BY <2>4, <2>1, <2>2, <1>b, <1>r, <1>c, <1>t DEF RunIsPolled
  <2> QED  BY <2>1, <2>3, <2>4
\* The answers that may be of another thread.
<1>x. ASSUME NEW c \in Calls, Forget(c), UNCHANGED <<running, onScreen>>, Crosses(call[c].todo),
             pollFor' \in Todos \cup {NoThread}, busy' \in BOOLEAN,
             call[c].todo # onScreen => busy' = busy,
             call[c].todo = onScreen /\ onScreen # NoThread /\ busy' =>
                 pollFor' = onScreen \/ (call[c].kind = "reset" /\ UNCHANGED <<busy, pollFor>>)
      PROVE  PageInv'
  <2>1. /\ call' \in [Calls -> Call] /\ CallsAreKnown'
        /\ Asked /\ (call[c].todo # onScreen \/ call[c].kind = "reset") => Asked'
    BY <1>x, <1>t, CallIsForgotten
  <2>2. crossed' \in BOOLEAN
    BY <1>x, <1>b, Zenon DEF Crosses
  <2>3. crossed' \/ RunIsPolled'
    <3> SUFFICES ASSUME ~crossed', onScreen # NoThread, busy'
                 PROVE  pollFor' = onScreen \/ Asked'
      BY <1>x DEF RunIsPolled
    <3>1. ~crossed /\ (call[c].todo = onScreen \/ pollFor' = pollFor)
      BY <1>x, Zenon DEF Crosses
    <3>2. CASE call[c].todo # onScreen
      BY <3>1, <3>2, <1>x, <1>t, <2>1 DEF RunIsPolled
    <3>3. CASE call[c].todo = onScreen
      BY <3>1, <3>3, <1>x, <1>t, <2>1 DEF RunIsPolled
    <3> QED  BY <3>2, <3>3
  <2> QED  BY <2>1, <2>2, <2>3, <1>x, <1>r, <1>c
<1>11. ASSUME NEW c \in Calls, AskReturns(c) \/ PollReturns(c) PROVE PageInv'
  <2> DEFINE t == call[c].todo
  <2>1. /\ Forget(c) /\ UNCHANGED <<running, onScreen>> /\ Crosses(t)
        /\ t \in Todos
    BY <1>11, <1>t DEF AskReturns, PollReturns, CallsAreKnown
  <2>2. \/ ApplyRunState(t, call[c].status)
        \/ pollFor' = NoThread /\ busy' = (busy /\ onScreen # t)
        \/ pollFor' = t /\ busy' = busy
    BY <1>11 DEF AskReturns, PollReturns, KeepsPolling
  <2> HIDE DEF t
  <2>3. pollFor' \in Todos \cup {NoThread}
    BY <2>1, <2>2 DEF ApplyRunState
  <2>4. busy' \in BOOLEAN
    BY <2>2, <1>b, Zenon DEF ApplyRunState
  <2>5. t # onScreen => busy' = busy
    <3>1. CASE ApplyRunState(t, call[c].status)
      BY <3>1 DEF ApplyRunState
    <3>2. CASE pollFor' = NoThread /\ busy' = (busy /\ onScreen # t)
      BY <3>2, <1>b
    <3> QED  BY <3>1, <3>2, <2>2
  <2>6. t = onScreen => (busy' => pollFor' = onScreen)
    BY <2>2 DEF ApplyRunState
  <2> QED  BY <2>1, <2>3, <2>4, <2>5, <2>6, <1>x DEF t
<1>12. ASSUME NEW c \in Calls, StopReturns(c) PROVE PageInv'
  BY <1>12, <1>x, <1>b, <1>c DEF StopReturns
<1>13. ASSUME NEW c \in Calls, NewThreadReturns(c) PROVE PageInv'
  <2>1. /\ Forget(c) /\ UNCHANGED <<running, onScreen>> /\ Crosses(call[c].todo)
        /\ call[c].kind = "reset"
        /\ (pollFor' = NoThread /\ busy' = FALSE) \/ UNCHANGED <<pollFor, busy>>
    BY <1>13 DEF NewThreadReturns
  <2>2. CASE UNCHANGED <<pollFor, busy>>
    BY <2>1, <2>2, <1>x, <1>b, <1>c
  <2>3. CASE pollFor' = NoThread /\ busy' = FALSE
    <3>1. /\ call' \in [Calls -> Call] /\ CallsAreKnown'
      BY <2>1, <1>t, CallIsForgotten
    <3>2. crossed' \in BOOLEAN
      BY <2>1, <1>b, Zenon DEF Crosses
    <3> QED  BY <2>1, <2>3, <3>1, <3>2, <1>r, <1>c DEF RunIsPolled
  <2> QED  BY <2>1, <2>2, <2>3
<1>14. CASE UNCHANGED pageVars
  <2>1. UNCHANGED <<running, onScreen, busy, pollFor, call, crossed>>
    BY <1>14 DEF pageVars
  <2>2. (RunIsPolled' <=> RunIsPolled) /\ CallsAreKnown'
    BY <2>1, <1>t DEF RunIsPolled, Asked, CallsAreKnown
  <2> QED  BY <2>1, <2>2, <1>b, <1>r, <1>c, <1>t
<1> QED  BY <1>1, <1>2, <1>3, <1>4, <1>5, <1>6, <1>7, <1>8, <1>9, <1>10, <1>11, <1>12, <1>13,
            <1>14, Zenon DEF PageNext

\* The page that shows a run goes on asking for it, whatever is lost and in whatever
\* order answers come, as long as no late answer of another thread moves the timer.
THEOREM RunsAreWatched == PageSpec => []PageInv
BY PageStarts, PageSteps, PTL DEF PageSpec

---------------------------------------------------------------------------
(* The page of the durable queue *)

\* A submission that was not refused is of the generation on screen, and one that the
\* server took is a job.
SubmissionsAgree ==
    \A k \in Keys :
        /\ pending[k] \in {"saving", "uncertain"} => submitted[k] = snapshot.generation
        /\ post[k] # "none" \/ pending[k] # "none" => submitted[k] # 0
        /\ post[k] = "accepted" => \E g \in Generations : <<k, g>> \in accepted

\* What the page has or will be told is of no later generation than the server's; one
\* status at most is current, and it is not behind what is shown.
StatusesAgree ==
    /\ snapshot.generation <= generation
    /\ reset.at = "done" => reset.generation <= generation
    /\ \A l \in Loads :
           /\ load[l].at = "back" => load[l].answer.generation <= generation
           /\ load[l].at = "none" => ~load[l].current
           /\ load[l].current /\ load[l].at = "back" =>
                  load[l].answer.generation >= snapshot.generation
    /\ \A l, m \in Loads : load[l].current /\ load[m].current => l = m

WorkPageInv == WorkPageTypeOK /\ SubmissionsAgree /\ StatusesAgree /\ PageKeepsTrack

LEMMA WorkPageStarts == WorkPageInit => WorkPageInv
<1> SUFFICES ASSUME WorkPageInit PROVE WorkPageInv
  OBVIOUS
<1> USE GenerationsBounded DEF WorkPageInit
<1>1. NoLoad \in Load /\ NoSnapshot \in Snapshot /\ NoSnapshot.active = {}
      /\ NoLoad.at = "none" /\ NoLoad.current = FALSE /\ NoSnapshot.generation = 0
  BY DEF NoLoad, Load, NoSnapshot, Snapshot
<1>2. WorkPageTypeOK
  <2>1. /\ generation \in Generations /\ snapshot \in Snapshot
        /\ accepted \in SUBSET (Keys \X Generations) /\ working \in SUBSET Keys
        /\ discarded \in SUBSET Keys
    BY <1>1 DEF Generations
  <2>2. /\ pending \in [Keys -> {"none", "saving", "uncertain", "rejected"}]
        /\ submitted \in [Keys -> 0 .. MaxGeneration]
        /\ post \in [Keys -> {"none", "sent", "accepted", "refused", "lost"}]
    OBVIOUS
  <2>3. /\ load \in [Loads -> Load]
        /\ reset \in [at: {"none", "sent", "done", "broken"}, generation: 0 .. MaxGeneration]
    BY <1>1 DEF NoReset
  <2>4. timer \in BOOLEAN /\ open \in BOOLEAN /\ unsure \in BOOLEAN
    BY Zenon
  <2> QED  BY <2>1, <2>2, <2>3, <2>4 DEF WorkPageTypeOK
<1>3. SubmissionsAgree /\ StatusesAgree
  BY <1>1 DEF SubmissionsAgree, StatusesAgree, NoReset
<1>4. PageKeepsTrack
  BY <1>1 DEF PageKeepsTrack, NothingIsLost, WorkIsWatched
<1> QED  BY <1>2, <1>3, <1>4 DEF WorkPageInv

\* The statuses, apart: WatchInv is what the two halves about them need.
LoadTypeOK ==
    /\ generation \in Generations /\ snapshot \in Snapshot /\ load \in [Loads -> Load]
    /\ reset \in [at: {"none", "sent", "done", "broken"}, generation: 0 .. MaxGeneration]

Current == \E l \in Loads : load[l].at # "none" /\ load[l].current

\* loadDurable makes its own status the current one.
LEMMA LoadingIsCurrent ==
    ASSUME LoadTypeOK, StatusesAgree, Loading
    PROVE  /\ load' \in [Loads -> Load] /\ Current'
           /\ \A l \in Loads :
                  /\ load'[l].at = "back" => load[l].at = "back"
                                             /\ load'[l].answer = load[l].answer
                  /\ load'[l].at = "none" => ~load'[l].current
                  /\ load'[l].current => load'[l].at = "sent"
           /\ \A l, m \in Loads : load'[l].current /\ load'[m].current => l = m
<1>1. PICK l \in Loads :
        /\ load[l].at = "none"
        /\ load' = [Superseded EXCEPT ![l] = [NoLoad EXCEPT !.at = "sent", !.current = TRUE]]
  BY DEF Loading
<1> DEFINE N == [NoLoad EXCEPT !.at = "sent", !.current = TRUE]
<1>2. N \in Load /\ N.at = "sent" /\ N.current = TRUE
  <2>1. NoSnapshot \in Snapshot
    BY GenerationsBounded DEF NoSnapshot, Snapshot
  <2> QED  BY <2>1 DEF NoLoad, Load
<1> HIDE DEF N
<1>3. \A m \in Loads : [load[m] EXCEPT !.current = FALSE] \in Load
                       /\ [load[m] EXCEPT !.current = FALSE].at = load[m].at
                       /\ [load[m] EXCEPT !.current = FALSE].answer = load[m].answer
                       /\ [load[m] EXCEPT !.current = FALSE].current = FALSE
  <2> SUFFICES ASSUME NEW m \in Loads
               PROVE  /\ [load[m] EXCEPT !.current = FALSE] \in Load
                      /\ [load[m] EXCEPT !.current = FALSE].at = load[m].at
                      /\ [load[m] EXCEPT !.current = FALSE].answer = load[m].answer
                      /\ [load[m] EXCEPT !.current = FALSE].current = FALSE
    OBVIOUS
  <2>1. load[m] \in Load
    BY DEF LoadTypeOK
  <2> QED  BY <2>1 DEF Load
<1>f. load' = [m \in Loads |-> IF m = l THEN N ELSE [load[m] EXCEPT !.current = FALSE]]
  BY <1>1, Zenon DEF Superseded, N
<1>4. load'[l] = N /\ \A m \in Loads \ {l} : load'[m] = [load[m] EXCEPT !.current = FALSE]
  BY <1>f, Zenon
<1>5. load' \in [Loads -> Load]
  <2>1. \A m \in Loads : load'[m] \in Load
    BY <1>2, <1>3, <1>4
  <2> QED  BY <1>f, <2>1, Zenon
<1>6. Current'
  BY <1>2, <1>4 DEF Current
<1>7. ASSUME NEW m \in Loads
      PROVE  /\ load'[m].at = "back" => load[m].at = "back" /\ load'[m].answer = load[m].answer
             /\ load'[m].at = "none" => ~load'[m].current
             /\ load'[m].current => load'[m].at = "sent" /\ m = l
  BY <1>2, <1>3, <1>4
<1> QED  BY <1>5, <1>6, <1>7

\* What a step that leaves the snapshot alone owes to the statuses: it asks for a new
\* one, or every current one stays current, on its way to an answer.
LEMMA StatusesKeep ==
    ASSUME WorkPageInv, WorkPageTypeOK', UNCHANGED <<snapshot, reset>>, generation <= generation',
           \/ Loading /\ generation' = generation
           \/ \A l \in Loads :
                  /\ load'[l].current = load[l].current
                  /\ load'[l].at = "none" <=> load[l].at = "none"
                  /\ load'[l].at = "back" =>
                        \/ load[l].at = "back" /\ load'[l].answer = load[l].answer
                        \/ load'[l].answer.generation = generation
    PROVE  StatusesAgree' /\ (Loading => Current') /\ (Current => Current')
<1>i. StatusesAgree /\ LoadTypeOK /\ generation \in Nat /\ snapshot.generation \in Nat
      /\ reset.generation \in Nat /\ generation' \in Nat
      /\ \A l \in Loads : load[l].answer.generation \in Nat /\ load'[l].answer.generation \in Nat
  BY GenerationsBounded DEF WorkPageInv, WorkPageTypeOK, LoadTypeOK, Generations, Snapshot, Load
<1>1. CASE Loading /\ generation' = generation
  <2>1. /\ Current'
        /\ \A l \in Loads :
               /\ load'[l].at = "back" => load[l].at = "back" /\ load'[l].answer = load[l].answer
               /\ load'[l].at = "none" => ~load'[l].current
               /\ load'[l].current => load'[l].at = "sent"
        /\ \A l, m \in Loads : load'[l].current /\ load'[m].current => l = m
    BY <1>1, <1>i, LoadingIsCurrent
  <2>2. StatusesAgree'
    <3>1. /\ snapshot'.generation <= generation'
          /\ reset'.at = "done" => reset'.generation <= generation'
      BY <1>1, <1>i DEF StatusesAgree
    <3>2. \A l \in Loads :
             /\ load'[l].at = "back" => load'[l].answer.generation <= generation'
             /\ load'[l].current /\ load'[l].at = "back" =>
                    load'[l].answer.generation >= snapshot'.generation
      BY <2>1, <1>1, <1>i DEF StatusesAgree
    <3> QED  BY <2>1, <3>1, <3>2 DEF StatusesAgree
  <2> QED  BY <2>1, <2>2
<1>2. CASE \A l \in Loads :
                  /\ load'[l].current = load[l].current
                  /\ load'[l].at = "none" <=> load[l].at = "none"
                  /\ load'[l].at = "back" =>
                        \/ load[l].at = "back" /\ load'[l].answer = load[l].answer
                        \/ load'[l].answer.generation = generation
  <2>1. /\ snapshot'.generation <= generation'
        /\ reset'.at = "done" => reset'.generation <= generation'
    BY <1>i DEF StatusesAgree
  <2>2. \A l \in Loads :
             /\ load'[l].at = "back" => load'[l].answer.generation <= generation'
             /\ load'[l].current /\ load'[l].at = "back" =>
                    load'[l].answer.generation >= snapshot'.generation
    BY <1>2, <1>i DEF StatusesAgree
  <2>3. /\ \A l \in Loads : load'[l].at = "none" => ~load'[l].current
        /\ \A l, m \in Loads : load'[l].current /\ load'[m].current => l = m
    BY <1>2, <1>i DEF StatusesAgree
  <2>4. Current => Current'
    BY <1>2 DEF Current
  <2>5. ASSUME Loading PROVE Current'
    BY <2>5, <1>i, LoadingIsCurrent
  <2> QED  BY <2>1, <2>2, <2>3, <2>4, <2>5 DEF StatusesAgree
<1> QED  BY <1>1, <1>2

\* The steps of the user.
LEMMA UserKeepsPage ==
    ASSUME WorkPageInv,
           \/ OpenThread \/ LeaveThread \/ AskReset \/ TimerFires
           \/ \E k \in Keys : SendMessage(k) \/ Retry(k) \/ Recover(k) \/ CancelWork(k)
    PROVE  WorkPageInv'
<1>i. WorkPageTypeOK /\ SubmissionsAgree /\ StatusesAgree /\ NothingIsLost /\ WorkIsWatched
      /\ LoadTypeOK
  BY DEF WorkPageInv, PageKeepsTrack, WorkPageTypeOK, LoadTypeOK
<1>n. generation \in Nat /\ snapshot.generation \in 0 .. MaxGeneration
      /\ snapshot.active \in SUBSET Keys
  BY <1>i, GenerationsBounded DEF WorkPageTypeOK, Generations, Snapshot
<1>b. timer \in BOOLEAN /\ open \in BOOLEAN /\ unsure \in BOOLEAN
  BY <1>i, Zenon DEF WorkPageTypeOK
<1>p. ASSUME WorkPageTypeOK', SubmissionsAgree', StatusesAgree', NothingIsLost', WorkIsWatched'
      PROVE  WorkPageInv'
  BY <1>p DEF WorkPageInv, PageKeepsTrack
<1>1. CASE OpenThread \/ TimerFires
  <2>1. Loading /\ UNCHANGED <<generation, accepted, working, snapshot, pending, submitted,
                   post, reset, discarded, unsure>>
    BY <1>1 DEF OpenThread, TimerFires
  <2>2. load' \in [Loads -> Load] /\ timer' \in BOOLEAN /\ open' \in BOOLEAN
    BY <1>1, <2>1, <1>i, <1>b, LoadingIsCurrent DEF OpenThread, TimerFires
  <2>3. WorkPageTypeOK'
    BY <2>1, <2>2, <1>i DEF WorkPageTypeOK
  <2>4. StatusesAgree' /\ Current'
    BY <2>1, <2>3, <1>n, StatusesKeep
  <2>5. SubmissionsAgree' /\ NothingIsLost'
    BY <2>1, <1>i DEF SubmissionsAgree, NothingIsLost
  <2>6. WorkIsWatched'
    BY <2>4 DEF WorkIsWatched, Current
  <2> QED  BY <2>3, <2>4, <2>5, <2>6, <1>p
<1>2. CASE LeaveThread
  <2>1. UNCHANGED <<generation, accepted, working, snapshot, pending, submitted,
                   post, load, reset, discarded, unsure>> /\ open' = FALSE /\ timer' = FALSE
    BY <1>2 DEF LeaveThread
  <2>3. WorkPageTypeOK'
    BY <2>1, <1>i, <1>b DEF WorkPageTypeOK
  <2>4. StatusesAgree'
    BY <2>1, <2>3, <1>n, StatusesKeep
  <2>5. SubmissionsAgree' /\ NothingIsLost'
    BY <2>1, <1>i DEF SubmissionsAgree, NothingIsLost
  <2>6. WorkIsWatched'
    BY <2>1 DEF WorkIsWatched
  <2> QED  BY <2>3, <2>4, <2>5, <2>6, <1>p
<1>3. CASE AskReset
  <2>1. /\ UNCHANGED <<generation, accepted, working, snapshot, pending, submitted,
                   post, timer, open, discarded, unsure>>
        /\ load' = [l \in Loads |-> [load[l] EXCEPT !.current = FALSE]]
        /\ reset' = [at |-> "sent", generation |-> snapshot.generation]
    BY <1>3 DEF AskReset, Superseded
  <2>2. ASSUME NEW l \in Loads
        PROVE  /\ load'[l] \in Load /\ load'[l].at = load[l].at
               /\ load'[l].answer = load[l].answer /\ load'[l].current = FALSE
    <3>1. load[l] \in Load /\ load'[l] = [load[l] EXCEPT !.current = FALSE]
      BY <2>1, <1>i DEF LoadTypeOK
    <3> QED  BY <3>1 DEF Load
  <2>r. reset' \in [at: {"none", "sent", "done", "broken"}, generation: 0 .. MaxGeneration]
        /\ reset'.at = "sent"
    BY <2>1, <1>n
  <2>l. load' \in [Loads -> Load]
    BY <2>1, <2>2, Zenon
  <2>3. WorkPageTypeOK'
    BY <2>1, <2>l, <2>r, <1>i, <1>b DEF WorkPageTypeOK
  <2>4. StatusesAgree'
    BY <2>1, <2>2, <2>r, <1>i DEF StatusesAgree
  <2>5. SubmissionsAgree' /\ NothingIsLost'
    BY <2>1, <1>i DEF SubmissionsAgree, NothingIsLost
  <2>6. WorkIsWatched'
    BY <2>r DEF WorkIsWatched
  <2> QED  BY <2>3, <2>4, <2>5, <2>6, <1>p
\* The message k, on a page whose statuses stay.
<1>k. ASSUME NEW k \in Keys, UNCHANGED <<generation, accepted, snapshot, load, reset, timer, open, unsure>>,
             working' \in SUBSET Keys, discarded' \in SUBSET Keys, discarded \subseteq discarded',
             NEW p \in {"none", "saving", "uncertain", "rejected"}, pending' = [pending EXCEPT ![k] = p],
             NEW s \in 0 .. MaxGeneration, submitted' = [submitted EXCEPT ![k] = s],
             NEW q \in {"none", "sent", "accepted", "refused", "lost"}, post' = [post EXCEPT ![k] = q],
             p \in {"saving", "uncertain"} => s = snapshot.generation,
             q # "none" \/ p # "none" => s # 0,
             q = "accepted" => \E g \in Generations : <<k, g>> \in accepted,
             s # 0 => \/ \E g \in Generations : <<k, g>> \in accepted
                      \/ p # "none" \/ k \in discarded'
      PROVE  WorkPageInv'
  <2>1. /\ pending \in [Keys -> {"none", "saving", "uncertain", "rejected"}]
        /\ submitted \in [Keys -> 0 .. MaxGeneration]
        /\ post \in [Keys -> {"none", "sent", "accepted", "refused", "lost"}]
    BY <1>i DEF WorkPageTypeOK
  <2>2. /\ pending' \in [Keys -> {"none", "saving", "uncertain", "rejected"}]
        /\ submitted' \in [Keys -> 0 .. MaxGeneration]
        /\ post' \in [Keys -> {"none", "sent", "accepted", "refused", "lost"}]
        /\ pending'[k] = p /\ submitted'[k] = s /\ post'[k] = q
        /\ \A j \in Keys \ {k} : pending'[j] = pending[j] /\ submitted'[j] = submitted[j]
                                 /\ post'[j] = post[j]
    BY <2>1, <1>k
  <2>3. WorkPageTypeOK'
    BY <2>2, <1>k, <1>i, <1>b DEF WorkPageTypeOK
  <2>4. StatusesAgree' /\ (Current => Current')
    BY <1>k, <2>3, <1>n, StatusesKeep
  <2>5. SubmissionsAgree'
    BY <2>2, <1>k, <1>i DEF SubmissionsAgree
  <2>6. NothingIsLost'
    BY <2>2, <1>k, <1>i DEF NothingIsLost
  <2>7. WorkIsWatched'
    BY <1>k, <2>4, <1>i DEF WorkIsWatched, Current
  <2> QED  BY <2>3, <2>4, <2>5, <2>6, <2>7, <1>p
<1>s. /\ pending \in [Keys -> {"none", "saving", "uncertain", "rejected"}]
      /\ submitted \in [Keys -> 0 .. MaxGeneration]
      /\ post \in [Keys -> {"none", "sent", "accepted", "refused", "lost"}]
      /\ working \in SUBSET Keys /\ discarded \in SUBSET Keys
  BY <1>i DEF WorkPageTypeOK
<1>4. ASSUME NEW k \in Keys, SendMessage(k) PROVE WorkPageInv'
  <2>1. /\ snapshot.generation # 0
        /\ submitted' = [submitted EXCEPT ![k] = snapshot.generation]
        /\ pending' = [pending EXCEPT ![k] = "saving"] /\ post' = [post EXCEPT ![k] = "sent"]
        /\ UNCHANGED <<generation, accepted, working, snapshot, load, reset, timer,
                   open, discarded, unsure>>
    BY <1>4, <1>n DEF SendMessage
  <2> QED  BY <2>1, <1>k, <1>n, <1>s
<1>5. ASSUME NEW k \in Keys, Retry(k) PROVE WorkPageInv'
  <2>0. submitted[k] = snapshot.generation /\ snapshot.generation # 0
    BY <1>5, <1>i DEF Retry, SubmissionsAgree
  <2>1. /\ snapshot.generation # 0
        /\ submitted' = [submitted EXCEPT ![k] = snapshot.generation]
        /\ pending' = [pending EXCEPT ![k] = "saving"] /\ post' = [post EXCEPT ![k] = "sent"]
        /\ UNCHANGED <<generation, accepted, working, snapshot, load, reset, timer,
                   open, discarded, unsure>>
    BY <1>5, <2>0, <1>s DEF Retry
  <2> QED  BY <2>1, <1>k, <1>n, <1>s
<1>6. ASSUME NEW k \in Keys, Recover(k) PROVE WorkPageInv'
  <2>1. /\ pending' = [pending EXCEPT ![k] = "none"] /\ discarded' = discarded \cup {k}
        /\ UNCHANGED <<generation, accepted, working, snapshot, submitted, post, load,
                   reset, timer, open, unsure>> /\ submitted[k] # 0
    BY <1>6, <1>i DEF Recover, SubmissionsAgree
  <2>2. PICK n \in 0 .. MaxGeneration, q \in {"none", "sent", "accepted", "refused", "lost"} :
            /\ n = submitted[k] /\ q = post[k]
    BY <1>s
  <2>3. submitted' = [submitted EXCEPT ![k] = n] /\ post' = [post EXCEPT ![k] = q] /\ n # 0
    BY <2>1, <2>2, <1>s
  <2>4. q = "accepted" => \E g \in Generations : <<k, g>> \in accepted
    BY <2>2, <1>i DEF SubmissionsAgree
  <2>5. /\ working' \in SUBSET Keys /\ discarded' \in SUBSET Keys /\ discarded \subseteq discarded'
        /\ k \in discarded'
    BY <2>1, <1>s
  <2>6. UNCHANGED <<generation, accepted, snapshot, load, reset, timer, open, unsure>>
    BY <2>1
  <2> QED  BY <2>1, <2>3, <2>4, <2>5, <2>6, <1>k
<1>7. ASSUME NEW k \in Keys, CancelWork(k) PROVE WorkPageInv'
  <2>1. Loading /\ working' \in SUBSET Keys
        /\ UNCHANGED <<generation, accepted, snapshot, pending, submitted, post, reset,
                   timer, open, discarded, unsure>>
    BY <1>7, <1>s DEF CancelWork
  <2>2. load' \in [Loads -> Load]
    BY <2>1, <1>i, LoadingIsCurrent
  <2>3. WorkPageTypeOK'
    BY <2>1, <2>2, <1>i DEF WorkPageTypeOK
  <2>4. StatusesAgree' /\ Current'
    BY <2>1, <2>3, <1>n, StatusesKeep
  <2>5. SubmissionsAgree' /\ NothingIsLost'
    BY <2>1, <1>i DEF SubmissionsAgree, NothingIsLost
  <2>6. WorkIsWatched'
    BY <2>4 DEF WorkIsWatched, Current
  <2> QED  BY <2>3, <2>4, <2>5, <2>6, <1>p
<1> QED  BY <1>1, <1>2, <1>3, <1>4, <1>5, <1>6, <1>7

\* The steps of the server and of the network.
LEMMA ServerKeepsPage ==
    ASSUME WorkPageInv,
           \/ AnswerReset \/ LoseReset \/ ResetElsewhere
           \/ \E k \in Keys : AnswerPost(k) \/ LosePost(k) \/ FinishWork(k)
           \/ \E l \in Loads : AnswerLoad(l) \/ LoseLoad(l)
    PROVE  WorkPageInv'
<1>i. WorkPageTypeOK /\ SubmissionsAgree /\ StatusesAgree /\ NothingIsLost /\ WorkIsWatched
      /\ LoadTypeOK
  BY DEF WorkPageInv, PageKeepsTrack, WorkPageTypeOK, LoadTypeOK
<1>n. generation \in 1 .. MaxGeneration /\ generation \in Nat /\ generation <= generation
      /\ snapshot.generation \in 0 .. MaxGeneration
  BY <1>i, GenerationsBounded DEF WorkPageTypeOK, Generations, Snapshot
<1>b. timer \in BOOLEAN /\ open \in BOOLEAN /\ unsure \in BOOLEAN
  BY <1>i, Zenon DEF WorkPageTypeOK
<1>p. ASSUME WorkPageTypeOK', SubmissionsAgree', StatusesAgree', NothingIsLost', WorkIsWatched'
      PROVE  WorkPageInv'
  BY <1>p DEF WorkPageInv, PageKeepsTrack
<1>s. /\ pending \in [Keys -> {"none", "saving", "uncertain", "rejected"}]
      /\ submitted \in [Keys -> 0 .. MaxGeneration]
      /\ post \in [Keys -> {"none", "sent", "accepted", "refused", "lost"}]
      /\ working \in SUBSET Keys /\ discarded \in SUBSET Keys
  BY <1>i DEF WorkPageTypeOK
<1>1. ASSUME NEW k \in Keys, AnswerPost(k) \/ LosePost(k) PROVE WorkPageInv'
  <2>0. /\ accepted' \in SUBSET (Keys \X Generations) /\ accepted \subseteq accepted'
        /\ working' \in SUBSET Keys
        /\ UNCHANGED <<generation, snapshot, pending, submitted, load, reset, timer,
                   open, discarded, unsure>>
    <3>1. CASE AnswerPost(k)
      BY <3>1, <1>i, <1>s, <1>n DEF AnswerPost, WorkPageTypeOK, Generations
    <3>2. CASE LosePost(k)
      BY <3>2, <1>i DEF LosePost, WorkPageTypeOK
    <3> QED  BY <1>1, <3>1, <3>2
  <2>q. PICK q \in {"accepted", "refused", "lost"} :
            /\ post' = [post EXCEPT ![k] = q]
            /\ q = "accepted" => \E g \in Generations : <<k, g>> \in accepted'
    BY <1>1, <1>n DEF AnswerPost, LosePost, Generations
  <2>o. post[k] # "none"
    BY <1>1 DEF AnswerPost, LosePost
  <2>1. /\ post' \in [Keys -> {"none", "sent", "accepted", "refused", "lost"}]
        /\ post'[k] = q /\ \A j \in Keys \ {k} : post'[j] = post[j]
    BY <2>q, <1>s
  <2>3. WorkPageTypeOK'
    BY <2>0, <2>1, <1>i DEF WorkPageTypeOK
  <2>4. StatusesAgree' /\ (Current => Current')
    BY <2>0, <2>3, <1>n, StatusesKeep
  <2>5. SubmissionsAgree'
    BY <2>0, <2>1, <2>q, <2>o, <1>i DEF SubmissionsAgree
  <2>6. NothingIsLost'
    BY <2>0, <1>i DEF NothingIsLost
  <2>7. WorkIsWatched'
    BY <2>0, <2>4, <1>i DEF WorkIsWatched, Current
  <2> QED  BY <2>3, <2>4, <2>5, <2>6, <2>7, <1>p
<1>2. ASSUME NEW k \in Keys, FinishWork(k) PROVE WorkPageInv'
  <2>0. UNCHANGED <<generation, accepted, snapshot, pending, submitted, post, load,
                   reset, timer, open, discarded, unsure>> /\ working' \in SUBSET Keys
    BY <1>2, <1>s DEF FinishWork
  <2>3. WorkPageTypeOK'
    BY <2>0, <1>i DEF WorkPageTypeOK
  <2>4. StatusesAgree' /\ SubmissionsAgree' /\ NothingIsLost' /\ WorkIsWatched'
    BY <2>0, <1>i DEF StatusesAgree, SubmissionsAgree, NothingIsLost, WorkIsWatched
  <2> QED  BY <2>3, <2>4, <1>p
<1>3. ASSUME NEW l \in Loads, AnswerLoad(l) \/ LoseLoad(l) PROVE WorkPageInv'
  <2>0. UNCHANGED <<generation, accepted, working, snapshot, pending, submitted,
                   post, reset, timer, open, discarded, unsure>> /\ load[l].at # "none"
    BY <1>3 DEF AnswerLoad, LoseLoad
  <2>k. load[l] \in Load
    BY <1>i DEF LoadTypeOK
  <2>1. PICK x \in Load :
            /\ load' = [load EXCEPT ![l] = x]
            /\ x.current = load[l].current /\ x.at # "none"
            /\ x.at = "back" => x.answer.generation = generation
    <3>1. CASE AnswerLoad(l)
      <4> DEFINE a == [generation |-> generation, active |-> working]
                 x == [load[l] EXCEPT !.at = "back", !.answer = a]
      <4>1. a \in Snapshot /\ a.generation = generation
        BY <1>n, <1>s, GenerationsBounded DEF Snapshot
      <4> HIDE DEF a
      <4>2. x \in Load /\ x.at = "back" /\ x.current = load[l].current /\ x.answer = a
        BY <2>k, <4>1 DEF Load
      <4>3. load' = [load EXCEPT ![l] = x]
        BY <3>1, Zenon DEF AnswerLoad, a
      <4> QED  BY <4>1, <4>2, <4>3
    <3>2. CASE LoseLoad(l)
      <4> DEFINE x == [load[l] EXCEPT !.at = "broken"]
      <4>2. x \in Load /\ x.at = "broken" /\ x.current = load[l].current
        BY <2>k DEF Load
      <4>3. load' = [load EXCEPT ![l] = x]
        BY <3>2, Zenon DEF LoseLoad
      <4> QED  BY <4>2, <4>3
    <3> QED  BY <1>3, <3>1, <3>2
  <2>2. load' \in [Loads -> Load] /\ load'[l] = x /\ \A m \in Loads \ {l} : load'[m] = load[m]
    BY <2>1, <1>i DEF LoadTypeOK
  <2>3. WorkPageTypeOK'
    BY <2>0, <2>2, <1>i DEF WorkPageTypeOK
  <2>4. \A m \in Loads :
                  /\ load'[m].current = load[m].current
                  /\ load'[m].at = "none" <=> load[m].at = "none"
                  /\ load'[m].at = "back" =>
                        \/ load[m].at = "back" /\ load'[m].answer = load[m].answer
                        \/ load'[m].answer.generation = generation
    BY <2>0, <2>1, <2>2
  <2>5. StatusesAgree' /\ (Current => Current')
    BY <2>0, <2>3, <2>4, <1>n, StatusesKeep
  <2>6. SubmissionsAgree' /\ NothingIsLost'
    BY <2>0, <1>i DEF SubmissionsAgree, NothingIsLost
  <2>7. WorkIsWatched'
    BY <2>0, <2>5, <1>i DEF WorkIsWatched, Current
  <2> QED  BY <2>3, <2>5, <2>6, <2>7, <1>p
<1>4. CASE AnswerReset \/ LoseReset \/ ResetElsewhere
  <2>0. UNCHANGED <<accepted, snapshot, pending, submitted, post, load, timer, open,
                   discarded, unsure>>
    BY <1>4 DEF AnswerReset, LoseReset, ResetElsewhere
  <2>r. reset.generation \in 0 .. MaxGeneration /\ reset.at \in {"none", "sent", "done", "broken"}
    BY <1>i DEF WorkPageTypeOK
  <2>1. /\ working' \in SUBSET Keys
        /\ generation' \in Generations /\ generation <= generation'
        /\ reset' \in [at: {"none", "sent", "done", "broken"}, generation: 0 .. MaxGeneration]
        /\ reset'.at = "done" => reset'.generation <= generation'
        /\ reset.at = "none" <=> reset'.at = "none"
    <3>1. CASE AnswerReset
      <4>1. CASE reset.generation = generation /\ generation < MaxGeneration
        BY <3>1, <4>1, <1>n, <1>s, GenerationsBounded DEF AnswerReset, Generations
      <4>2. CASE ~(reset.generation = generation /\ generation < MaxGeneration)
        <5>1. /\ UNCHANGED <<generation, working>> /\ reset.at = "sent"
              /\ reset' = [reset EXCEPT !.at = "broken"]
          BY <3>1, <4>2 DEF AnswerReset
        <5> QED  BY <5>1, <1>n, <1>s, <1>i DEF WorkPageTypeOK
      <4> QED  BY <4>1, <4>2
    <3>2. CASE LoseReset
      BY <3>2, <1>n, <1>s, <1>i DEF LoseReset, WorkPageTypeOK
    <3>3. CASE ResetElsewhere
      <4>1. /\ generation < MaxGeneration /\ generation' = generation + 1 /\ working' = {}
            /\ reset' = reset
        BY <3>3 DEF ResetElsewhere
      <4>2. generation' \in Generations /\ generation <= generation'
        BY <4>1, <1>n, GenerationsBounded DEF Generations
      <4>3. reset.at = "done" => reset.generation <= generation'
        BY <4>1, <1>n, <1>i, <2>r DEF StatusesAgree
      <4> QED  BY <4>1, <4>2, <4>3, <1>i DEF WorkPageTypeOK
    <3> QED  BY <1>4, <3>1, <3>2, <3>3
  <2>3. WorkPageTypeOK'
    BY <2>0, <2>1, <1>i DEF WorkPageTypeOK
  <2>4. StatusesAgree'
    <3>1. snapshot.generation <= generation'
      BY <2>1, <1>n, <1>i DEF StatusesAgree, Generations
    <3>2. \A l \in Loads : load[l].at = "back" => load[l].answer.generation <= generation'
      <4> SUFFICES ASSUME NEW l \in Loads, load[l].at = "back"
                   PROVE  load[l].answer.generation <= generation'
        OBVIOUS
      <4>1. load[l].answer.generation \in Nat /\ load[l].answer.generation <= generation
        BY <1>i, GenerationsBounded DEF StatusesAgree, LoadTypeOK, Load, Snapshot
      <4> QED  BY <4>1, <2>1, <1>n DEF Generations
    <3> QED  BY <3>1, <3>2, <2>0, <2>1, <1>i DEF StatusesAgree
  <2>6. SubmissionsAgree' /\ NothingIsLost'
    BY <2>0, <1>i DEF SubmissionsAgree, NothingIsLost
  <2>7. WorkIsWatched'
    BY <2>0, <2>1, <1>i DEF WorkIsWatched
  <2> QED  BY <2>3, <2>4, <2>6, <2>7, <1>p
<1> QED  BY <1>1, <1>2, <1>3, <1>4

\* A status that leaves, when it is not shown: the others are as they were.
LEMMA LoadLeaves ==
    ASSUME LoadTypeOK, StatusesAgree, NEW l \in Loads, load' = [load EXCEPT ![l] = NoLoad],
           UNCHANGED <<generation, reset>>, snapshot'.generation <= generation,
           snapshot'.generation = snapshot.generation \/ load[l].current
    PROVE  /\ load' \in [Loads -> Load] /\ StatusesAgree'
           /\ ~load[l].current => (Current => Current')
<1>1. NoLoad \in Load /\ NoLoad.at = "none" /\ NoLoad.current = FALSE
  <2>1. NoSnapshot \in Snapshot
    BY GenerationsBounded DEF NoSnapshot, Snapshot
  <2> QED  BY <2>1 DEF NoLoad, Load
<1>2. load' \in [Loads -> Load] /\ load'[l] = NoLoad /\ \A m \in Loads \ {l} : load'[m] = load[m]
  BY <1>1 DEF LoadTypeOK
<1>3. \A m \in Loads :
         /\ load'[m].at = "back" => load'[m].answer.generation <= generation'
         /\ load'[m].at = "none" => ~load'[m].current
         /\ load'[m].current => m # l /\ load[m].current
  BY <1>1, <1>2 DEF StatusesAgree
<1>4. \A m \in Loads : load'[m].current /\ load'[m].at = "back" =>
                           load'[m].answer.generation >= snapshot'.generation
  BY <1>2, <1>3 DEF StatusesAgree
<1>5. \A m, n \in Loads : load'[m].current /\ load'[n].current => m = n
  BY <1>3 DEF StatusesAgree
<1>6. StatusesAgree'
  BY <1>3, <1>4, <1>5 DEF StatusesAgree
<1>7. ~load[l].current => (Current => Current')
  BY <1>2 DEF Current
<1> QED  BY <1>2, <1>6, <1>7

\* The steps of the page when an answer is back, and those in which nothing moves.
LEMMA AnswersKeepPage ==
    ASSUME WorkPageInv,
           \/ \E k \in Keys : PostReturns(k)
           \/ \E l \in Loads : LoadShows(l) \/ LoadDrops(l) \/ LoadBreaks(l)
           \/ ResetReturns \/ UNCHANGED workPageVars
    PROVE  WorkPageInv'
<1>i. WorkPageTypeOK /\ SubmissionsAgree /\ StatusesAgree /\ NothingIsLost /\ WorkIsWatched
      /\ LoadTypeOK
  BY DEF WorkPageInv, PageKeepsTrack, WorkPageTypeOK, LoadTypeOK
<1>n. generation \in 1 .. MaxGeneration /\ generation \in Nat /\ generation <= generation
      /\ snapshot.generation \in 0 .. MaxGeneration /\ snapshot.generation <= generation
      /\ snapshot \in Snapshot
  BY <1>i, GenerationsBounded DEF WorkPageTypeOK, StatusesAgree, Generations, Snapshot
<1>b. timer \in BOOLEAN /\ open \in BOOLEAN /\ unsure \in BOOLEAN
  BY <1>i, Zenon DEF WorkPageTypeOK
<1>p. ASSUME WorkPageTypeOK', SubmissionsAgree', StatusesAgree', NothingIsLost', WorkIsWatched'
      PROVE  WorkPageInv'
  BY <1>p DEF WorkPageInv, PageKeepsTrack
<1>s. /\ pending \in [Keys -> {"none", "saving", "uncertain", "rejected"}]
      /\ submitted \in [Keys -> 0 .. MaxGeneration]
      /\ post \in [Keys -> {"none", "sent", "accepted", "refused", "lost"}]
      /\ working \in SUBSET Keys /\ discarded \in SUBSET Keys
  BY <1>i DEF WorkPageTypeOK
<1>1. ASSUME NEW k \in Keys, PostReturns(k) PROVE WorkPageInv'
  <2>0. /\ post[k] \in {"accepted", "refused", "lost"} /\ post' = [post EXCEPT ![k] = "none"]
        /\ UNCHANGED <<generation, accepted, working, snapshot, submitted, reset, timer,
                   open, discarded, unsure>>
    BY <1>1 DEF PostReturns
  <2>1. PICK p \in {"none", "saving", "uncertain", "rejected"} :
            /\ pending' = [pending EXCEPT ![k] = p]
            /\ p \in {"saving", "uncertain"} => submitted[k] = snapshot.generation
            /\ p = "none" => pending[k] = "none" \/ post[k] = "accepted"
            /\ UNCHANGED load \/ Loading
    <3>1. CASE post[k] # "accepted" /\ snapshot.generation # submitted[k]
      <4>1. pending' = pending /\ load' = load
        BY <1>1, <3>1 DEF PostReturns
      <4>2. pending' = [pending EXCEPT ![k] = pending[k]]
        BY <4>1, <1>s
      <4>3. pending[k] \in {"saving", "uncertain"} => submitted[k] = snapshot.generation
        BY <1>i DEF SubmissionsAgree
      <4>4. pending[k] \in {"none", "saving", "uncertain", "rejected"}
        BY <1>s
      <4> QED  BY <4>1, <4>2, <4>3, <4>4
    <3>2. CASE ~(post[k] # "accepted" /\ snapshot.generation # submitted[k])
      <4>1. pending' = [pending EXCEPT ![k] = Unsettled(k)] /\ Loading
        BY <1>1, <3>2 DEF PostReturns
      <4>2. Unsettled(k) \in {"none", "uncertain", "rejected"}
            /\ (Unsettled(k) = "none" => post[k] = "accepted")
            /\ (Unsettled(k) = "uncertain" => post[k] # "accepted")
        BY DEF Unsettled
      <4> QED  BY <4>1, <4>2, <3>2
    <3> QED  BY <3>1, <3>2
  <2>2. /\ pending' \in [Keys -> {"none", "saving", "uncertain", "rejected"}]
        /\ post' \in [Keys -> {"none", "sent", "accepted", "refused", "lost"}]
        /\ pending'[k] = p /\ post'[k] = "none"
        /\ \A j \in Keys \ {k} : pending'[j] = pending[j] /\ post'[j] = post[j]
    BY <2>0, <2>1, <1>s
  <2>l. load' \in [Loads -> Load]
    BY <2>1, <1>i, LoadingIsCurrent DEF LoadTypeOK
  <2>3. WorkPageTypeOK'
    BY <2>0, <2>2, <2>l, <1>i DEF WorkPageTypeOK
  <2>4. StatusesAgree' /\ (Current => Current')
    BY <2>0, <2>1, <2>3, <1>n, StatusesKeep
  <2>j. post[k] = "accepted" => \E g \in Generations : <<k, g>> \in accepted
    BY <1>i DEF SubmissionsAgree
  <2>5. SubmissionsAgree'
    <3>1. submitted[k] # 0
      BY <2>0, <1>i DEF SubmissionsAgree
    <3> QED  BY <2>0, <2>1, <2>2, <3>1, <1>i DEF SubmissionsAgree
  <2>6. NothingIsLost'
    BY <2>0, <2>1, <2>2, <2>j, <1>i DEF NothingIsLost
  <2>7. WorkIsWatched'
    BY <2>0, <2>4, <1>i DEF WorkIsWatched, Current
  <2> QED  BY <2>3, <2>4, <2>5, <2>6, <2>7, <1>p
<1>2. ASSUME NEW l \in Loads, LoadShows(l) PROVE WorkPageInv'
  <2>0. /\ load[l].at = "back" /\ load[l].current
        /\ load[l].answer.generation >= snapshot.generation
        /\ snapshot' = load[l].answer /\ unsure' = FALSE
        /\ load' = [load EXCEPT ![l] = NoLoad]
        /\ UNCHANGED <<generation, accepted, working, submitted, post, reset, open, discarded>>
    BY <1>2 DEF LoadShows, Shows
  <2>1. snapshot' \in Snapshot /\ snapshot'.generation <= generation
    BY <2>0, <1>i DEF LoadTypeOK, Load, StatusesAgree
  <2>2. load' \in [Loads -> Load] /\ StatusesAgree'
    BY <2>0, <2>1, <1>i, LoadLeaves
  <2>3. /\ pending' \in [Keys -> {"none", "saving", "uncertain", "rejected"}]
        /\ \A k \in Keys : /\ pending'[k] = "none" <=> pending[k] = "none"
                           /\ pending'[k] \in {"saving", "uncertain"} =>
                                  pending'[k] = pending[k]
                                  /\ snapshot.generation \in {0, snapshot'.generation}
    <3>1. CASE snapshot.generation \in {0, load[l].answer.generation}
      BY <1>2, <3>1, <2>0, <1>s DEF LoadShows
    <3>2. CASE ~(snapshot.generation \in {0, load[l].answer.generation})
      <4>1. pending' = [k \in Keys |-> IF pending[k] = "none" THEN "none" ELSE "rejected"]
        BY <1>2, <3>2 DEF LoadShows, KeptText
      <4> QED  BY <4>1
    <3> QED  BY <3>1, <3>2
  <2>t. timer' \in BOOLEAN /\ (open => timer' = (load[l].answer.active # {}))
    BY <1>2, <1>b DEF LoadShows
  <2>4. WorkPageTypeOK'
    <3>1. unsure' \in BOOLEAN /\ open' \in BOOLEAN
      BY <2>0, <1>b, Zenon
    <3>2. timer' \in BOOLEAN
      BY <2>t, Zenon
    <3> QED  BY <2>0, <2>1, <2>2, <2>3, <3>1, <3>2, <1>i DEF WorkPageTypeOK
  <2>5. SubmissionsAgree'
    <3>1. ASSUME NEW k \in Keys, pending'[k] \in {"saving", "uncertain"}
          PROVE  submitted'[k] = snapshot'.generation
      <4>1. submitted[k] = snapshot.generation /\ submitted[k] # 0
        BY <2>3, <3>1, <1>i DEF SubmissionsAgree
      <4> QED  BY <4>1, <2>3, <3>1, <2>0
    <3> QED  BY <2>0, <2>3, <3>1, <1>i DEF SubmissionsAgree
  <2>6. NothingIsLost'
    BY <2>0, <2>3, <1>i DEF NothingIsLost
  <2>7. WorkIsWatched'
    BY <2>0, <2>t DEF WorkIsWatched
  <2> QED  BY <2>2, <2>4, <2>5, <2>6, <2>7, <1>p
<1>3. ASSUME NEW l \in Loads, LoadDrops(l) \/ LoadBreaks(l) PROVE WorkPageInv'
  <2>0. /\ load' = [load EXCEPT ![l] = NoLoad]
        /\ UNCHANGED <<generation, accepted, working, snapshot, pending, submitted,
                   post, reset, open, discarded, unsure>>
    BY <1>3 DEF LoadDrops, LoadBreaks
  <2>2. load' \in [Loads -> Load] /\ StatusesAgree' /\ (~load[l].current => (Current => Current'))
    <3>1. snapshot'.generation <= generation /\ snapshot'.generation = snapshot.generation
          /\ UNCHANGED <<generation, reset>>
      BY <2>0, <1>n
    <3> QED  BY <2>0, <3>1, <1>i, LoadLeaves
  <2>c. load[l].current \in BOOLEAN
    BY <1>i DEF LoadTypeOK, Load
  <2>t. \/ timer' = timer /\ ~load[l].current
        \/ timer' = (IF open /\ load[l].current /\ snapshot.active # {} THEN TRUE ELSE timer)
    <3>1. CASE LoadDrops(l)
      <4>1. load[l].at = "back" /\ timer' = timer /\ ~Shows(l)
        BY <3>1 DEF LoadDrops
      <4>2. load[l].current => load[l].answer.generation >= snapshot.generation
        BY <4>1, <1>i DEF StatusesAgree
      <4> QED  BY <4>1, <4>2 DEF Shows
    <3>2. CASE LoadBreaks(l)
      BY <3>2 DEF LoadBreaks, AsksAgain
    <3> QED  BY <3>1, <3>2, <1>3
  <2>b. timer' \in BOOLEAN
    BY <2>t, <1>b, Zenon
  <2>3. WorkPageTypeOK'
    BY <2>0, <2>2, <2>b, <1>i DEF WorkPageTypeOK
  <2>5. SubmissionsAgree' /\ NothingIsLost'
    BY <2>0, <1>i DEF SubmissionsAgree, NothingIsLost
  <2>7. WorkIsWatched'
    <3>1. CASE load[l].current
      <4>1. open /\ snapshot.active # {} => timer'
        BY <2>t, <3>1
      <4> QED  BY <4>1, <2>0 DEF WorkIsWatched
    <3>2. CASE ~load[l].current
      <4>1. timer' = timer /\ (Current => Current')
        BY <2>t, <2>2, <3>2
      <4> QED  BY <4>1, <2>0, <1>i DEF WorkIsWatched, Current
    <3> QED  BY <3>1, <3>2, <2>c
  <2> QED  BY <2>2, <2>3, <2>5, <2>7, <1>p
<1>4. ASSUME ResetReturns PROVE WorkPageInv'
  <2>0. /\ reset' = NoReset
        /\ UNCHANGED <<generation, accepted, working, submitted, post, timer, open>>
    BY <1>4 DEF ResetReturns
  <2>r. reset' \in [at: {"none", "sent", "done", "broken"}, generation: 0 .. MaxGeneration]
        /\ reset'.at = "none"
    BY <2>0, GenerationsBounded DEF NoReset
  <2>1. CASE reset.at = "done"
    <3>0. /\ discarded' = discarded \cup {k \in Keys : pending[k] # "none"}
          /\ pending' = [k \in Keys |-> "none"]
          /\ snapshot' = [generation |-> reset.generation, active |-> {}]
          /\ Loading /\ unsure' = unsure
      BY <1>4, <2>1 DEF ResetReturns
    <3>1. snapshot' \in Snapshot /\ snapshot'.generation = reset.generation
          /\ reset.generation <= generation
      BY <3>0, <2>1, <1>i DEF Snapshot, StatusesAgree, LoadTypeOK
    <3>2. /\ load' \in [Loads -> Load] /\ Current'
          /\ \A l \in Loads :
               /\ load'[l].at = "back" => load[l].at = "back" /\ load'[l].answer = load[l].answer
               /\ load'[l].at = "none" => ~load'[l].current
               /\ load'[l].current => load'[l].at = "sent"
          /\ \A l, m \in Loads : load'[l].current /\ load'[m].current => l = m
      BY <3>0, <1>i, LoadingIsCurrent
    <3>3. /\ pending' \in [Keys -> {"none", "saving", "uncertain", "rejected"}]
          /\ discarded' \in SUBSET Keys /\ \A k \in Keys : pending'[k] = "none"
      BY <3>0, <1>s
    <3>4. WorkPageTypeOK'
      BY <2>0, <2>r, <3>0, <3>1, <3>2, <3>3, <1>i, <1>b DEF WorkPageTypeOK
    <3>5. StatusesAgree'
      <4>1. snapshot'.generation <= generation' /\ reset'.at # "done"
        BY <2>0, <2>r, <3>1
      <4>2. \A l \in Loads : load'[l].at = "back" => load'[l].answer.generation <= generation'
        BY <3>2, <2>0, <1>i DEF StatusesAgree
      <4> QED  BY <4>1, <4>2, <3>2 DEF StatusesAgree
    <3>6. SubmissionsAgree'
      BY <2>0, <3>3, <1>i DEF SubmissionsAgree
    <3>7. NothingIsLost'
      BY <2>0, <3>0, <1>i DEF NothingIsLost
    <3>8. WorkIsWatched'
      BY <3>2 DEF WorkIsWatched, Current
    <3> QED  BY <3>4, <3>5, <3>6, <3>7, <3>8, <1>p
  <2>2. CASE reset.at # "done"
    <3>0. unsure' = TRUE /\ UNCHANGED <<pending, snapshot, load, discarded>>
      BY <1>4, <2>2 DEF ResetReturns
    <3>1. unsure' \in BOOLEAN
      BY <3>0, Zenon
    <3>4. WorkPageTypeOK'
      BY <2>0, <2>r, <3>0, <3>1, <1>i, <1>b DEF WorkPageTypeOK
    <3>5. StatusesAgree' /\ SubmissionsAgree' /\ NothingIsLost' /\ WorkIsWatched'
      BY <2>0, <2>r, <3>0, <1>i DEF StatusesAgree, SubmissionsAgree, NothingIsLost, WorkIsWatched
    <3> QED  BY <3>4, <3>5, <1>p
  <2> QED  BY <2>1, <2>2
<1>5. ASSUME UNCHANGED workPageVars PROVE WorkPageInv'
  <2>0. UNCHANGED <<generation, accepted, working, snapshot, pending, submitted,
                  post, load, reset, timer, open, discarded, unsure>>
    BY <1>5 DEF workPageVars
  <2>4. WorkPageTypeOK'
    BY <2>0, <1>i, <1>b DEF WorkPageTypeOK
  <2>5. StatusesAgree' /\ SubmissionsAgree' /\ NothingIsLost' /\ WorkIsWatched'
    BY <2>0, <1>i DEF StatusesAgree, SubmissionsAgree, NothingIsLost, WorkIsWatched
  <2> QED  BY <2>4, <2>5, <1>p
<1> QED  BY <1>1, <1>2, <1>3, <1>4, <1>5

LEMMA WorkPageSteps == WorkPageInv /\ [WorkPageNext]_workPageVars => WorkPageInv'
<1> SUFFICES ASSUME WorkPageInv, [WorkPageNext]_workPageVars PROVE WorkPageInv'
  OBVIOUS
<1>1. CASE \/ OpenThread \/ LeaveThread \/ AskReset \/ TimerFires
           \/ \E k \in Keys : SendMessage(k) \/ Retry(k) \/ Recover(k) \/ CancelWork(k)
  BY <1>1, UserKeepsPage
<1>2. CASE \/ AnswerReset \/ LoseReset \/ ResetElsewhere
           \/ \E k \in Keys : AnswerPost(k) \/ LosePost(k) \/ FinishWork(k)
           \/ \E l \in Loads : AnswerLoad(l) \/ LoseLoad(l)
  BY <1>2, ServerKeepsPage
<1>3. CASE \/ \E k \in Keys : PostReturns(k)
           \/ \E l \in Loads : LoadShows(l) \/ LoadDrops(l) \/ LoadBreaks(l)
           \/ ResetReturns \/ UNCHANGED workPageVars
  BY <1>3, AnswersKeepPage
<1> QED  BY <1>1, <1>2, <1>3, Zenon DEF WorkPageNext

\* A message that was sent is a job or is still on the page, and unfinished work on the
\* page goes on being asked for, whatever requests and answers are lost or late.
THEOREM PageTracksWork == WorkPageSpec => []PageKeepsTrack
<1>1. WorkPageInv => PageKeepsTrack
  BY DEF WorkPageInv
<1> QED  BY <1>1, WorkPageStarts, WorkPageSteps, PTL DEF WorkPageSpec

---------------------------------------------------------------------------
(* The page of a todo *)

\* The updates whose answers are on their way, and what the page makes of an answer.
Unanswered == {p \in Patches : patch[p].at = "written"}
Applied(p, t) ==
    [status   |-> IF patch[p].sets.decision # Same
                  THEN MirroredStatus(t, patch[p].sets.decision)
                  ELSE Or(patch[p].sets.status, t.status),
     decision |-> Or(patch[p].sets.decision, t.decision),
     title    |-> Or(patch[p].sets.title, t.title)]

\* An update that read the row knows it as it is, unless it was written since; a page
\* sets the status or the decision, never both.
ReadsHold ==
    \A p \in Patches :
        /\ patch[p].at = "read" => Decides(p)
        /\ patch[p].at = "read" /\ ~patch[p].missed =>
               patch[p].also = StatusFor(patch[p].sets.decision, row)
        /\ patch[p].at = "sent" => patch[p].also = Same
        /\ patch[p].page /\ patch[p].sets.decision # Same => patch[p].sets.status = Same

\* The unanswered updates are in the order of their writes.
InOrder ==
    /\ \A p \in Unanswered : patch[p].after \subseteq Unanswered \ {p}
    /\ \A p, q \in Unanswered : p # q => (p \in patch[q].after <=> q \notin patch[p].after)
    /\ \A p, q, r \in Unanswered :
           p \in patch[q].after /\ q \in patch[r].after => p \in patch[r].after

\* before[p] is the row that the update p found: what is shown for the first of the
\* unanswered updates, and what the one before made of it for each of the others.
FoundBy(before) ==
    /\ \A p \in Unanswered : patch[p].after = {} => before[p] = shown
    /\ \A p, q \in Unanswered :
           patch[q].after = patch[p].after \cup {p} => before[q] = Applied(p, before[p])
    /\ \A p \in Unanswered :
           Unanswered \subseteq patch[p].after \cup {p} => row = Applied(p, before[p])
    /\ Unanswered = {} => shown = row

PageFollows == reloadDue \/ (InOrder /\ \E before \in [Patches -> Row] : FoundBy(before))

TodoInv == TodoTypeOK /\ ReadsHold /\ RejectionCloses /\ PageFollows

LEMMA TodoInvShows == TodoInv => TodoIsAsShown
<1> SUFFICES ASSUME TodoInv, ~reloadDue, ~\E p \in Patches : patch[p].at = "written"
             PROVE  shown = row
  BY Zenon DEF TodoInv, TodoIsAsShown, PageAgrees
<1>1. Unanswered = {}
  BY DEF Unanswered
<1> QED  BY <1>1 DEF TodoInv, PageFollows, FoundBy

LEMMA TodoStarts == TodoInit => TodoInv
<1> SUFFICES ASSUME TodoInit PROVE TodoInv
  OBVIOUS
<1>1. NoPatch \in Patch /\ NoPatch.at = "none" /\ NoPatch.page = FALSE
  BY DEF NoPatch, Patch, NoUpdate, Update
<1>2. patch \in [Patches -> Patch] /\ \A p \in Patches : patch[p] = NoPatch
  BY <1>1 DEF TodoInit
<1>3. row \in Row /\ row.decision # "rejected" /\ shown = row
  <2>1. PICK d \in {"none", "accepted"}, t \in Titles :
            row = [status |-> "open", decision |-> d, title |-> t]
    BY DEF TodoInit
  <2>2. shown = row
    BY DEF TodoInit
  <2> QED  BY <2>1, <2>2 DEF Row, Statuses
<1>4. reloadDue \in BOOLEAN /\ byHand \in BOOLEAN
  BY Zenon DEF TodoInit
<1>5. Unanswered = {}
  BY <1>1, <1>2 DEF Unanswered
<1>6. ReadsHold
  BY <1>1, <1>2 DEF ReadsHold
<1>7. PageFollows
  <2> DEFINE b == [p \in Patches |-> row]
  <2>1. b \in [Patches -> Row]
    BY <1>3
  <2>2. FoundBy(b)
    BY <1>3, <1>5 DEF FoundBy
  <2>3. InOrder
    BY <1>5 DEF InOrder
  <2> HIDE DEF b
  <2>4. \E before \in [Patches -> Row] : FoundBy(before)
    BY <2>1, <2>2
  <2> QED  BY <2>3, <2>4 DEF PageFollows
<1> QED  BY <1>2, <1>3, <1>4, <1>6, <1>7 DEF TodoInv, TodoTypeOK, RejectionCloses

\* A step that changes neither the row nor what is shown, nor the unanswered updates.
LEMMA FollowingStays ==
    ASSUME PageFollows, UNCHANGED <<row, shown>>, ~reloadDue' => ~reloadDue,
           \A p \in Patches : patch'[p].at = "written" <=> patch[p].at = "written",
           \A p \in Patches : patch[p].at = "written" =>
               patch'[p].after = patch[p].after /\ patch'[p].sets = patch[p].sets
    PROVE  PageFollows'
<1>1. Unanswered' = Unanswered
  BY DEF Unanswered
<1>2. \A p \in Unanswered : patch'[p].after = patch[p].after /\ patch'[p].sets = patch[p].sets
  BY DEF Unanswered
<1> SUFFICES ASSUME ~reloadDue'
             PROVE  InOrder' /\ \E before \in [Patches -> Row] : FoundBy(before)'
  BY DEF PageFollows
<1>3. InOrder /\ \E before \in [Patches -> Row] : FoundBy(before)
  BY DEF PageFollows
<1>4. PICK before \in [Patches -> Row] : FoundBy(before)
  BY <1>3
<1>5. InOrder'
  BY <1>1, <1>2, <1>3 DEF InOrder
<1>6. \A p \in Unanswered : Applied(p, before[p])' = Applied(p, before[p])
  BY <1>2 DEF Applied
<1>7. FoundBy(before)'
  BY <1>1, <1>2, <1>4, <1>6 DEF FoundBy
<1> QED  BY <1>5, <1>7

\* A decided row is as closed as before when init_db brings it in line.
LEMMA SettledRow ==
    ASSUME row \in Row, row' = row \/ row' = Settled(row), RejectionCloses, byHand' = byHand
    PROVE  row' \in Row /\ RejectionCloses'
BY DEF Row, Settled, RejectionCloses, Statuses

\* The first of the unanswered updates is answered.
LEMMA AnswerIsNext ==
    ASSUME TodoTypeOK, PageFollows, NEW p \in Patches, PatchReturns(p)
    PROVE  PageFollows'
<1>1. /\ patch[p].at = "written" /\ row' = row /\ shown' = Applied(p, shown)
      /\ reloadDue' = (reloadDue \/ \E q \in patch[p].after : patch[q].at = "written")
      /\ patch' = [q \in Patches |-> IF q = p THEN NoPatch
                                     ELSE [patch[q] EXCEPT !.after = @ \ {p}]]
  BY DEF PatchReturns, Applied
<1> SUFFICES ASSUME ~reloadDue'
             PROVE  InOrder' /\ \E before \in [Patches -> Row] : FoundBy(before)'
  BY DEF PageFollows
<1>2. ~reloadDue /\ \A q \in patch[p].after : patch[q].at # "written"
  BY <1>1
<1>3. InOrder
  BY <1>2 DEF PageFollows
<1>4. PICK before \in [Patches -> Row] : FoundBy(before)
  BY <1>2 DEF PageFollows
<1>5. p \in Unanswered /\ patch[p].after = {}
  BY <1>1, <1>2, <1>3 DEF Unanswered, InOrder
<1>6. \A q \in Unanswered \ {p} : p \in patch[q].after
  BY <1>3, <1>5 DEF InOrder
<1>7. ASSUME NEW q \in Patches \ {p}
      PROVE  patch'[q].at = patch[q].at /\ patch'[q].after = patch[q].after \ {p}
             /\ patch'[q].sets = patch[q].sets
  BY <1>1 DEF TodoTypeOK, Patch
<1>8. patch'[p].at = "none"
  BY <1>1 DEF NoPatch
<1>9. Unanswered' = Unanswered \ {p}
  BY <1>7, <1>8 DEF Unanswered
<1>10. InOrder'
  BY <1>3, <1>6, <1>7, <1>9 DEF InOrder, Unanswered
<1>11. \A q \in Unanswered' : Applied(q, before[q])' = Applied(q, before[q])
  <2> SUFFICES ASSUME NEW q \in Unanswered' PROVE Applied(q, before[q])' = Applied(q, before[q])
    OBVIOUS
  <2>1. q \in Patches \ {p}
    BY <1>9 DEF Unanswered
  <2> QED  BY <2>1, <1>7 DEF Applied
<1>12. before[p] = shown /\ shown' = Applied(p, before[p])
  BY <1>1, <1>4, <1>5 DEF FoundBy
<1>u. \A q \in Unanswered' : /\ q \in Unanswered /\ q # p /\ p \in patch[q].after
                             /\ patch'[q].after = patch[q].after \ {p}
  BY <1>6, <1>7, <1>9 DEF Unanswered
<1>13. ASSUME NEW q \in Unanswered', patch'[q].after = {} PROVE before[q] = shown'
  <2>1. patch[q].after = patch[p].after \cup {p}
    BY <1>u, <1>5, <1>13
  <2> QED  BY <2>1, <1>u, <1>4, <1>5, <1>12 DEF FoundBy
<1>14. ASSUME NEW q \in Unanswered', NEW r \in Unanswered', patch'[r].after = patch'[q].after \cup {q}
       PROVE  before[r] = Applied(q, before[q])
  <2>1. patch[r].after = patch[q].after \cup {q}
    BY <1>u, <1>14
  <2> QED  BY <2>1, <1>u, <1>4 DEF FoundBy
<1>15. ASSUME NEW q \in Unanswered', Unanswered' \subseteq patch'[q].after \cup {q}
       PROVE  row' = Applied(q, before[q])
  <2>1. Unanswered \subseteq patch[q].after \cup {q}
    BY <1>u, <1>9, <1>15
  <2> QED  BY <2>1, <1>u, <1>1, <1>4 DEF FoundBy
<1>16. ASSUME Unanswered' = {} PROVE shown' = row'
  <2>1. Unanswered \subseteq patch[p].after \cup {p}
    BY <1>9, <1>16
  <2> QED  BY <2>1, <1>1, <1>4, <1>5, <1>12 DEF FoundBy
<1>17. FoundBy(before)'
  BY <1>11, <1>13, <1>14, <1>15, <1>16 DEF FoundBy
<1> QED  BY <1>10, <1>17

\* What an update writes is what the page will make of its answer.
LEMMA WritesWhatItShows ==
    ASSUME TodoTypeOK, ReadsHold, NEW p \in Patches, WriteTodo(p), ~reloadDue'
    PROVE  /\ ~reloadDue /\ patch[p].page
           /\ row' = Applied(p, row) /\ shown' = shown
           /\ patch' = [q \in Patches |->
                 IF q = p THEN [patch[p] EXCEPT !.at = "written", !.after = Unanswered]
                 ELSE [patch[q] EXCEPT !.missed = @ \/ patch[q].at = "read"]]
           /\ patch[p].at # "written"
<1> DEFINE old == IF patch[p].at = "sent" THEN Found(p) ELSE row
<1>1. /\ \/ patch[p].at = "sent" /\ ~Decides(p)
         \/ patch[p].at = "read"
      /\ row' = [status   |-> Or(Or(patch[p].sets.status, patch[p].also), old.status),
                 decision |-> Or(patch[p].sets.decision, old.decision),
                 title    |-> Or(patch[p].sets.title, old.title)]
      /\ reloadDue' = (reloadDue \/ ~patch[p].page \/ patch[p].missed \/ old # row)
      /\ shown' = shown
  BY DEF WriteTodo
<1>2. ~reloadDue /\ patch[p].page /\ ~patch[p].missed /\ old = row
  BY <1>1
<1>3. patch' = [q \in Patches |->
                 IF q = p THEN [patch[p] EXCEPT !.at = "written", !.after = Unanswered]
                 ELSE [patch[q] EXCEPT !.missed = @ \/ patch[q].at = "read"]]
  BY <1>2, Zenon DEF WriteTodo, Unanswered
<1>4. row' = [status   |-> Or(Or(patch[p].sets.status, patch[p].also), row.status),
              decision |-> Or(patch[p].sets.decision, row.decision),
              title    |-> Or(patch[p].sets.title, row.title)]
  BY <1>1, <1>2
<1> HIDE DEF old
<1>5. Or(Or(patch[p].sets.status, patch[p].also), row.status) =
          IF patch[p].sets.decision # Same
          THEN MirroredStatus(row, patch[p].sets.decision)
          ELSE Or(patch[p].sets.status, row.status)
  <2>1. CASE patch[p].sets.decision # Same
    <3>1. patch[p].sets.status = Same /\ patch[p].at = "read"
      BY <1>1, <1>2, <2>1 DEF ReadsHold, Decides
    <3>2. patch[p].also = StatusFor(patch[p].sets.decision, row)
      BY <1>2, <3>1 DEF ReadsHold
    <3>3. patch[p].sets.decision \in {"accepted", "rejected"} /\ row.status \in Statuses
      BY <2>1 DEF TodoTypeOK, Patch, Update, Row
    <3> QED  BY <2>1, <3>1, <3>2, <3>3 DEF MirroredStatus, StatusFor, Or, Same, Statuses
  <2>2. CASE patch[p].sets.decision = Same
    <3>1. patch[p].at = "sent" /\ patch[p].also = Same
      BY <1>1, <2>2 DEF ReadsHold, Decides
    <3> QED  BY <2>2, <3>1 DEF Or
  <2> QED  BY <2>1, <2>2
<1> QED  BY <1>1, <1>2, <1>3, <1>4, <1>5 DEF Applied

\* The last of the unanswered updates is written.
LEMMA WriteIsLast ==
    ASSUME TodoTypeOK, ReadsHold, PageFollows, NEW p \in Patches, WriteTodo(p)
    PROVE  PageFollows'
<1> SUFFICES ASSUME ~reloadDue'
             PROVE  InOrder' /\ \E before \in [Patches -> Row] : FoundBy(before)'
  BY DEF PageFollows
<1>1. /\ ~reloadDue /\ row' = Applied(p, row) /\ shown' = shown
      /\ patch' = [q \in Patches |->
             IF q = p THEN [patch[p] EXCEPT !.at = "written", !.after = Unanswered]
             ELSE [patch[q] EXCEPT !.missed = @ \/ patch[q].at = "read"]]
      /\ patch[p].at # "written"
  BY WritesWhatItShows
<1>2. InOrder
  BY <1>1 DEF PageFollows
<1>3. PICK earlier \in [Patches -> Row] : FoundBy(earlier)
  BY <1>1 DEF PageFollows
<1>4. PICK before \in [Patches -> Row] :
         before[p] = row /\ \A q \in Patches \ {p} : before[q] = earlier[q]
  <2>1. /\ [earlier EXCEPT ![p] = row] \in [Patches -> Row]
        /\ [earlier EXCEPT ![p] = row][p] = row
        /\ \A q \in Patches \ {p} : [earlier EXCEPT ![p] = row][q] = earlier[q]
    BY <1>3 DEF TodoTypeOK
  <2> QED  BY <2>1
<1>5. patch \in [Patches -> Patch]
  BY DEF TodoTypeOK
<1>6. patch'[p].at = "written" /\ patch'[p].after = Unanswered /\ patch'[p].sets = patch[p].sets
  BY <1>1, <1>5 DEF Patch
<1>7. \A q \in Patches \ {p} : patch'[q].at = patch[q].at /\ patch'[q].after = patch[q].after
                               /\ patch'[q].sets = patch[q].sets
  BY <1>1, <1>5 DEF Patch
<1>8. Unanswered' = Unanswered \cup {p} /\ p \notin Unanswered
  <2>1. p \notin Unanswered /\ p \in Unanswered'
    BY <1>1, <1>6 DEF Unanswered
  <2>2. \A q \in Patches \ {p} : q \in Unanswered' <=> q \in Unanswered
    BY <1>7 DEF Unanswered
  <2>3. Unanswered \subseteq Patches /\ Unanswered' \subseteq Patches
    BY DEF Unanswered
  <2> QED  BY <2>1, <2>2, <2>3
<1>u. \A q \in Unanswered : /\ q \in Patches /\ q # p /\ patch'[q].after = patch[q].after
                            /\ p \notin patch[q].after /\ before[q] = earlier[q]
                            /\ patch'[q].sets = patch[q].sets
  BY <1>2, <1>4, <1>7, <1>8 DEF InOrder, Unanswered
<1>9. InOrder'
  <2>1. \A q \in Unanswered' : patch'[q].after \subseteq Unanswered' \ {q}
    BY <1>2, <1>6, <1>8, <1>u DEF InOrder
  <2>2. \A q, r \in Unanswered' : q # r => (q \in patch'[r].after <=> r \notin patch'[q].after)
    BY <1>2, <1>6, <1>8, <1>u DEF InOrder
  <2>3. ASSUME NEW q \in Unanswered', NEW r \in Unanswered', NEW s \in Unanswered',
               q \in patch'[r].after, r \in patch'[s].after
        PROVE  q \in patch'[s].after
    <3>1. r # p
      BY <2>3, <1>6, <1>8, <1>u
    <3>2. q \in Unanswered
      BY <2>3, <3>1, <1>2, <1>8, <1>u DEF InOrder
    <3> QED  BY <2>3, <3>1, <3>2, <1>2, <1>6, <1>8, <1>u DEF InOrder
  <2> QED  BY <2>1, <2>2, <2>3 DEF InOrder
<1>10. /\ \A q \in Unanswered : Applied(q, before[q])' = Applied(q, earlier[q])
       /\ Applied(p, before[p])' = Applied(p, row)
  <2>1. Applied(p, before[p])' = Applied(p, row)
    BY <1>4, <1>6 DEF Applied
  <2>2. ASSUME NEW q \in Unanswered PROVE Applied(q, before[q])' = Applied(q, earlier[q])
    <3>1. patch'[q].sets = patch[q].sets /\ before[q] = earlier[q]
      BY <1>u
    <3> QED  BY <3>1 DEF Applied
  <2> QED  BY <2>1, <2>2
<1>11. FoundBy(before)'
  <2>1. \A q \in Unanswered' : patch'[q].after = {} => before[q] = shown'
    BY <1>1, <1>3, <1>4, <1>6, <1>8, <1>u DEF FoundBy
  <2>2. ASSUME NEW q \in Unanswered', NEW r \in Unanswered',
               patch'[r].after = patch'[q].after \cup {q}
        PROVE  before[r] = Applied(q, before[q])'
    <3>1. q \in Unanswered
      BY <2>2, <1>6, <1>8, <1>u
    <3>2. CASE r = p
      <4>1. Unanswered \subseteq patch[q].after \cup {q}
        BY <2>2, <3>1, <3>2, <1>6, <1>u
      <4>2. row = Applied(q, earlier[q])
        BY <3>1, <4>1, <1>3 DEF FoundBy
      <4> QED  BY <3>1, <3>2, <4>2, <1>4, <1>10
    <3>3. CASE r # p
      <4>1. r \in Unanswered /\ patch[r].after = patch[q].after \cup {q}
        BY <2>2, <3>1, <3>3, <1>8, <1>u
      <4>2. earlier[r] = Applied(q, earlier[q])
        BY <3>1, <4>1, <1>3 DEF FoundBy
      <4> QED  BY <3>1, <4>1, <4>2, <1>10, <1>u
    <3> QED  BY <3>2, <3>3
  <2>3. ASSUME NEW q \in Unanswered', Unanswered' \subseteq patch'[q].after \cup {q}
        PROVE  row' = Applied(q, before[q])'
    <3>1. q = p
      BY <2>3, <1>8, <1>u
    <3> QED  BY <3>1, <1>1, <1>10
  <2>4. Unanswered' # {}
    BY <1>8
  <2>5. ASSUME NEW q \in Unanswered', NEW r \in Unanswered'
        PROVE  patch'[r].after = patch'[q].after \cup {q} => before[r] = Applied(q, before[q])'
    BY <2>2
  <2>6. \A q \in Unanswered' : Unanswered' \subseteq patch'[q].after \cup {q} =>
                                    row' = Applied(q, before[q])'
    BY <2>3
  <2> QED  BY <2>1, <2>5, <2>6, <2>4 DEF FoundBy
<1>12. \E b \in [Patches -> Row] : FoundBy(b)'
  BY <1>4, <1>11
<1> QED  BY <1>9, <1>12

\* The steps of the page and of the others before the server.
LEMMA AsksKeepTodo ==
    ASSUME TodoInv, NEW p \in Patches,
           CommitStatus(p) \/ CommitTitle(p) \/ SendDecision(p) \/ TodosUpdate(p)
    PROVE  TodoInv'
<1>i. TodoTypeOK /\ ReadsHold /\ RejectionCloses /\ PageFollows
  BY DEF TodoInv
<1>1. PICK u \in Update, f \in BOOLEAN :
         SendsPatch(p, f, u) /\ (f /\ u.decision # Same => u.status = Same)
  <2>n. NoUpdate \in Update /\ NoUpdate.decision = Same /\ NoUpdate.status = Same
    BY DEF NoUpdate, Update
  <2>1. CASE CommitStatus(p)
    <3>1. PICK s \in Statuses : SendsPatch(p, TRUE, [NoUpdate EXCEPT !.status = s])
      BY <2>1 DEF CommitStatus
    <3>2. [NoUpdate EXCEPT !.status = s] \in Update
          /\ [NoUpdate EXCEPT !.status = s].decision = Same
      BY <2>n DEF Update
    <3> QED  BY <3>1, <3>2
  <2>2. CASE CommitTitle(p)
    <3>1. PICK t \in Titles : SendsPatch(p, TRUE, [NoUpdate EXCEPT !.title = t])
      BY <2>2 DEF CommitTitle
    <3>2. [NoUpdate EXCEPT !.title = t] \in Update
          /\ [NoUpdate EXCEPT !.title = t].decision = Same
      BY <2>n DEF Update
    <3> QED  BY <3>1, <3>2
  <2>3. CASE SendDecision(p)
    <3>1. PICK d \in {"accepted", "rejected"} :
             SendsPatch(p, TRUE, [NoUpdate EXCEPT !.decision = d])
      BY <2>3 DEF SendDecision
    <3>2. [NoUpdate EXCEPT !.decision = d] \in Update
          /\ [NoUpdate EXCEPT !.decision = d].status = Same
      BY <2>n DEF Update
    <3> QED  BY <3>1, <3>2
  <2>4. CASE TodosUpdate(p)
    <3>1. CASE \E s \in Statuses \cup {Same}, d \in {"accepted", "rejected", Same} :
                   SendsPatch(p, FALSE, [NoUpdate EXCEPT !.status = s, !.decision = d])
      <4>1. PICK s \in Statuses \cup {Same}, d \in {"accepted", "rejected", Same} :
                   SendsPatch(p, FALSE, [NoUpdate EXCEPT !.status = s, !.decision = d])
        BY <3>1
      <4>2. [NoUpdate EXCEPT !.status = s, !.decision = d] \in Update
        BY <2>n DEF Update
      <4> QED  BY <4>1, <4>2
    <3>2. CASE \E t \in Titles : SendsPatch(p, FALSE, [NoUpdate EXCEPT !.title = t])
      <4>1. PICK t \in Titles : SendsPatch(p, FALSE, [NoUpdate EXCEPT !.title = t])
        BY <3>2
      <4>2. [NoUpdate EXCEPT !.title = t] \in Update
        BY <2>n DEF Update
      <4> QED  BY <4>1, <4>2
    <3> QED  BY <2>4, <3>1, <3>2 DEF TodosUpdate
  <2> QED  BY <2>1, <2>2, <2>3, <2>4
<1>2. /\ patch[p].at = "none"
      /\ patch' = [patch EXCEPT ![p] = [NoPatch EXCEPT !.at = "sent", !.page = f, !.sets = u]]
      /\ UNCHANGED <<row, shown, reloadDue, byHand>>
  BY <1>1 DEF SendsPatch
<1>3. PICK x \in Patch : /\ patch' = [patch EXCEPT ![p] = x]
                         /\ x.at = "sent" /\ x.also = Same /\ x.page = f /\ x.sets = u
  <2> DEFINE x == [NoPatch EXCEPT !.at = "sent", !.page = f, !.sets = u]
  <2>1. x \in Patch /\ x.at = "sent" /\ x.also = Same /\ x.page = f /\ x.sets = u
    BY DEF NoPatch, Patch
  <2> QED  BY <1>2, <2>1
<1>4. /\ patch' \in [Patches -> Patch] /\ patch'[p] = x
      /\ \A q \in Patches \ {p} : patch'[q] = patch[q]
  BY <1>3, <1>i DEF TodoTypeOK
<1>5. TodoTypeOK'
  BY <1>2, <1>4, <1>i DEF TodoTypeOK
<1>6. ReadsHold'
  BY <1>1, <1>2, <1>3, <1>4, <1>i DEF ReadsHold, Decides
<1>7. RejectionCloses'
  BY <1>2, <1>i DEF RejectionCloses
<1>8. PageFollows'
  <2>1. \A q \in Patches : /\ patch'[q].at = "written" <=> patch[q].at = "written"
                           /\ patch[q].at = "written" => patch'[q] = patch[q]
    BY <1>2, <1>3, <1>4
  <2> QED  BY <2>1, <1>2, <1>i, FollowingStays
<1> QED  BY <1>5, <1>6, <1>7, <1>8 DEF TodoInv

\* The steps of the server.
LEMMA ServerKeepsTodo ==
    ASSUME TodoInv,
           \/ AnyRequest
           \/ \E p \in Patches : ReadTodo(p) \/ WriteTodo(p) \/ LosePatch(p)
    PROVE  TodoInv'
<1>i. TodoTypeOK /\ ReadsHold /\ RejectionCloses /\ PageFollows
      /\ patch \in [Patches -> Patch] /\ row \in Row /\ shown \in Row
  BY DEF TodoInv, TodoTypeOK
<1>b. reloadDue \in BOOLEAN /\ byHand \in BOOLEAN
      /\ \A q \in Patches : patch[q].missed \in BOOLEAN
  <2>1. reloadDue \in BOOLEAN /\ byHand \in BOOLEAN
    BY <1>i, Zenon DEF TodoTypeOK
  <2>2. \A q \in Patches : patch[q].missed \in BOOLEAN
    BY <1>i DEF Patch
  <2> QED  BY <2>1, <2>2
\* The updates that read the row miss what is written now.
<1>m. ASSUME NEW q \in Patches, NEW m \in BOOLEAN,
             patch'[q] = [patch[q] EXCEPT !.missed = m]
      PROVE  /\ patch'[q] \in Patch /\ patch'[q].missed = m
             /\ patch'[q].at = patch[q].at /\ patch'[q].page = patch[q].page
             /\ patch'[q].sets = patch[q].sets /\ patch'[q].also = patch[q].also
             /\ patch'[q].after = patch[q].after
  <2>1. patch[q] \in Patch
    BY <1>i
  <2> QED  BY <2>1, <1>m DEF Patch
<1>1. CASE AnyRequest
  <2>1. /\ row' = Settled(row) /\ reloadDue' = TRUE /\ UNCHANGED <<shown, byHand>>
        /\ patch' = [q \in Patches |-> [patch[q] EXCEPT !.missed = @ \/ patch[q].at = "read"]]
    BY <1>1 DEF AnyRequest
  <2>2. row' \in Row /\ RejectionCloses'
    BY <2>1, <1>i, SettledRow
  <2>3. ASSUME NEW q \in Patches
        PROVE  /\ patch'[q] \in Patch
               /\ patch'[q].missed = (patch[q].missed \/ patch[q].at = "read")
               /\ patch'[q].at = patch[q].at /\ patch'[q].page = patch[q].page
               /\ patch'[q].sets = patch[q].sets /\ patch'[q].also = patch[q].also
    <3>1. patch'[q] = [patch[q] EXCEPT !.missed = patch[q].missed \/ patch[q].at = "read"]
      BY <2>1, Zenon
    <3>2. (patch[q].missed \/ patch[q].at = "read") \in BOOLEAN
      BY <1>b
    <3> QED  BY <3>1, <3>2, <1>m
  <2>4. patch' \in [Patches -> Patch]
    BY <2>1, <2>3, Zenon
  <2>5. TodoTypeOK'
    BY <2>1, <2>2, <2>4, <1>i, <1>b DEF TodoTypeOK
  <2>6. ReadsHold'
    BY <2>3, <1>i DEF ReadsHold, Decides
  <2>7. PageFollows'
    BY <2>1 DEF PageFollows
  <2> QED  BY <2>2, <2>5, <2>6, <2>7 DEF TodoInv
<1>2. ASSUME NEW p \in Patches, ReadTodo(p) PROVE TodoInv'
  <2> DEFINE a == StatusFor(patch[p].sets.decision, row')
             x == [patch[p] EXCEPT !.at = "read", !.also = a]
  <2>1. /\ patch[p].at = "sent" /\ Decides(p) /\ row' \in {row, Settled(row)}
        /\ reloadDue' = (reloadDue \/ row' # row) /\ UNCHANGED <<shown, byHand>>
    BY <1>2 DEF ReadTodo, Found
  <2>p. patch' = [q \in Patches |->
             IF q = p THEN x
             ELSE [patch[q] EXCEPT !.missed = @ \/ (patch[q].at = "read" /\ row' # row)]]
    BY <1>2, Zenon DEF ReadTodo
  <2>2. row' \in Row /\ RejectionCloses'
    BY <2>1, <1>i, SettledRow
  <2>x. x \in Patch /\ x.at = "read" /\ x.also = a /\ x.sets = patch[p].sets
        /\ x.page = patch[p].page
    <3>1. a \in Statuses \cup {Same}
      BY DEF StatusFor, Statuses
    <3> HIDE DEF a
    <3>2. patch[p] \in Patch
      BY <1>i
    <3> QED  BY <3>1, <3>2 DEF Patch
  <2> HIDE DEF x
  <2>3. ASSUME NEW q \in Patches \ {p}
        PROVE  /\ patch'[q] \in Patch
               /\ patch'[q].missed = (patch[q].missed \/ (patch[q].at = "read" /\ row' # row))
               /\ patch'[q].at = patch[q].at /\ patch'[q].page = patch[q].page
               /\ patch'[q].sets = patch[q].sets /\ patch'[q].also = patch[q].also
               /\ patch'[q].after = patch[q].after
    <3>1. patch'[q] = [patch[q] EXCEPT !.missed =
                           patch[q].missed \/ (patch[q].at = "read" /\ row' # row)]
      BY <2>p, Zenon
    <3>2. (patch[q].missed \/ (patch[q].at = "read" /\ row' # row)) \in BOOLEAN
      BY <1>b
    <3> QED  BY <3>1, <3>2, <1>m
  <2>y. patch'[p] = x
    BY <2>p, Zenon
  <2>4. patch' \in [Patches -> Patch]
    <3>1. \A q \in Patches : patch'[q] \in Patch
      BY <2>3, <2>x, <2>y
    <3> QED  BY <2>p, <3>1, Zenon
  <2>5. TodoTypeOK'
    <3>1. reloadDue' \in BOOLEAN
      BY <2>1, <1>b
    <3>2. byHand' \in BOOLEAN
      BY <2>1, <1>b, Zenon
    <3> QED  BY <2>1, <2>2, <2>4, <3>1, <3>2, <1>i DEF TodoTypeOK
  <2>6. ReadsHold'
    <3>1. ASSUME NEW q \in Patches \ {p}
          PROVE  /\ patch'[q].at = "read" => Decides(q)'
                 /\ patch'[q].at = "read" /\ ~patch'[q].missed =>
                        patch'[q].also = StatusFor(patch'[q].sets.decision, row')
                 /\ patch'[q].at = "sent" => patch'[q].also = Same
                 /\ patch'[q].page /\ patch'[q].sets.decision # Same =>
                        patch'[q].sets.status = Same
      BY <2>3, <1>i DEF ReadsHold, Decides
    <3>2. /\ patch'[p].at = "read" /\ Decides(p)'
          /\ patch'[p].also = StatusFor(patch'[p].sets.decision, row')
          /\ patch'[p].page /\ patch'[p].sets.decision # Same => patch'[p].sets.status = Same
      BY <2>1, <2>x, <2>y, <1>i DEF ReadsHold, Decides
    <3> QED  BY <3>1, <3>2 DEF ReadsHold
  <2>7. PageFollows'
    <3>1. CASE row' = row
      <4>1. \A q \in Patches :
               /\ patch'[q].at = "written" <=> patch[q].at = "written"
               /\ patch[q].at = "written" =>
                      patch'[q].after = patch[q].after /\ patch'[q].sets = patch[q].sets
        BY <2>1, <2>3, <2>x, <2>y
      <4> QED  BY <4>1, <3>1, <2>1, <1>i, FollowingStays
    <3>2. CASE row' # row
      BY <3>2, <2>1 DEF PageFollows
    <3> QED  BY <3>1, <3>2
  <2> QED  BY <2>2, <2>5, <2>6, <2>7 DEF TodoInv
<1>3. ASSUME NEW p \in Patches, WriteTodo(p) PROVE TodoInv'
  <2> DEFINE old == IF patch[p].at = "sent" THEN Found(p) ELSE row
  <2>1. /\ \/ patch[p].at = "sent" /\ ~Decides(p)
           \/ patch[p].at = "read"
        /\ row' = [status   |-> Or(Or(patch[p].sets.status, patch[p].also), old.status),
                   decision |-> Or(patch[p].sets.decision, old.decision),
                   title    |-> Or(patch[p].sets.title, old.title)]
        /\ shown' = shown
        /\ reloadDue' = (reloadDue \/ ~patch[p].page \/ patch[p].missed \/ old # row)
        /\ byHand' = IF patch[p].sets.status # Same THEN TRUE
                     ELSE IF Decides(p) THEN patch[p].missed ELSE byHand
    BY <1>3, Zenon DEF WriteTodo
  <2>u. PICK w \in Patch :
           /\ patch' = [q \in Patches |->
                 IF q = p THEN w ELSE [patch[q] EXCEPT !.missed = @ \/ patch[q].at = "read"]]
           /\ w.at \in {"written", "none"}
           /\ w.page /\ w.sets.decision # Same => w.sets.status = Same
    <3>1. CASE patch[p].page
      <4> DEFINE w == [patch[p] EXCEPT !.at = "written", !.after = Unanswered]
      <4>1. w \in Patch /\ w.at = "written" /\ w.page = patch[p].page /\ w.sets = patch[p].sets
        <5>1. Unanswered \in SUBSET Patches
          BY DEF Unanswered
        <5>2. patch[p] \in Patch
          BY <1>i
        <5> QED  BY <5>1, <5>2 DEF Patch
      <4>2. patch' = [q \in Patches |->
                 IF q = p THEN w ELSE [patch[q] EXCEPT !.missed = @ \/ patch[q].at = "read"]]
        BY <1>3, <3>1, Zenon DEF WriteTodo, Unanswered
      <4> HIDE DEF w
      <4>3. w.page /\ w.sets.decision # Same => w.sets.status = Same
        BY <4>1, <1>i DEF ReadsHold
      <4> QED  BY <4>1, <4>2, <4>3
    <3>2. CASE ~patch[p].page
      <4>1. NoPatch \in Patch /\ NoPatch.at = "none" /\ NoPatch.page = FALSE
        BY DEF NoPatch, NoUpdate, Patch, Update
      <4>2. patch' = [q \in Patches |->
                 IF q = p THEN NoPatch ELSE [patch[q] EXCEPT !.missed = @ \/ patch[q].at = "read"]]
        BY <1>3, <3>2, Zenon DEF WriteTodo
      <4> QED  BY <4>1, <4>2
    <3>3. patch[p].page \in BOOLEAN
      BY <1>i DEF Patch
    <3> QED  BY <3>1, <3>2, <3>3
  <2>3. ASSUME NEW q \in Patches \ {p}
        PROVE  /\ patch'[q] \in Patch
               /\ patch'[q].missed = (patch[q].missed \/ patch[q].at = "read")
               /\ patch'[q].at = patch[q].at /\ patch'[q].page = patch[q].page
               /\ patch'[q].sets = patch[q].sets /\ patch'[q].also = patch[q].also
    <3>1. patch'[q] = [patch[q] EXCEPT !.missed = patch[q].missed \/ patch[q].at = "read"]
      BY <2>u, Zenon
    <3>2. (patch[q].missed \/ patch[q].at = "read") \in BOOLEAN
      BY <1>b
    <3> QED  BY <3>1, <3>2, <1>m
  <2>y. patch'[p] = w
    BY <2>u, Zenon
  <2>4. patch' \in [Patches -> Patch]
    <3>1. \A q \in Patches : patch'[q] \in Patch
      BY <2>3, <2>y
    <3> QED  BY <2>u, <3>1, Zenon
  <2>o. old \in Row /\ (old.decision = "rejected" /\ ~byHand => old.status = "closed")
        /\ (patch[p].at = "read" => old = row)
    BY <1>i DEF Found, Settled, Row, Statuses, RejectionCloses
  <2> HIDE DEF old
  <2>s. /\ patch[p].sets \in Update /\ patch[p].also \in Statuses \cup {Same}
        /\ patch[p].missed \in BOOLEAN
    BY <1>i DEF Patch
  <2>r. row' \in Row
    BY <2>1, <2>o, <2>s DEF Row, Update, Or, Statuses, Same
  <2>5. TodoTypeOK'
    <3>1. reloadDue' \in BOOLEAN
      BY <2>1, <1>b
    <3>2. byHand' \in BOOLEAN
      BY <2>1, <2>s, <1>b, Zenon
    <3> QED  BY <2>1, <2>r, <2>4, <3>1, <3>2, <1>i DEF TodoTypeOK
  <2>6. ReadsHold'
    <3>1. ASSUME NEW q \in Patches \ {p}
          PROVE  /\ patch'[q].at = "read" => Decides(q)' /\ patch'[q].missed
                 /\ patch'[q].at = "sent" => patch'[q].also = Same
                 /\ patch'[q].page /\ patch'[q].sets.decision # Same =>
                        patch'[q].sets.status = Same
      BY <2>3, <1>i DEF ReadsHold, Decides
    <3>2. /\ patch'[p].at \notin {"read", "sent"}
          /\ patch'[p].page /\ patch'[p].sets.decision # Same => patch'[p].sets.status = Same
      BY <2>y, <2>u
    <3> QED  BY <3>1, <3>2 DEF ReadsHold
  <2>7. RejectionCloses'
    <3> SUFFICES ASSUME row'.decision = "rejected", ~byHand' PROVE row'.status = "closed"
      BY DEF RejectionCloses
    <3>1. patch[p].sets.status = Same
      BY <2>1
    <3>2. CASE patch[p].sets.decision # Same
      <4>1. Decides(p) /\ ~patch[p].missed /\ patch[p].at = "read"
        BY <3>1, <3>2, <2>1 DEF Decides
      <4>2. patch[p].also = StatusFor(patch[p].sets.decision, row) /\ old = row
        BY <4>1, <2>o, <1>i DEF ReadsHold
      <4>3. patch[p].sets.decision = "rejected"
        BY <2>1, <3>2 DEF Or
      <4> QED  BY <3>1, <4>2, <4>3, <2>1, <1>i DEF StatusFor, Or, Same, Row, Statuses
    <3>3. CASE patch[p].sets.decision = Same
      <4>1. ~Decides(p) /\ patch[p].at = "sent"
        BY <3>3, <2>1, <1>i DEF Decides, ReadsHold
      <4>2. patch[p].also = Same /\ byHand' = byHand
        BY <4>1, <3>1, <2>1, <1>i DEF ReadsHold
      <4> QED  BY <3>1, <3>3, <4>2, <2>1, <2>o DEF Or
    <3> QED  BY <3>2, <3>3
  <2>8. PageFollows'
    BY <1>3, <1>i, WriteIsLast
  <2> QED  BY <2>5, <2>6, <2>7, <2>8 DEF TodoInv
<1>4. ASSUME NEW p \in Patches, LosePatch(p) PROVE TodoInv'
  <2>1. /\ reloadDue' = (reloadDue \/ patch[p].at = "written")
        /\ patch' = [patch EXCEPT ![p] = NoPatch] /\ UNCHANGED <<row, shown, byHand>>
    BY <1>4 DEF LosePatch
  <2>2. NoPatch \in Patch /\ NoPatch.at = "none" /\ NoPatch.page = FALSE
    BY DEF NoPatch, NoUpdate, Patch, Update
  <2>3. /\ patch' \in [Patches -> Patch] /\ patch'[p] = NoPatch
        /\ \A q \in Patches \ {p} : patch'[q] = patch[q]
    BY <2>1, <2>2, <1>i
  <2>5. TodoTypeOK'
    <3>1. reloadDue' \in BOOLEAN
      BY <2>1, <1>b
    <3> QED  BY <2>1, <2>3, <3>1, <1>i, <1>b DEF TodoTypeOK
  <2>6. ReadsHold'
    BY <2>1, <2>2, <2>3, <1>i DEF ReadsHold, Decides
  <2>7. RejectionCloses'
    BY <2>1, <1>i DEF RejectionCloses
  <2>8. PageFollows'
    <3>1. CASE patch[p].at = "written"
      BY <3>1, <2>1 DEF PageFollows
    <3>2. CASE patch[p].at # "written"
      <4>1. \A q \in Patches : /\ patch'[q].at = "written" <=> patch[q].at = "written"
                               /\ patch[q].at = "written" => patch'[q] = patch[q]
        BY <2>2, <2>3, <3>2
      <4> QED  BY <4>1, <3>2, <2>1, <1>i, FollowingStays
    <3> QED  BY <3>1, <3>2
  <2> QED  BY <2>5, <2>6, <2>7, <2>8 DEF TodoInv
<1> QED  BY <1>1, <1>2, <1>3, <1>4

LEMMA TodoSteps == TodoInv /\ [TodoNext]_todoVars => TodoInv'
<1> SUFFICES ASSUME TodoInv, [TodoNext]_todoVars PROVE TodoInv'
  OBVIOUS
<1>i. TodoTypeOK /\ ReadsHold /\ RejectionCloses /\ PageFollows
      /\ patch \in [Patches -> Patch] /\ row \in Row /\ shown \in Row
  BY DEF TodoInv, TodoTypeOK
<1>b. reloadDue \in BOOLEAN /\ byHand \in BOOLEAN
  BY <1>i, Zenon DEF TodoTypeOK
<1>n. NoPatch \in Patch /\ NoPatch.at = "none" /\ NoPatch.page = FALSE
  BY DEF NoPatch, NoUpdate, Patch, Update
<1>1. ASSUME NEW p \in Patches,
             CommitStatus(p) \/ CommitTitle(p) \/ SendDecision(p) \/ TodosUpdate(p)
      PROVE  TodoInv'
  BY <1>1, AsksKeepTodo
<1>2. CASE \/ AnyRequest
           \/ \E p \in Patches : ReadTodo(p) \/ WriteTodo(p) \/ LosePatch(p)
  BY <1>2, ServerKeepsTodo
<1>3. ASSUME NEW p \in Patches, PatchReturns(p) PROVE TodoInv'
  <2>1. /\ row' = row /\ byHand' = byHand /\ shown' = Applied(p, shown)
        /\ reloadDue' = (reloadDue \/ \E q \in patch[p].after : patch[q].at = "written")
        /\ patch' = [q \in Patches |-> IF q = p THEN NoPatch
                                       ELSE [patch[q] EXCEPT !.after = @ \ {p}]]
    BY <1>3 DEF PatchReturns, Applied
  <2>2. shown' \in Row
    <3>1. patch[p].sets \in Update
      BY <1>i DEF Patch
    <3> QED  BY <3>1, <2>1, <1>i DEF Applied, MirroredStatus, Or, Update, Row, Statuses, Same
  <2>3. ASSUME NEW q \in Patches \ {p}
        PROVE  /\ patch'[q] \in Patch /\ patch'[q].at = patch[q].at
               /\ patch'[q].sets = patch[q].sets /\ patch'[q].also = patch[q].also
               /\ patch'[q].page = patch[q].page /\ patch'[q].missed = patch[q].missed
    BY <2>1, <1>i DEF Patch
  <2>4. patch'[p] = NoPatch
    BY <2>1, Zenon
  <2>5. patch' \in [Patches -> Patch]
    <3>1. \A q \in Patches : patch'[q] \in Patch
      BY <2>3, <2>4, <1>n
    <3> QED  BY <2>1, <3>1, Zenon
  <2>6. TodoTypeOK'
    <3>1. reloadDue' \in BOOLEAN
      BY <2>1, <1>b
    <3>2. byHand' \in BOOLEAN
      BY <2>1, <1>b, Zenon
    <3> QED  BY <2>1, <2>2, <2>5, <3>1, <3>2, <1>i DEF TodoTypeOK
  <2>7. ReadsHold'
    BY <2>1, <2>3, <2>4, <1>n, <1>i DEF ReadsHold, Decides
  <2>8. RejectionCloses'
    BY <2>1, <1>i DEF RejectionCloses
  <2>9. PageFollows'
    BY <1>3, <1>i, AnswerIsNext
  <2> QED  BY <2>6, <2>7, <2>8, <2>9 DEF TodoInv
<1>4. CASE Reload
  <2>1. /\ row' = row /\ byHand' = byHand /\ shown' = row /\ reloadDue' = FALSE
        /\ patch' = [p \in Patches |-> IF patch[p].at = "written" THEN NoPatch
                                       ELSE [patch[p] EXCEPT !.page = FALSE]]
    BY <1>4 DEF Reload
  <2>2. ASSUME NEW p \in Patches
        PROVE  /\ patch'[p] \in Patch /\ patch'[p].page = FALSE
               /\ patch'[p].at # "written"
               /\ patch'[p].at # "none" => patch'[p].at = patch[p].at
                      /\ patch'[p].sets = patch[p].sets /\ patch'[p].also = patch[p].also
                      /\ patch'[p].missed = patch[p].missed
    <3>1. CASE patch[p].at = "written"
      BY <3>1, <2>1, <1>n
    <3>2. CASE patch[p].at # "written"
      <4>1. patch'[p] = [patch[p] EXCEPT !.page = FALSE] /\ patch[p] \in Patch
        BY <2>1, <3>2, <1>i
      <4> QED  BY <4>1, <3>2 DEF Patch
    <3> QED  BY <3>1, <3>2
  <2>3. patch' \in [Patches -> Patch]
    BY <2>1, <2>2, Zenon
  <2>4. TodoTypeOK'
    <3>1. reloadDue' \in BOOLEAN /\ byHand' \in BOOLEAN
      BY <2>1, <1>b, Zenon
    <3> QED  BY <2>1, <2>3, <3>1, <1>i DEF TodoTypeOK
  <2>5. ReadsHold'
    BY <2>1, <2>2, <1>i DEF ReadsHold, Decides
  <2>6. RejectionCloses'
    BY <2>1, <1>i DEF RejectionCloses
  <2>7. PageFollows'
    <3>1. Unanswered' = {}
      BY <2>2 DEF Unanswered
    <3>2. InOrder'
      BY <3>1 DEF InOrder
    <3>3. PICK before \in [Patches -> Row] : TRUE
      <4>1. [p \in Patches |-> row] \in [Patches -> Row]
        BY <1>i
      <4> QED  BY <4>1
    <3>4. FoundBy(before)'
      BY <3>1, <2>1 DEF FoundBy
    <3> QED  BY <3>2, <3>3, <3>4 DEF PageFollows
  <2> QED  BY <2>4, <2>5, <2>6, <2>7 DEF TodoInv
<1>5. CASE UNCHANGED todoVars
  <2>1. UNCHANGED <<row, shown, patch, reloadDue, byHand>>
    BY <1>5 DEF todoVars
  <2>2. TodoTypeOK' /\ ReadsHold' /\ RejectionCloses'
    BY <2>1, <1>i, <1>b DEF TodoTypeOK, ReadsHold, Decides, RejectionCloses
  <2>3. PageFollows'
    BY <2>1, <1>i, FollowingStays
  <2> QED  BY <2>2, <2>3 DEF TodoInv
<1> QED  BY <1>1, <1>2, <1>3, <1>4, <1>5, Zenon DEF TodoNext

\* A rejection closes its todo, and the page shows what a reload would, whatever the
\* number of updates that cross.
THEOREM TodosAreAsShown == TodoSpec => []TodoInv
BY TodoStarts, TodoSteps, PTL DEF TodoSpec

---------------------------------------------------------------------------
(* The parts together *)

LEMMA WebStarts ==
    WebInit => /\ IdentityInit /\ TabInit /\ WorkPageInit /\ ExecutionInit
               /\ PageInit /\ TodoInit
BY DEF WebInit

LEMMA WebSteps ==
    [WebNext]_webVars => /\ [IdentityNext]_identityVars /\ [TabNext]_tabVars
                         /\ [WorkPageNext]_workPageVars /\ [ExecutionNext]_executionVars
                         /\ [PageNext]_pageVars /\ [TodoNext]_todoVars
<1> SUFFICES ASSUME [WebNext]_webVars
             PROVE  /\ [IdentityNext]_identityVars /\ [TabNext]_tabVars
                    /\ [WorkPageNext]_workPageVars /\ [ExecutionNext]_executionVars
                    /\ [PageNext]_pageVars /\ [TodoNext]_todoVars
  OBVIOUS
<1>1. CASE UNCHANGED webVars
  BY <1>1, Zenon DEF webVars, cloudVars, shownVars
<1>2. CASE CloudNext /\ UNCHANGED shownVars
  BY <1>2, Zenon DEF CloudNext, shownVars
<1>3. CASE ShownNext /\ UNCHANGED cloudVars
  BY <1>3, Zenon DEF ShownNext, cloudVars
<1> QED  BY <1>1, <1>2, <1>3, Zenon DEF WebNext

\* Put side by side, the parts behave as each of them is specified: none of them can
\* tell that the others are there.
THEOREM PartsAreAsSpecified ==
    WebSpec => /\ IdentitySpec /\ TabSpec /\ WorkPageSpec /\ ExecutionSpec
               /\ PageSpec /\ TodoSpec
BY WebStarts, WebSteps, PTL
   DEF WebSpec, IdentitySpec, TabSpec, WorkPageSpec, ExecutionSpec, PageSpec, TodoSpec

\* What the local page shows of a run and of a todo is so, or will be asked for again.
THEOREM PageStaysTrue == WebSpec => []PageIsTrue
<1>1. PageInv /\ TodoInv => PageIsTrue
  BY TodoInvShows, Zenon DEF PageInv, PageIsTrue
<1> QED  BY <1>1, PartsAreAsSpecified, RunsAreWatched, TodosAreAsShown, PTL

\* All that the parts promise, of all of them together.
THEOREM WebPromises ==
    WebSpec => []( /\ LimitsHold /\ SessionsAreEarned /\ OneAccountShown
                   /\ PageKeepsTrack /\ AccessIsCurrent /\ PageIsTrue )
BY PartsAreAsSpecified, LimitsAreKept, SessionsStayEarned, TabsAreSeparate, PageTracksWork,
   AccessStaysCurrent, PageStaysTrue, PTL
=============================================================================
