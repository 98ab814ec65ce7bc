----------------------------- MODULE LocalNotices -----------------------------
(***************************************************************************)
(* Telling of a new todo: notify_new_todo of src/push_notify.py, run by    *)
(* the poller process once for every todo, with the suggested actions of   *)
(* src/agent/action_options.py, which the detail pane asks for as well.    *)
(* The notice is a banner whose buttons name an action by its index        *)
(* (src/static/js/sw.js), and a bubble of the chat whose numbers the phone *)
(* answers with.  The chat's own turns read the thread and write it back.  *)
(* A list of actions is the number of the inference that made it.          *)
(***************************************************************************)
EXTENDS Integers

CONSTANTS News,
          MaxLists    \* bound on inferences

ASSUME ListsAreCounted == MaxLists \in Nat /\ News # {}   \* a todo to tell of

VARIABLES
    options,    \* todos.action_options, 0 when there are none
    inferred,   \* how many lists were made
    notice,     \* notify_new_todo
    told,       \* todos it was called for
    pane,       \* the request of the detail pane
    pushed,     \* notices on their way to the browser, and their lists
    banner,     \* the buttons of the banner of a todo, 0 when there is none
    clicked,    \* the list a button was of, and the list its index was looked up in
    posted,     \* notices in the chat thread
    received,   \* notices on the phone
    chatTurn,   \* the notices in the thread a turn of the chat will write back
    refreshed,  \* ghost: todos whose list was asked for anew, or by two at once
    unposted    \* ghost: notices that could not be added, or were written over

noticeVars == <<options, inferred, notice, told, pane, pushed, banner, clicked,
                posted, received, chatTurn, refreshed, unposted>>

Lists == 0 .. MaxLists
SomeTodo == CHOOSE t \in News : TRUE
Notice == [at: {"none", "infer", "push", "append", "send", "template"}, todo: News,
           list: Lists, browser: BOOLEAN, phone: BOOLEAN]
NoNotice == [at |-> "none", todo |-> SomeTodo, list |-> 0, browser |-> FALSE, phone |-> FALSE]
Pane == [at: {"none", "infer"}, todo: News]
NoPane == [at |-> "none", todo |-> SomeTodo]
Turn == [on: BOOLEAN, base: SUBSET News]

NoticeInit ==
    /\ options = [t \in News |-> 0] /\ inferred = 0
    /\ notice = NoNotice /\ told = {} /\ pane = NoPane
    /\ pushed = [t \in News |-> {}]
    /\ banner = [t \in News |-> 0]
    /\ clicked = [t \in News |-> <<0, 0>>]
    /\ posted = {} /\ received = {}
    /\ chatTurn = [on |-> FALSE, base |-> {}]
    /\ refreshed = {} /\ unposted = {}

---------------------------------------------------------------------------
(* The suggested actions *)

\* ensure_action_options, of the row as it was read.
MustInfer(t, refresh) == options[t] = 0 \/ refresh

\* The answer of the model, and the UPDATE of the row.
Infers(t) ==
    /\ inferred < MaxLists
    /\ inferred' = inferred + 1
    /\ options' = [options EXCEPT ![t] = inferred + 1]

InferringFor(t) == (notice.at = "infer" /\ notice.todo = t) \/ (pane.at = "infer" /\ pane.todo = t)

---------------------------------------------------------------------------
(* The poller *)

\* Where the notice goes once the actions are there or have failed.
NextStop(n) == IF n.browser THEN "push" ELSE "append"

\* The browsers and the number are looked up, then the row is loaded.
NotifyNewTodo(t, browser, phone) ==
    /\ notice.at = "none" /\ t \notin told
    /\ browser \/ phone
    /\ told' = told \cup {t}
    /\ LET n == [NoNotice EXCEPT !.todo = t, !.browser = browser, !.phone = phone] IN
       notice' = IF MustInfer(t, FALSE) THEN [n EXCEPT !.at = "infer"]
                 ELSE [n EXCEPT !.at = NextStop(n), !.list = options[t]]
    /\ refreshed' = IF MustInfer(t, FALSE) /\ InferringFor(t) THEN refreshed \cup {t} ELSE refreshed
    /\ UNCHANGED <<options, inferred, pane, pushed, banner, clicked, posted, received,
                   chatTurn, unposted>>

NoticeInfers ==
    /\ notice.at = "infer"
    /\ Infers(notice.todo)
    /\ notice' = [notice EXCEPT !.at = NextStop(notice), !.list = inferred + 1]
    /\ UNCHANGED <<told, pane, pushed, banner, clicked, posted, received, chatTurn, refreshed,
                   unposted>>

\* "notifying without options".
NoticeHasNone ==
    /\ notice.at = "infer"
    /\ notice' = [notice EXCEPT !.at = NextStop(notice)]
    /\ UNCHANGED <<options, inferred, told, pane, pushed, banner, clicked, posted, received,
                   chatTurn, refreshed, unposted>>

After(at) == notice' = IF at = "none" THEN NoNotice ELSE [notice EXCEPT !.at = at]

\* send_to_user; a push that fails is logged.
Push ==
    /\ notice.at = "push"
    /\ After(IF notice.phone THEN "append" ELSE "none")
    /\ \/ pushed' = [pushed EXCEPT ![notice.todo] = @ \cup {notice.list}]
       \/ UNCHANGED pushed
    /\ UNCHANGED <<options, inferred, told, pane, banner, clicked, posted, received, chatTurn,
                   refreshed, unposted>>

\* send_whatsapp: "the bubble is appended first so the digit-reply mapping is in place
\* before the phone can answer".  A failure is logged.  (LocalChat has the steps.)
AppendNotice ==
    /\ notice.at = "append"
    /\ After("send")
    /\ \/ posted' = posted \cup {notice.todo} /\ UNCHANGED unposted
       \/ unposted' = unposted \cup {notice.todo} /\ UNCHANGED posted
    /\ UNCHANGED <<options, inferred, told, pane, pushed, banner, clicked, received, chatTurn,
                   refreshed>>

\* send_text: received, refused outside the window, or failed.
SendText ==
    /\ notice.at = "send"
    /\ \/ received' = received \cup {notice.todo}
          /\ After("none")
       \/ UNCHANGED received /\ \E at \in {"template", "none"} : After(at)
    /\ UNCHANGED <<options, inferred, told, pane, pushed, banner, clicked, posted, chatTurn,
                   refreshed, unposted>>

SendTemplate ==
    /\ notice.at = "template"
    /\ After("none")
    /\ received' \in {received, received \cup {notice.todo}}
    /\ UNCHANGED <<options, inferred, told, pane, pushed, banner, clicked, posted, chatTurn,
                   refreshed, unposted>>

\* The poller process dies; the todo is not told of again.
NoticeDies ==
    /\ notice.at # "none" /\ After("none")
    /\ UNCHANGED <<options, inferred, told, pane, pushed, banner, clicked, posted, received,
                   chatTurn, refreshed, unposted>>

---------------------------------------------------------------------------
(* The page, the browser and the chat *)

OpenPane(t, refresh) ==
    /\ pane.at = "none" /\ MustInfer(t, refresh)
    /\ pane' = [at |-> "infer", todo |-> t]
    /\ refreshed' = IF InferringFor(t) \/ refresh THEN refreshed \cup {t} ELSE refreshed
    /\ UNCHANGED <<options, inferred, notice, told, pushed, banner, clicked, posted, received,
                   chatTurn, unposted>>

PaneInfers ==
    /\ pane.at = "infer" /\ pane' = NoPane
    /\ Infers(pane.todo)
    /\ UNCHANGED <<notice, told, pushed, banner, clicked, posted, received, chatTurn, refreshed,
                   unposted>>
PaneFails ==
    /\ pane.at = "infer" /\ pane' = NoPane
    /\ UNCHANGED <<options, inferred, notice, told, pushed, banner, clicked, posted, received,
                   chatTurn, refreshed, unposted>>

\* The service worker shows a push; one of the same todo replaces its banner.
ShowBanner(t) ==
    \E list \in pushed[t] :
        /\ pushed' = [pushed EXCEPT ![t] = @ \ {list}]
        /\ banner' = [banner EXCEPT ![t] = list]
        /\ UNCHANGED <<options, inferred, notice, told, pane, clicked, posted, received,
                       chatTurn, refreshed, unposted>>

\* A button sends its index; ask_ai looks it up in what is kept by then.
ClickButton(t) ==
    /\ banner[t] # 0
    /\ clicked' = [clicked EXCEPT ![t] = <<banner[t], options[t]>>]
    /\ banner' = [banner EXCEPT ![t] = 0]
    /\ UNCHANGED <<options, inferred, notice, told, pane, pushed, posted, received, chatTurn,
                   refreshed, unposted>>

\* A turn of the chat writes back the thread it was begun with; a reset empties it.
ChatBegins ==
    /\ ~chatTurn.on
    /\ chatTurn' = [on |-> TRUE, base |-> posted]
    /\ UNCHANGED <<options, inferred, notice, told, pane, pushed, banner, clicked, posted,
                   received, refreshed, unposted>>
ChatWrites(thread) ==
    /\ posted' = thread
    /\ unposted' = unposted \cup (posted \ thread)
    /\ UNCHANGED <<options, inferred, notice, told, pane, pushed, banner, clicked, received,
                   refreshed>>
ChatEnds ==
    /\ chatTurn.on /\ chatTurn' = [on |-> FALSE, base |-> {}]
    /\ ChatWrites(chatTurn.base)
ChatIsReset == ChatWrites({}) /\ UNCHANGED chatTurn

NoticeNext ==
    \/ \E t \in News :
          \/ \E browser, phone \in BOOLEAN : NotifyNewTodo(t, browser, phone)
          \/ \E refresh \in BOOLEAN : OpenPane(t, refresh)
          \/ ShowBanner(t) \/ ClickButton(t)
    \/ NoticeInfers \/ NoticeHasNone \/ Push \/ AppendNotice \/ SendText \/ SendTemplate
    \/ NoticeDies \/ PaneInfers \/ PaneFails \/ ChatBegins \/ ChatEnds \/ ChatIsReset

NoticeSpec == NoticeInit /\ [][NoticeNext]_noticeVars

---------------------------------------------------------------------------
(* Properties *)

NoticeTypeOK ==
    /\ options \in [News -> Lists] /\ inferred \in Lists
    /\ notice \in Notice /\ told \subseteq News /\ pane \in Pane
    /\ pushed \in [News -> SUBSET Lists] /\ banner \in [News -> Lists]
    /\ clicked \in [News -> Lists \X Lists]
    /\ posted \subseteq News /\ received \subseteq News
    /\ chatTurn \in Turn
    /\ refreshed \subseteq News /\ unposted \subseteq News

\* The number that answers a notice finds it in the thread.
AnswerFindsNotice == received \subseteq posted \cup unposted

\* A button runs an action of the list it was drawn from, unless the list was asked for
\* anew or by the pane and the poller at once.
ButtonRunsItsAction ==
    \A t \in News : clicked[t][1] # clicked[t][2] => t \in refreshed

\* Both answers to a notice mean what they meant to the person who gave them.
NoticesAreUnderstood == AnswerFindsNotice /\ ButtonRunsItsAction
=============================================================================
