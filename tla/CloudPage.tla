------------------------------- MODULE CloudPage -------------------------------
(***************************************************************************)
(* One tab of the cloud app: src/static/js/cloud-app.js and cloud-state.js, *)
(* with the pages of src/cloud/pages.py and the boundary of                *)
(* src/cloud/identity/security.py behind it.  All tabs of a browser share  *)
(* one session cookie, which another tab replaces or clears at any time;   *)
(* the tabs may tell each other so over a channel, which a browser need    *)
(* not have.                                                               *)
(*                                                                         *)
(* A piece of data is known by the account it belongs to.  An answer whose *)
(* body is cut short is taken for a lost one, and a conversation may be    *)
(* asked for at any time, its timer left out.                              *)
(***************************************************************************)
CONSTANTS Accounts, Nobody,
          Ops          \* operations of the tab that can be on their way at once

ASSUME NobodyHasNoAccount == Nobody \notin Accounts

VARIABLES cookie,      \* the account the browser's session belongs to
          channel,     \* the tab has a BroadcastChannel
          context,     \* state.contextId
          suspended,   \* state.suspended
          auth,        \* the account of auth
          conversation,\* the account of cid
          unsent,      \* the account whose text state.pending holds
          screen,      \* the accounts of what is shown
          cursor,      \* the account of nextCursor
          boot,        \* the newest revalidate
          op,          \* the operations
          hidden,      \* document.hidden
          leaving      \* logoutIntent

tabVars == <<cookie, channel, context, suspended, auth, conversation, unsent, screen,
             cursor, boot, op, hidden, leaving>>
account == <<context, suspended, auth, conversation, unsent, screen, cursor>>

Anyone == Accounts \cup {Nobody}
Screens == [profile: SUBSET Accounts, todos: SUBSET Accounts, thread: SUBSET Accounts]
Blank == [profile |-> {}, todos |-> {}, thread |-> {}]
\* "denied" is 401; "failed" is any other answer, or none.
Answers == Accounts \cup {"denied", "failed"}
Boots == [at: {"none", "sent", "back", "again", "both"}, first: Answers, second: Answers]
NoBoot == [at |-> "none", first |-> "failed", second |-> "failed"]
Kinds == {"open", "status", "send", "change", "more"}
\* An operation on its way, for the account of its ticket: leg is the request it waits
\* for, all but "main" the checks of validateTicket, before the request or behind an
\* answer that was good, failed or denied.
Op == [kind: Kinds, leg: {"none", "before", "main", "after", "failed", "denied"},
       for: Anyone, answer: {"none", "ok", "refused", "denied", "lost"}, valid: BOOLEAN]
NoOp == [kind |-> "open", leg |-> "none", for |-> Nobody, answer |-> "none", valid |-> FALSE]

TabInit ==
    /\ cookie \in Anyone /\ channel \in BOOLEAN
    /\ context = Nobody /\ suspended = TRUE
    /\ auth = Nobody /\ conversation = Nobody /\ unsent = Nobody
    /\ screen = Blank /\ cursor = Nobody
    /\ boot = [NoBoot EXCEPT !.at = "sent"]
    /\ op = [o \in Ops |-> NoOp]
    /\ hidden = FALSE /\ leaving = FALSE

\* suspend and resume raise the generation every ticket was given in.
Stale(ops) == [o \in Ops |-> [ops[o] EXCEPT !.valid = FALSE]]

\* clearAccount, with what is left of the operations; context stays.
ClearAccount(ops) ==
    /\ suspended' = TRUE /\ op' = Stale(ops)
    /\ auth' = Nobody /\ conversation' = Nobody /\ unsent' = Nobody
    /\ screen' = Blank /\ cursor' = Nobody
    /\ UNCHANGED context

\* revalidate, up to its first await; it overtakes the one before.
Revalidate ==
    boot' = IF hidden \/ leaving THEN NoBoot ELSE [NoBoot EXCEPT !.at = "sent"]

---------------------------------------------------------------------------
(* The browser *)

\* Another tab signs in or out, or the sign-out of this one comes through.
OtherTab ==
    /\ \E a \in Anyone \ {cookie} : cookie' = a
    /\ UNCHANGED <<channel, account, boot, op, hidden, leaving>>

\* "session-changed" from another tab, which may come at any time.
Signalled ==
    /\ channel /\ ~leaving
    /\ ClearAccount(op) /\ Revalidate
    /\ UNCHANGED <<cookie, channel, hidden, leaving>>

\* visibilitychange, pagehide and pageshow.
Visibility ==
    /\ ~leaving
    /\ hidden' = ~hidden
    /\ ClearAccount(op)
    /\ boot' = IF hidden THEN [NoBoot EXCEPT !.at = "sent"] ELSE NoBoot
    /\ UNCHANGED <<cookie, channel, leaving>>

\* Every thirty seconds.
Interval ==
    /\ ~hidden /\ ~leaving
    /\ Revalidate
    /\ UNCHANGED <<cookie, channel, account, op, hidden, leaving>>

---------------------------------------------------------------------------
(* revalidate *)

\* Pages.bootstrap, which also fails.
Told == {"failed", IF cookie = Nobody THEN "denied" ELSE cookie}

BootAnswers ==
    /\ \/ boot.at = "sent" /\ \E t \in Told : boot' = [boot EXCEPT !.at = "back", !.first = t]
       \/ boot.at = "again" /\ \E t \in Told : boot' = [boot EXCEPT !.at = "both", !.second = t]
    /\ UNCHANGED <<cookie, channel, account, op, hidden, leaving>>

\* Without a channel a good answer is asked for once more.
Confirms ==
    /\ boot.at = "back" /\ ~channel /\ boot.first \in Accounts
    /\ boot' = [boot EXCEPT !.at = "again"]
    /\ UNCHANGED <<cookie, channel, account, op, hidden, leaving>>

Confirmed == IF channel \/ boot.first \notin Accounts THEN boot.at = "back"
             ELSE boot.at = "both" /\ boot.second = boot.first

\* The answers differ, or the first was none: the screen is cleared.
BootClears ==
    /\ \/ boot.at = "both" /\ boot.second # boot.first
       \/ boot.at = "back" /\ boot.first \notin Accounts
    /\ ClearAccount(op)
    /\ IF boot.at = "both" /\ boot.second \in Accounts THEN Revalidate ELSE boot' = NoBoot
    /\ UNCHANGED <<cookie, channel, hidden, leaving>>

\* The account is shown; where the chat is on screen without a conversation it is
\* opened.  A change of account clears the screen first.
BootShows ==
    /\ Confirmed /\ boot.first \in Accounts
    /\ LET a == boot.first
           resumes == suspended \/ context # a
           left == IF context \notin {Nobody, a} THEN {} ELSE screen.thread
       IN  /\ context' = a /\ suspended' = FALSE
           /\ auth' = a /\ cursor' \in {a, Nobody}
           /\ screen' = [profile |-> {a}, todos |-> {a}, thread |-> left]
           /\ conversation' = IF context = a THEN conversation ELSE Nobody
           /\ unsent' = IF resumes THEN Nobody ELSE unsent
           /\ LET kept == IF resumes THEN Stale(op) ELSE op IN
              \/ op' = kept
              \/ /\ context # a \/ conversation = Nobody
                 /\ \E o \in Ops :
                       /\ op[o].leg = "none"
                       /\ op' = [kept EXCEPT ![o] = [NoOp EXCEPT !.kind = "open", !.leg = "main",
                                                                 !.for = a, !.valid = TRUE]]
    /\ boot' = NoBoot
    /\ UNCHANGED <<cookie, channel, hidden, leaving>>

---------------------------------------------------------------------------
(* Operations *)

Signed == auth # Nobody /\ ~suspended

Begins(kind, leg) ==
    \E o \in Ops :
        /\ op[o].leg = "none"
        /\ op' = [op EXCEPT ![o] = [NoOp EXCEPT !.kind = kind, !.leg = leg, !.for = context,
                                                !.valid = TRUE]]

\* The user opens a todo, sends, retries, resets, cancels or asks for more, or the
\* status is asked for.
BeginOp ==
    /\ Signed
    /\ \/ screen.todos # {} /\ Begins("open", "main")
       \/ conversation # Nobody /\ (Begins("status", "main") \/ Begins("change", "main"))
       \/ conversation # Nobody /\ Begins("send", "before")
       \/ cursor # Nobody /\ Begins("more", "main")
    /\ UNCHANGED <<cookie, channel, account, boot, hidden, leaving>>

\* The server answers a request by the cookie it comes with: what belongs to another
\* account is not found, and a POST that names one is refused.  Answers get lost.
MainAnswers(o) ==
    /\ op[o].leg = "main" /\ op[o].answer = "none"
    /\ \E answer \in {"lost"} \cup (CASE cookie = Nobody -> {"denied"}
                                      [] cookie # op[o].for -> {"refused"}
                                      [] OTHER -> {"ok", "refused"}) :
           op' = [op EXCEPT ![o].answer = answer]
    /\ UNCHANGED <<cookie, channel, account, boot, hidden, leaving>>

\* The bootstrap of validateTicket; with a channel there is none.
CheckAnswers(o) ==
    /\ op[o].leg \notin {"none", "main"} /\ op[o].answer = "none" /\ ~channel
    /\ \E answer \in {"lost", "refused"} \cup {a \in {"ok"} : cookie = op[o].for} :
           op' = [op EXCEPT ![o].answer = answer]
    /\ UNCHANGED <<cookie, channel, account, boot, hidden, leaving>>

\* fault: only a tab that is suspended turns an answer away
AcceptAwake(o) == ~suspended
\* acceptResponse.
AcceptResponse(o) == ~suspended /\ context = op[o].for /\ op[o].valid

Drop(o) == [op EXCEPT ![o] = NoOp]

Checked(o) == op[o].answer = "ok" \/ channel

\* An answer of a view that is gone.
StaleReturns(o) ==
    /\ op[o].answer # "none" \/ (op[o].leg = "before" /\ channel)
    /\ ~AcceptResponse(o)
    /\ op' = Drop(o)
    /\ UNCHANGED <<cookie, channel, account, boot, hidden, leaving>>

\* The session is over, or the check met another one; after the first the tab leaves
\* for the sign-in page.
SessionReturns(o) ==
    /\ AcceptResponse(o)
    /\ \/ op[o].leg = "main" /\ op[o].answer = "denied" /\ channel /\ boot' = NoBoot
       \/ op[o].leg = "denied" /\ op[o].answer = "ok" /\ boot' = NoBoot
       \/ op[o].leg # "main" /\ op[o].answer = "refused" /\ Revalidate
    /\ ClearAccount(Drop(o))
    /\ UNCHANGED <<cookie, channel, hidden, leaving>>

\* Where there is no channel the account is checked behind an error, and before the
\* data of an answer is used.
NeedsCheck(o) ==
    /\ ~channel /\ op[o].leg = "main"
    /\ IF op[o].answer = "ok" THEN op[o].kind \in {"open", "status", "more"}
       ELSE op[o].answer \in {"refused", "denied"}
ChecksTicket(o) ==
    /\ op[o].answer # "none" /\ AcceptResponse(o) /\ NeedsCheck(o)
    /\ op' = [op EXCEPT ![o].leg = CASE op[o].answer = "ok" -> "after"
                                     [] op[o].answer = "denied" -> "denied"
                                     [] OTHER -> "failed",
                        ![o].answer = "none"]
    /\ UNCHANGED <<cookie, channel, account, boot, hidden, leaving>>

\* send behind its first check: a text is kept and posted, unless another one is kept.
Posts(o) ==
    /\ op[o].leg = "before" /\ Checked(o) /\ AcceptResponse(o)
    /\ \/ /\ conversation # Nobody
          /\ unsent' = auth
          /\ op' = [op EXCEPT ![o].leg = "main", ![o].answer = "none"]
       \/ op' = Drop(o) /\ UNCHANGED unsent
    /\ UNCHANGED <<cookie, channel, context, suspended, auth, conversation, screen, cursor,
                   boot, hidden, leaving>>

Succeeds(o) == /\ op[o].answer = "ok" /\ AcceptResponse(o) /\ ~NeedsCheck(o)
               /\ op[o].leg \in {"main", "after"}

\* The data is used; what was opened, sent or changed has its status asked for.
OpReturns(o) ==
    /\ Succeeds(o)
    /\ LET a == op[o].for IN
       /\ conversation' = IF op[o].kind = "open" THEN a ELSE conversation
       /\ unsent' \in CASE op[o].kind \in {"open", "send"} -> {Nobody}
                         [] op[o].kind = "change" -> {unsent, Nobody}
                         [] OTHER -> {unsent}
       /\ screen' = CASE op[o].kind = "status" -> [screen EXCEPT !.thread = {a}]
                      [] op[o].kind = "more" -> [screen EXCEPT !.todos = @ \cup {a}]
                      [] OTHER -> screen
       /\ cursor' \in IF op[o].kind = "more" THEN {a, Nobody} ELSE {cursor}
       /\ op' = IF op[o].kind \in {"status", "more"} THEN Drop(o)
                ELSE [op EXCEPT ![o] = [NoOp EXCEPT !.kind = "status", !.leg = "main",
                                                    !.for = context, !.valid = TRUE]]
    /\ UNCHANGED <<cookie, channel, context, suspended, auth, boot, hidden, leaving>>

\* The operation failed; a message that was refused is given back as a draft.
OpFails(o) ==
    /\ AcceptResponse(o)
    /\ \/ op[o].answer = "lost"
       \/ op[o].leg = "main" /\ op[o].answer = "refused" /\ channel
       \/ op[o].leg = "failed" /\ op[o].answer = "ok"
    /\ unsent' \in IF op[o].kind = "send" /\ op[o].answer # "lost" THEN {unsent, Nobody}
                   ELSE {unsent}
    /\ op' = Drop(o)
    /\ UNCHANGED <<cookie, channel, context, suspended, auth, conversation, screen, cursor,
                   boot, hidden, leaving>>

\* logout: the screen is cleared whether or not the server hears of it.
LogOut ==
    /\ auth # Nobody
    /\ leaving' = TRUE
    /\ ClearAccount(op) /\ boot' = NoBoot
    /\ UNCHANGED <<cookie, channel, hidden>>

TabNext ==
    \/ OtherTab \/ Signalled \/ Visibility \/ Interval
    \/ BootAnswers \/ Confirms \/ BootClears \/ BootShows
    \/ BeginOp \/ LogOut
    \/ \E o \in Ops : MainAnswers(o) \/ CheckAnswers(o) \/ StaleReturns(o) \/ SessionReturns(o)
                      \/ ChecksTicket(o) \/ Posts(o) \/ OpReturns(o) \/ OpFails(o)

TabSpec == TabInit /\ [][TabNext]_tabVars

---------------------------------------------------------------------------
(* Properties *)

TabTypeOK ==
    /\ {cookie, context, auth, conversation, unsent, cursor} \subseteq Anyone
    /\ {channel, suspended, hidden, leaving} \subseteq BOOLEAN
    /\ screen \in Screens /\ boot \in Boots
    /\ op \in [Ops -> Op]

\* All a tab shows and keeps belongs to one account, the one its requests are made
\* for, however late answers come and whoever signs in beside it; a tab that was
\* hidden or signed out shows nothing.
OneAccountShown ==
    /\ (screen.profile \cup screen.todos \cup screen.thread
          \cup ({conversation, unsent, cursor} \ {Nobody})) \subseteq {auth}
    /\ hidden \/ leaving => auth = Nobody
=============================================================================
