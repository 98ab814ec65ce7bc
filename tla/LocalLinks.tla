------------------------------ MODULE LocalLinks ------------------------------
(***************************************************************************)
(* The two ways a person is reached outside the page.  A phone is linked   *)
(* by a code that Settings shows and the phone sends to the webhook        *)
(* (src/app.py and src/db.py, from the WhatsApp linking on), and the card  *)
(* of Settings asks again while a code is out (src/static/js/app.js).  A   *)
(* browser is enrolled by a push subscription, which lives in the browser  *)
(* and, as a copy, in the table the notices are sent by.                   *)
(***************************************************************************)
EXTENDS Integers

CONSTANTS People, Phones,
          Codes,
          NoPhone,
          MaxSubs    \* bound on subscriptions the browser makes

ASSUME NoPhoneIsNone == NoPhone \notin Phones
ASSUME SubsAreCounted == MaxSubs \in Nat

VARIABLES
    number,     \* whatsapp:number
    pendingLink, \* whatsapp:pending
    matched,    \* the webhook, between the code it found and the link it makes
    proven,     \* ghost: the person a phone's last code was for
    me,         \* who is signed in on the page
    card,       \* the WhatsApp card
    asking,     \* its requests
    sub,        \* the subscription of the browser, 0 when there is none
    subscribed, \* push_subscriptions
    enrol,      \* a button of the notifications card
    unheard     \* ghost: an enrolment was lost on its way

linkVars == <<number, pendingLink, matched, proven>>
cardVars == <<me, card, asking>>
phoneVars == <<linkVars, cardVars>>
enrolVars == <<sub, subscribed, enrol, unheard>>

Anybody == CHOOSE u \in People : TRUE
\* A number as it was typed is the phones it may be: none, one, or all that end the same.
Entered == SUBSET Phones
SamePhone(entered, phone) == phone \in entered

SomeCode == CHOOSE c \in Codes : TRUE
Pending == [live: BOOLEAN, entered: Entered, code: Codes]
NoPending == [live |-> FALSE, entered |-> {}, code |-> SomeCode]
Views == {"none", "code", "linked"}
\* open: Settings is on screen; quiet: ghost, an answer the card asked for was lost.
Card == [open: BOOLEAN, view: Views, timer: BOOLEAN, quiet: BOOLEAN]
\* One request on its way of each kind.
By == {"open", "timer", "button"}
Asking == [at: {"none", "sent", "back"}, view: Views]
NotAsking == [at |-> "none", view |-> "none"]
Subs == 1 .. MaxSubs

PhoneInit ==
    /\ number = [u \in People |-> NoPhone]
    /\ pendingLink = [u \in People |-> NoPending]
    /\ matched = [on |-> FALSE, person |-> Anybody, phone |-> NoPhone]
    /\ proven = [n \in Phones |-> {}]
    /\ me \in People
    /\ card = [open |-> FALSE, view |-> "none", timer |-> FALSE, quiet |-> FALSE]
    /\ asking = [by \in By |-> NotAsking]

EnrolInit ==
    /\ sub = 0 /\ subscribed = {}
    /\ enrol = [at |-> "none", sub |-> 0]
    /\ unheard = FALSE

---------------------------------------------------------------------------
(* The WhatsApp routes *)

\* whatsapp_link: a new code takes the place of the last.
SetPending(u, entered, code) ==
    pendingLink' = [pendingLink EXCEPT ![u] = [live |-> TRUE, entered |-> entered, code |-> code]]
ClearWhatsapp(u) ==
    /\ number' = [number EXCEPT ![u] = NoPhone]
    /\ pendingLink' = [pendingLink EXCEPT ![u] = NoPending]

\* CODE_TTL_SECONDS are over.
CodeExpires(u) ==
    /\ pendingLink[u].live
    /\ pendingLink' = [pendingLink EXCEPT ![u].live = FALSE]
    /\ UNCHANGED <<number, matched, proven, cardVars>>

\* A phone sends a code; find_pending_whatsapp_link takes the first row that fits.
PhoneSends(phone, code) ==
    /\ ~matched.on
    /\ \E u \in People :
          /\ pendingLink[u].live /\ pendingLink[u].code = code
          /\ SamePhone(pendingLink[u].entered, phone)
          /\ matched' = [on |-> TRUE, person |-> u, phone |-> phone]
    /\ UNCHANGED <<number, pendingLink, proven, cardVars>>

\* set_whatsapp_number, one transaction.
LinksAlone(u, phone) ==
    number' = [v \in People |-> IF v = u THEN phone
                                ELSE IF number[v] = phone THEN NoPhone ELSE number[v]]

SetWhatsappNumber ==
    /\ matched.on
    /\ LinksAlone(matched.person, matched.phone)
    /\ pendingLink' = [pendingLink EXCEPT ![matched.person] = NoPending]
    /\ proven' = [proven EXCEPT ![matched.phone] = {matched.person}]
    /\ matched' = [matched EXCEPT !.on = FALSE]
    /\ UNCHANGED cardVars

\* The process is restarted, or the database is locked; the webhook still answers 200.
WebhookFails ==
    /\ matched.on
    /\ matched' = [matched EXCEPT !.on = FALSE]
    /\ UNCHANGED <<number, pendingLink, proven, cardVars>>

---------------------------------------------------------------------------
(* The card *)

\* What _whatsapp_settings tells a card.
Told == IF number'[me] # NoPhone THEN "linked" ELSE IF pendingLink'[me].live THEN "code" ELSE "none"

Asks(by) ==
    /\ asking[by].at = "none"
    /\ asking' = [asking EXCEPT ![by].at = "sent"]

\* showSettingsView and loadSettings; hiding it leaves the timer.
OpenSettings ==
    /\ ~card.open
    /\ Asks("open")
    /\ card' = [card EXCEPT !.open = TRUE, !.quiet = FALSE]
    /\ UNCHANGED <<me, linkVars>>
LeaveSettings ==
    /\ card.open
    /\ card' = [card EXCEPT !.open = FALSE]
    /\ UNCHANGED <<asking, me, linkVars>>

TimerFires ==
    /\ card.timer
    /\ card' = [card EXCEPT !.timer = FALSE]
    /\ IF card.open THEN Asks("timer") ELSE UNCHANGED asking
    /\ UNCHANGED <<me, linkVars>>

\* /settings.json.
GetSettings(by) ==
    /\ asking[by].at = "sent"
    /\ UNCHANGED <<number, pendingLink>>
    /\ asking' = [asking EXCEPT ![by] = [at |-> "back", view |-> Told]]
    /\ UNCHANGED <<card, matched, me, proven>>

\* The button for a code, and the one to unlink, with the routes that answer them with
\* the settings; or the same from another page.
Presses(u, pressed) ==
    \/ u # me /\ UNCHANGED asking
    \/ /\ u = me /\ card.open /\ pressed /\ asking["button"].at = "none"
       /\ asking' = [asking EXCEPT !["button"] = [at |-> "back", view |-> Told]]
WhatsappLink(u) ==
    /\ \E entered \in Entered, code \in Codes : SetPending(u, entered, code)
    /\ UNCHANGED number
    /\ Presses(u, card.view # "linked")
    /\ UNCHANGED <<me, card, matched, proven>>
WhatsappUnlink(u) ==
    /\ ClearWhatsapp(u)
    /\ Presses(u, card.view = "linked")
    /\ UNCHANGED <<me, card, matched, proven>>

\* renderWhatsappCard.
CardIsAnswered(by) ==
    /\ asking[by].at = "back"
    /\ asking' = [asking EXCEPT ![by] = NotAsking]
    /\ LET view == asking[by].view IN
       card' = [card EXCEPT !.view = view, !.timer = view = "code", !.quiet = FALSE]
    /\ UNCHANGED <<me, linkVars>>

\* "catch(() => {})": the card does not ask again by itself.
CardIsNotAnswered(by) ==
    /\ asking[by].at # "none"
    /\ asking' = [asking EXCEPT ![by] = NotAsking]
    /\ card' = [card EXCEPT !.quiet = TRUE]
    /\ UNCHANGED <<me, linkVars>>

PhoneNext ==
    \/ \E u \in People : CodeExpires(u) \/ WhatsappLink(u) \/ WhatsappUnlink(u)
    \/ \E by \in By : GetSettings(by) \/ CardIsAnswered(by) \/ CardIsNotAnswered(by)
    \/ \E phone \in Phones, code \in Codes : PhoneSends(phone, code)
    \/ OpenSettings \/ LeaveSettings \/ TimerFires \/ SetWhatsappNumber \/ WebhookFails

PhoneSpec == PhoneInit /\ [][PhoneNext]_phoneVars

---------------------------------------------------------------------------
(* The notifications of the browser *)

\* pushManager.subscribe returns what there is, or makes it; then the server is told.
Enable ==
    /\ enrol.at = "none"
    /\ \/ sub # 0 /\ UNCHANGED sub
       \/ sub = 0 /\ \E s \in Subs : s > enrol.sub /\ sub' = s
    /\ enrol' = [at |-> "save", sub |-> sub']
    /\ UNCHANGED <<subscribed, unheard>>
\* save_push_subscription.
SaveSubscription ==
    /\ enrol.at = "save"
    /\ \/ subscribed' = subscribed \cup {enrol.sub} /\ unheard' = FALSE
       \/ UNCHANGED subscribed /\ unheard' = TRUE
    /\ enrol' = [enrol EXCEPT !.at = "none"]
    /\ UNCHANGED sub

\* The browser unsubscribes first, and tells the server then.
Disable ==
    /\ enrol.at = "none" /\ sub # 0
    /\ enrol' = [at |-> "delete", sub |-> sub]
    /\ sub' = 0 /\ unheard' = FALSE
    /\ UNCHANGED subscribed
DeleteSubscription ==
    /\ enrol.at = "delete"
    /\ subscribed' \in {subscribed, subscribed \ {enrol.sub}}
    /\ enrol' = [enrol EXCEPT !.at = "none"]
    /\ UNCHANGED <<sub, unheard>>

\* send_to_user: a subscription the push service no longer knows is dropped, one that
\* could not be reached is kept.
SendToUser ==
    /\ subscribed' = subscribed \cap {sub}
    /\ UNCHANGED <<sub, enrol, unheard>>

EnrolNext == Enable \/ SaveSubscription \/ Disable \/ DeleteSubscription \/ SendToUser

EnrolSpec == EnrolInit /\ [][EnrolNext]_enrolVars

---------------------------------------------------------------------------
(* Properties *)

LinksTypeOK ==
    /\ number \in [People -> Phones \cup {NoPhone}] /\ pendingLink \in [People -> Pending]
    /\ matched \in [on: BOOLEAN, person: People, phone: Phones \cup {NoPhone}]
    /\ proven \in [Phones -> SUBSET People]
    /\ me \in People /\ card \in Card /\ asking \in [By -> Asking]
    /\ sub \in 0 .. MaxSubs /\ subscribed \subseteq Subs /\ unheard \in BOOLEAN
    /\ enrol \in [at: {"none", "save", "delete"}, sub: 0 .. MaxSubs]

\* A linked phone speaks for the person its last code was for, and for nobody else
\* ("one per user, and one user per number", src/db.py:876).
PhoneIsOwned == \A u \in People : number[u] # NoPhone => proven[number[u]] = {u}

\* A card that shows a code asks until the code has arrived, unless an answer was lost.
CardKeepsAsking ==
    card.open /\ card.view = "code" /\ ~card.quiet
    => card.timer \/ \E by \in By : asking[by].at # "none"

\* A browser that says it is enrolled is sent the notices, unless the server was not
\* told when it enrolled.
EnrolledIsHeard == sub # 0 /\ enrol.at # "save" => sub \in subscribed \/ unheard

\* What Settings says of the ways out is what the server does.
LinksHold == PhoneIsOwned /\ CardKeepsAsking /\ EnrolledIsHeard
=============================================================================
