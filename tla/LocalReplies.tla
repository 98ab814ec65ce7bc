----------------------------- MODULE LocalReplies -----------------------------
(***************************************************************************)
(* The numbers a phone answers with.  A question of the agent is a block   *)
(* of its reply (src/agent/clarify.py), stored as it was written and read  *)
(* out of the thread whenever it is needed: for the list the phone gets    *)
(* (format_reply of src/whatsapp.py) and for the number the phone sends    *)
(* (answer_from_reply, against the last bubble).  A notice of the poller   *)
(* writes its list a second time (src/push_notify.py).  A label is what    *)
(* is shown of it, cut off and without its case.                           *)
(***************************************************************************)
EXTENDS Naturals, FiniteSets, Sequences
Joining == INSTANCE SequencesExt

CONSTANTS Labels, NoLabel,
          Blocks,                    \* the blocks the agent may write
          QuestionsCap, OptionsCap   \* MAX_QUESTIONS, MAX_OPTIONS

ASSUME RepliesAreKnown ==
    /\ NoLabel \notin Labels
    /\ QuestionsCap \in Nat \ {0}
    /\ OptionsCap \in Nat \ {0, 1}   \* a notice is not cut off
    /\ Blocks \subseteq Seq([asks: BOOLEAN, options: Seq(Labels \cup {NoLabel})])

VARIABLES
    last,       \* the questions of the last bubble of the stored thread
    onPhone,    \* the list of the last message on the phone: number, question, label
    chatRun,    \* who began the turn that is on
    alert,      \* the list of the notice that was added and is now sent
    reply,      \* what the number on the phone meant, and what it was taken for
    unlike      \* ghost: the phone has not got the last bubble, or its list has twins

repliesVars == <<last, onPhone, chatRun, alert, reply, unlike>>

NoAnswer == <<>>
NoReply == [meant |-> NoAnswer, taken |-> NoAnswer, unlike |-> FALSE]
NoAlert == [sends |-> FALSE, list |-> {}]

RepliesInit ==
    /\ last = <<>> /\ onPhone = {}
    /\ chatRun = "none" /\ alert = NoAlert
    /\ reply = NoReply /\ unlike = FALSE

---------------------------------------------------------------------------
(* Questions, lists and numbers *)

Least(a, b) == IF a < b THEN a ELSE b

\* Numbers, the least first.
InOrder(S) ==
    CHOOSE f \in [1 .. Cardinality(S) -> S] :
        {f[k] : k \in DOMAIN f} = S /\ \A j, k \in DOMAIN f : j < k => f[j] < f[k]

\* _parse_question: no option without a label, none twice, and not more than the cap.
ParseOptions(raw) ==
    LET fresh == {i \in DOMAIN raw : raw[i] # NoLabel /\ \A j \in 1 .. i - 1 : raw[j] # raw[i]}
        order == InOrder(fresh)
    IN  [k \in 1 .. Least(Len(order), OptionsCap) |-> raw[order[k]]]

\* split_questions: "an option-less question is kept".
SplitQuestions(block) ==
    LET asked == InOrder({i \in 1 .. Least(Len(block), QuestionsCap) : block[i].asks})
    IN  [q \in DOMAIN asked |-> ParseOptions(block[asked[q]].options)]

\* format_reply: the numbers go on from one question to the next.
Earlier(questions, q) == Len(Joining!FlattenSeq(SubSeq(questions, 1, q - 1)))
FormatReply(questions) ==
    UNION {{<<Earlier(questions, q) + i, q, questions[q][i]>> : i \in DOMAIN questions[q]} :
           q \in DOMAIN questions}

\* What is picked, pairs of a question and a label, question by question.
Picked(choices) ==
    [q \in {choices[k][1] : k \in DOMAIN choices} |->
        LET own == SelectSeq(choices, LAMBDA choice : choice[1] = q)
        IN  [k \in DOMAIN own |-> own[k][2]]]

\* fault: the numbers of every question start at one, and the first has them
AnswerPerQuestion(digits, questions) ==
    IF questions = <<>> \/ \E k \in DOMAIN digits : digits[k] \notin DOMAIN questions[1]
    THEN NoAnswer
    ELSE Picked([k \in DOMAIN digits |-> <<1, questions[1][digits[k]]>>])
\* answer_from_reply: "names an option that doesn't exist: then the text stands as-is".
AnswerFromReply(digits, questions) ==
    LET flat == Joining!FlattenSeq([q \in DOMAIN questions |->
                    [i \in DOMAIN questions[q] |-> <<q, questions[q][i]>>]])
    IN  IF \E k \in DOMAIN digits : digits[k] \notin DOMAIN flat THEN NoAnswer
        ELSE Picked([k \in DOMAIN digits |-> flat[digits[k]]])
\* What the person reads off the phone.
Meant(digits, list) ==
    LET line(n) == CHOOSE l \in list : l[1] = n
    IN  Picked([k \in DOMAIN digits |-> Tail(line(digits[k]))])

\* The two lists of a notice.
BuildWhatsappText(actions) == {<<i, 1, actions[i]>> : i \in DOMAIN actions}
ChatNoticeBubble(actions) == <<[asks |-> TRUE, options |-> actions]>>
ActionLists == {<<a, b>> : a, b \in Labels} \cup {<<a>> : a \in Labels}
Twins(actions) == \E i, j \in DOMAIN actions : i # j /\ actions[i] = actions[j]

---------------------------------------------------------------------------
(* The conversation *)

\* _handle_whatsapp_message, while no turn is on: the number that is answered with is
\* looked up in the thread, and begins a turn.
PhoneAnswers(digits) ==
    /\ chatRun = "none" /\ \A k \in DOMAIN digits : \E l \in onPhone : l[1] = digits[k]
    /\ reply' = [meant |-> Meant(digits, onPhone), taken |-> AnswerFromReply(digits, last),
                 unlike |-> unlike]
    /\ chatRun' = "phone"
    /\ UNCHANGED <<last, onPhone, alert, unlike>>
WriteBegins(who) ==
    /\ chatRun = "none" /\ chatRun' = who
    /\ reply' = NoReply /\ UNCHANGED <<last, onPhone, alert, unlike>>

\* The turn stores its thread; on_finish sends the last bubble to the phone that began it.
TurnAnswers(block) ==
    /\ chatRun # "none" /\ chatRun' = "none"
    /\ last' = SplitQuestions(block)
    /\ \/ chatRun = "phone" /\ onPhone' = FormatReply(last') /\ unlike' = FALSE
       \/ unlike' = TRUE /\ UNCHANGED onPhone    \* begun in the page, or not sent
    /\ reply' = NoReply /\ UNCHANGED alert
\* Stopped before it acted: the thread stays, and the phone hears that it was stopped.
TurnDiscarded ==
    /\ chatRun # "none" /\ chatRun' = "none"
    /\ onPhone' \in IF chatRun = "phone" THEN {onPhone, {}} ELSE {onPhone}
    /\ reply' = NoReply /\ UNCHANGED <<last, alert, unlike>>

\* send_whatsapp of the poller: the bubble first, then the text; either may fail.
NoticeAdded(actions) ==
    /\ ~alert.sends
    /\ alert' = [sends |-> TRUE, list |-> BuildWhatsappText(actions)]
    /\ last' \in {last, SplitQuestions(ChatNoticeBubble(actions))}
    /\ unlike' = TRUE
    /\ reply' = NoReply /\ UNCHANGED <<onPhone, chatRun>>
NoticeSent(actions) ==
    /\ alert.sends /\ alert' = NoAlert /\ alert.list = BuildWhatsappText(actions)
    /\ \/ /\ onPhone' = alert.list
          \* a turn or a reset may have come over it
          /\ unlike' = (Twins(actions) \/ last # SplitQuestions(ChatNoticeBubble(actions)))
       \/ UNCHANGED <<onPhone, unlike>>
    /\ reply' = NoReply /\ UNCHANGED <<last, chatRun>>

ThreadCleared ==
    /\ last' = <<>> /\ chatRun' = "none" /\ unlike' = TRUE
    /\ reply' = NoReply /\ UNCHANGED <<onPhone, alert>>

RepliesNext ==
    \/ \E l, m \in onPhone : PhoneAnswers(<<l[1]>>) \/ PhoneAnswers(<<l[1], m[1]>>)
    \/ \E who \in {"phone", "web"} : WriteBegins(who)
    \/ \E block \in Blocks : TurnAnswers(block)
    \/ \E actions \in ActionLists : NoticeAdded(actions) \/ NoticeSent(actions)
    \/ TurnDiscarded \/ ThreadCleared

RepliesSpec == RepliesInit /\ [][RepliesNext]_repliesVars

---------------------------------------------------------------------------
(* Properties *)

RepliesTypeOK ==
    /\ chatRun \in {"none", "phone", "web"} /\ unlike \in BOOLEAN
    /\ \A q \in DOMAIN last : \A i \in DOMAIN last[q] : last[q][i] \in Labels
    /\ \A l \in onPhone \cup alert.list : l[3] \in Labels

\* "A digit reply answers the question the agent asked last": a number of the list on the
\* phone is taken for the option it stands at, if the phone has that question and no two
\* of its options look the same.
NumberIsUnderstood == ~reply.unlike => reply.taken = reply.meant
=============================================================================
