------------------------------- MODULE WorkPage -------------------------------
(***************************************************************************)
(* A page that works through the durable queue: the durable mode of        *)
(* src/static/js/app.js (from durableState to resetDurable) and            *)
(* src/static/js/durable-work.js, with one conversation of the server      *)
(* behind it (the routes of src/cloud/http.py).  A request is sent, is     *)
(* handled by the server and comes back in three steps, any of which may   *)
(* fail; a message is the request key the page made for it.                *)
(***************************************************************************)
EXTENDS Naturals

CONSTANTS Keys,         \* request keys, one for each message written
          Loads,        \* status requests that can be on their way at once
          MaxGeneration \* bound on resets, of this page and of others

ASSUME GenerationsBounded == MaxGeneration \in Nat \ {0}

VARIABLES generation,   \* the conversation's generation on the server
          accepted,     \* jobs: the keys accepted, with their generation
          working,      \* the keys whose jobs are queued, running or to be retried
          snapshot,     \* state.snapshot: its generation and its active jobs
          pending,      \* state.pending
          submitted,    \* the generation each submission names
          post,         \* where the request of each submission is
          load,         \* the status requests
          reset,        \* the reset request
          timer,        \* pollTimer
          open,         \* activeThreadId is this conversation
          discarded,    \* ghost: what the user recovered, or a reset discarded
          unsure        \* ghost: a reset of this page was not confirmed

workPageVars == <<generation, accepted, working, snapshot, pending, submitted,
                  post, load, reset, timer, open, discarded, unsure>>

Generations == 1 .. MaxGeneration
Snapshot == [generation: 0 .. MaxGeneration, active: SUBSET Keys]
NoSnapshot == [generation |-> 0, active |-> {}]
Load == [at: {"none", "sent", "back", "broken"}, current: BOOLEAN, answer: Snapshot]
NoLoad == [at |-> "none", current |-> FALSE, answer |-> NoSnapshot]
NoReset == [at |-> "none", generation |-> 0]

WorkPageInit ==
    /\ generation = 1 /\ accepted = {} /\ working = {}
    /\ snapshot = NoSnapshot
    /\ pending = [k \in Keys |-> "none"]
    /\ submitted = [k \in Keys |-> 0]
    /\ post = [k \in Keys |-> "none"]
    /\ load = [l \in Loads |-> NoLoad]
    /\ reset = NoReset
    /\ timer = FALSE /\ open = FALSE
    /\ discarded = {} /\ unsure = FALSE

\* ++state.serial: what is on its way is not to be shown.
Superseded == [l \in Loads |-> [load[l] EXCEPT !.current = FALSE]]

\* loadDurable, up to its await.
Loading ==
    \E l \in Loads :
        /\ load[l].at = "none"
        /\ load' = [Superseded EXCEPT ![l] = [NoLoad EXCEPT !.at = "sent", !.current = TRUE]]

---------------------------------------------------------------------------
(* The user *)

\* loadAiThread, loadChatThread: the conversation comes on screen.
OpenThread ==
    /\ ~open /\ Loading
    /\ open' = TRUE /\ timer' = FALSE
    /\ UNCHANGED <<generation, accepted, working, snapshot, pending, submitted,
                   post, reset, discarded, unsure>>

LeaveThread ==
    /\ open
    /\ open' = FALSE /\ timer' = FALSE
    /\ UNCHANGED <<generation, accepted, working, snapshot, pending, submitted,
                   post, load, reset, discarded, unsure>>

\* sendDurable with a snapshot; without one the composer is disabled.
SendMessage(k) ==
    /\ open /\ snapshot.generation > 0 /\ submitted[k] = 0
    /\ submitted' = [submitted EXCEPT ![k] = snapshot.generation]
    /\ pending' = [pending EXCEPT ![k] = "saving"]
    /\ post' = [post EXCEPT ![k] = "sent"]
    /\ UNCHANGED <<generation, accepted, working, snapshot, load, reset, timer,
                   open, discarded, unsure>>

\* "Retry same request": key and generation stay as they were.
Retry(k) ==
    /\ open /\ pending[k] = "uncertain"
    /\ IF submitted[k] = snapshot.generation
       THEN /\ pending' = [pending EXCEPT ![k] = "saving"]
            /\ post' = [post EXCEPT ![k] = "sent"]
       ELSE /\ pending' = [pending EXCEPT ![k] = "none"]
            /\ UNCHANGED post
    /\ UNCHANGED <<generation, accepted, working, snapshot, submitted, load, reset,
                   timer, open, discarded, unsure>>

\* "Recover text for editing"; what is sent then has a key of its own.
Recover(k) ==
    /\ open /\ pending[k] = "rejected"
    /\ pending' = [pending EXCEPT ![k] = "none"]
    /\ discarded' = discarded \cup {k}
    /\ UNCHANGED <<generation, accepted, working, snapshot, submitted, post, load,
                   reset, timer, open, unsure>>

\* cancelDurable, its request and the answer to it taken as one step; it may fail.
CancelWork(k) ==
    /\ open /\ k \in snapshot.active /\ Loading
    /\ working' \in {working, working \ {k}}
    /\ UNCHANGED <<generation, accepted, snapshot, pending, submitted, post, reset,
                   timer, open, discarded, unsure>>

\* resetDurable, up to its await.
AskReset ==
    /\ open /\ snapshot.generation > 0 /\ reset.at = "none"
    /\ load' = Superseded
    /\ reset' = [at |-> "sent", generation |-> snapshot.generation]
    /\ UNCHANGED <<generation, accepted, working, snapshot, pending, submitted,
                   post, timer, open, discarded, unsure>>

---------------------------------------------------------------------------
(* The server, and the network *)

\* Work.accept: a key is known within its generation.
AnswerPost(k) ==
    /\ post[k] = "sent"
    /\ \/ /\ submitted[k] = generation
          /\ accepted' = accepted \cup {<<k, generation>>}
          /\ working' = IF <<k, generation>> \in accepted THEN working
                        ELSE working \cup {k}
          /\ post' = [post EXCEPT ![k] = "accepted"]
       \/ /\ post' = [post EXCEPT ![k] = "refused"]
          /\ UNCHANGED <<accepted, working>>
    /\ UNCHANGED <<generation, snapshot, pending, submitted, load, reset, timer,
                   open, discarded, unsure>>

\* The request or its answer is lost, or the server is away.
LosePost(k) ==
    /\ post[k] \in {"sent", "accepted", "refused"}
    /\ post' = [post EXCEPT ![k] = "lost"]
    /\ UNCHANGED <<generation, accepted, working, snapshot, pending, submitted,
                   load, reset, timer, open, discarded, unsure>>

\* Work.snapshot.
AnswerLoad(l) ==
    /\ load[l].at = "sent"
    /\ load' = [load EXCEPT ![l].at = "back",
                            ![l].answer = [generation |-> generation, active |-> working]]
    /\ UNCHANGED <<generation, accepted, working, snapshot, pending, submitted,
                   post, reset, timer, open, discarded, unsure>>

LoseLoad(l) ==
    /\ load[l].at \in {"sent", "back"}
    /\ load' = [load EXCEPT ![l].at = "broken"]
    /\ UNCHANGED <<generation, accepted, working, snapshot, pending, submitted,
                   post, reset, timer, open, discarded, unsure>>

\* Control.reset.
AnswerReset ==
    /\ reset.at = "sent"
    /\ IF reset.generation = generation /\ generation < MaxGeneration
       THEN /\ generation' = generation + 1 /\ working' = {}
            /\ reset' = [at |-> "done", generation |-> generation + 1]
       ELSE /\ reset' = [reset EXCEPT !.at = "broken"]
            /\ UNCHANGED <<generation, working>>
    /\ UNCHANGED <<accepted, snapshot, pending, submitted, post, load, timer, open,
                   discarded, unsure>>

LoseReset ==
    /\ reset.at \in {"sent", "done"}
    /\ reset' = [reset EXCEPT !.at = "broken"]
    /\ UNCHANGED <<generation, accepted, working, snapshot, pending, submitted,
                   post, load, timer, open, discarded, unsure>>

\* A job ends.
FinishWork(k) ==
    /\ k \in working
    /\ working' = working \ {k}
    /\ UNCHANGED <<generation, accepted, snapshot, pending, submitted, post, load,
                   reset, timer, open, discarded, unsure>>

\* Another page of the owner resets the conversation.
ResetElsewhere ==
    /\ generation < MaxGeneration
    /\ generation' = generation + 1 /\ working' = {}
    /\ UNCHANGED <<accepted, snapshot, pending, submitted, post, load, reset, timer,
                   open, discarded, unsure>>

---------------------------------------------------------------------------
(* The page, when an answer is back *)

\* fault: a submission whose answer is lost is forgotten
UnsettledForgets(k) == IF post[k] = "refused" THEN "rejected" ELSE "none"
\* What the page keeps of a submission when its request is over.
Unsettled(k) ==
    IF post[k] = "accepted" THEN "none"
    ELSE IF post[k] = "refused" THEN "rejected" ELSE "uncertain"

\* postDurable behind its await; of a generation that is gone it says nothing.
PostReturns(k) ==
    /\ post[k] \in {"accepted", "refused", "lost"}
    /\ post' = [post EXCEPT ![k] = "none"]
    /\ IF post[k] # "accepted" /\ snapshot.generation # submitted[k]
       THEN UNCHANGED <<pending, load>>
       ELSE /\ pending' = [pending EXCEPT ![k] = Unsettled(k)]
            /\ Loading
    /\ UNCHANGED <<generation, accepted, working, snapshot, submitted, reset, timer,
                   open, discarded, unsure>>

\* What is pending in a generation that ended is kept for its text.
KeptText == [k \in Keys |-> IF pending[k] = "none" THEN "none" ELSE "rejected"]

Shows(l) ==
    load[l].at = "back" /\ load[l].current
        /\ load[l].answer.generation >= snapshot.generation

\* loadDurable behind its await.
LoadShows(l) ==
    /\ Shows(l)
    /\ snapshot' = load[l].answer
    /\ pending' = IF snapshot.generation \in {0, load[l].answer.generation}
                  THEN pending ELSE KeptText
    /\ timer' = IF open THEN load[l].answer.active # {} ELSE timer
    /\ unsure' = FALSE
    /\ load' = [load EXCEPT ![l] = NoLoad]
    /\ UNCHANGED <<generation, accepted, working, submitted, post, reset, open, discarded>>

\* A status that is out of date is dropped.
LoadDrops(l) ==
    /\ load[l].at = "back" /\ ~Shows(l)
    /\ load' = [load EXCEPT ![l] = NoLoad]
    /\ UNCHANGED <<generation, accepted, working, snapshot, pending, submitted,
                   post, reset, timer, open, discarded, unsure>>

\* "Connection interrupted. Checking saved work again…"
AsksAgain(l) ==
    IF open /\ load[l].current /\ snapshot.active # {} THEN TRUE ELSE timer
LoadBreaks(l) ==
    /\ load[l].at = "broken"
    /\ timer' = AsksAgain(l)
    /\ load' = [load EXCEPT ![l] = NoLoad]
    /\ UNCHANGED <<generation, accepted, working, snapshot, pending, submitted,
                   post, reset, open, discarded, unsure>>

TimerFires ==
    /\ timer /\ Loading
    /\ timer' = FALSE
    /\ UNCHANGED <<generation, accepted, working, snapshot, pending, submitted,
                   post, reset, open, discarded, unsure>>

\* resetDurable behind its await; an unconfirmed reset leaves the page as it is.
ResetReturns ==
    /\ reset.at \in {"done", "broken"}
    /\ reset' = NoReset
    /\ IF reset.at = "done"
       THEN /\ discarded' = discarded \cup {k \in Keys : pending[k] # "none"}
            /\ pending' = [k \in Keys |-> "none"]
            /\ snapshot' = [generation |-> reset.generation, active |-> {}]
            /\ Loading
            /\ UNCHANGED unsure
       ELSE /\ unsure' = TRUE
            /\ UNCHANGED <<pending, snapshot, load, discarded>>
    /\ UNCHANGED <<generation, accepted, working, submitted, post, timer, open>>

WorkPageNext ==
    \/ OpenThread \/ LeaveThread \/ AskReset
    \/ \E k \in Keys : SendMessage(k) \/ Retry(k) \/ Recover(k) \/ CancelWork(k)
                       \/ AnswerPost(k) \/ LosePost(k) \/ FinishWork(k) \/ PostReturns(k)
    \/ \E l \in Loads : AnswerLoad(l) \/ LoseLoad(l) \/ LoadShows(l) \/ LoadDrops(l)
                        \/ LoadBreaks(l)
    \/ AnswerReset \/ LoseReset \/ ResetElsewhere
    \/ TimerFires \/ ResetReturns

WorkPageSpec == WorkPageInit /\ [][WorkPageNext]_workPageVars

---------------------------------------------------------------------------
(* Properties *)

WorkPageTypeOK ==
    /\ generation \in Generations
    /\ accepted \in SUBSET (Keys \X Generations) /\ working \in SUBSET Keys
    /\ snapshot \in Snapshot
    /\ pending \in [Keys -> {"none", "saving", "uncertain", "rejected"}]
    /\ submitted \in [Keys -> 0 .. MaxGeneration]
    /\ post \in [Keys -> {"none", "sent", "accepted", "refused", "lost"}]
    /\ load \in [Loads -> Load]
    /\ reset \in [at: {"none", "sent", "done", "broken"}, generation: 0 .. MaxGeneration]
    /\ timer \in BOOLEAN /\ open \in BOOLEAN /\ unsure \in BOOLEAN
    /\ discarded \in SUBSET Keys

\* A message that was sent is a job, or is still on the page, to be retried or
\* recovered, unless the user reset the conversation or recovered it: whatever is
\* lost, refused or reset elsewhere, its text does not vanish.
NothingIsLost ==
    \A k \in Keys : submitted[k] # 0 =>
        \/ \E g \in Generations : <<k, g>> \in accepted
        \/ pending[k] # "none"
        \/ k \in discarded

\* A page that shows unfinished work goes on asking for it, unless its reset was
\* not confirmed.
WorkIsWatched ==
    open /\ snapshot.active # {} /\ ~unsure /\ reset.at = "none"
        => timer \/ \E l \in Loads : load[l].at # "none" /\ load[l].current

\* The page keeps track of what it was given and of what it shows.
PageKeepsTrack == NothingIsLost /\ WorkIsWatched
=============================================================================
