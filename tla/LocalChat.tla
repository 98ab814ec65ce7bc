------------------------------ MODULE LocalChat ------------------------------
(***************************************************************************)
(* The conversations of the local app (src/app.py, src/db.py): a thread    *)
(* of display bubbles and the executor's session, kept in the row of a     *)
(* todo or, for the chat, in user_state.  A request reads them, a run of   *)
(* AgentRuns extends its own copy, and its thread writes both back when it *)
(* ends; the poller process appends notices to the chat on its own.        *)
(*                                                                         *)
(* Threads are the threads of the web process that serve requests: as many *)
(* as there are requests under the development server that runs Hermes     *)
(* (README.md:61, app.py:1418), one under gunicorn's sync worker           *)
(* (railway.json:4).                                                       *)
(* A bubble pair is the name of the run that made it; the two texts have   *)
(* no bearing on the properties.                                           *)
(***************************************************************************)
EXTENDS AgentRuns, Sequences, SequencesExt

CONSTANTS Chat,         \* the conversation without a todo
          Threads,      \* request threads of the web process
          Messages,     \* WhatsApp messages, by their ids
          Notices,      \* notices of the poller
          MaxRestarts   \* bound on restarts of the web process

\* The phone and the poller have no conversation but the chat.
ASSUME ChatIsKey ==
    Chat # None /\ (Chat \in Conversations \/ Messages \cup Notices = {})
ASSUME RestartsBounded == MaxRestarts \in Nat
ASSUME NoneIsNoMessage == None \notin Messages \cup Notices
ASSUME NoticesAreNotRuns == Notices \cap Runs = {}

VARIABLES log,       \* ai_thread of a todo, chat:thread of the chat
          session,   \* executor_state: the run that opened the Hermes session
          turn,      \* what each run was started with
          req,       \* the request each thread serves
          append,    \* append_chat_bubble of the poller
          posted,    \* the notices the poller has begun to append
          handled,   \* _seen_set: message ids this process has seen
          replied,   \* the runs whose reply went to the phone
          restarts,
          \* History, for the properties alone:
          noted,     \* the turns a notice could see when the poller read the chat
          gone,      \* runs begun before the last reset of their conversation
          dropped,   \* runs a reset took from the registry while they were at work
          twice      \* messages two requests looked up at the same time

rowVars == <<log, session>>
history == <<noted, gone, dropped, twice>>
chatVars == <<rowVars, turn, req, append, posted, handled, replied, restarts, history>>
vars == <<runVars, chatVars>>
allButReq == <<runVars, rowVars, turn, append, posted, handled, replied, restarts,
               history>>

Item == Runs \cup Notices
\* What a turn is built on: the thread, the session, the message of the phone it
\* answers; and, as history, the turns that were stored when its thread was read.
TurnRecord == [base: Seq(Item), carried: Runs \cup {None},
               from: Messages \cup {None}, saw: SUBSET Runs]
NoTurn == [base |-> <<>>, carried |-> None, from |-> None, saw |-> {}]
Steps == {"idle", "deliver", "read", "recall", "check", "start", "stop", "pop",
          "clear"}
Request == [step: Steps, conv: Conversations \cup {Chat}, turn: TurnRecord]
Idle == [step |-> "idle", conv |-> Chat, turn |-> NoTurn]
NoAppend == [on |-> None, base |-> <<>>]

Init ==
    /\ RunsInit
    /\ log = [c \in Conversations |-> <<>>]
    /\ session = [c \in Conversations |-> None]
    /\ turn = [r \in Runs |-> NoTurn]
    /\ req = [t \in Threads |-> Idle]
    /\ append = NoAppend
    /\ posted = {} /\ handled = {} /\ replied = {} /\ restarts = 0
    /\ noted = [n \in Notices |-> {}]
    /\ gone = {} /\ dropped = {} /\ twice = {}

---------------------------------------------------------------------------
(* Starting a turn *)

\* Goes on to step s of the request, with the turn as it stands then.
Moves(t, s, what) == req' = [req EXCEPT ![t].step = s, ![t].turn = what]
Leaves(t) == req' = [req EXCEPT ![t] = Idle]

\* The todo route reads the row before it looks for a live run, the chat routes
\* look first; the row comes in one SELECT, the chat in one for its thread and one
\* for its session.
FirstStep(c) == IF c = Chat THEN "check" ELSE "read"
AfterRead(c) == IF c = Chat THEN "recall" ELSE "check"
AfterCheck(c) == IF c = Chat THEN "read" ELSE "start"

Opens(t, s, c, m) ==
    /\ req[t].step = "idle"
    /\ req' = [req EXCEPT ![t] = [step |-> s, conv |-> c,
                                  turn |-> [NoTurn EXCEPT !.from = m]]]

\* A message typed in the browser, or an option clicked.
Ask(t, c) ==
    /\ Opens(t, FirstStep(c), c, None)
    /\ UNCHANGED allButReq

\* Other requests are looking up the same message.
LookedUp(m) == \E u \in Threads : req[u].step = "deliver" /\ req[u].turn.from = m

\* Mutant: a repeat is not recognised.
DeliverTwice(t, m) ==
    /\ Opens(t, "deliver", Chat, m)
    /\ UNCHANGED allButReq
\* The webhook: a message this process has seen is skipped.  Nothing keeps another
\* request from looking it up before this one has noted it.
Deliver(t, m) ==
    /\ m \notin handled
    /\ Opens(t, "deliver", Chat, m)
    /\ twice' = IF LookedUp(m) THEN twice \cup {m} ELSE twice
    /\ UNCHANGED <<runVars, rowVars, turn, append, posted, handled, replied, restarts,
                   noted, gone, dropped>>
Remember(t) ==
    /\ req[t].step = "deliver"
    /\ handled' = handled \cup {req[t].turn.from}
    /\ Moves(t, FirstStep(Chat), req[t].turn)
    /\ UNCHANGED <<runVars, rowVars, turn, append, posted, replied, restarts, history>>

\* A reply is for the thread, and so is a stopped or failed turn of an agent that
\* had acted.
ToRecord(r) ==
    run[r].ending = "reply"
    \/ (run[r].ending \in {"stopped", "failed"} /\ token[r].acted)
\* The turns whose run is past its persist.
Recorded ==
    {r \in Runs : /\ ToRecord(r)
                  /\ run[r].at \in {"saved", "told"} \/ run[r].status \in Terminal}
\* Those of one conversation: what a reader of its thread should find there.
Stored(c) == {r \in Recorded : run[r].conv = c}

\* _own_todo, and the first half of get_chat: what the turn will be built on.
Read(t) ==
    /\ req[t].step = "read"
    /\ LET c == req[t].conv
           seen == [req[t].turn EXCEPT !.base = log[c], !.saw = Stored(c)] IN
       Moves(t, AfterRead(c),
             IF c = Chat THEN seen ELSE [seen EXCEPT !.carried = session[c]])
    /\ UNCHANGED allButReq
\* The second half of get_chat: the session as it is by then.
Recall(t) ==
    /\ req[t].step = "recall"
    /\ Moves(t, "start", [req[t].turn EXCEPT !.carried = session[req[t].conv]])
    /\ UNCHANGED allButReq

\* runs.get: a live run is shown instead, or the phone is told to wait for it.
Check(t) ==
    /\ req[t].step = "check"
    /\ IF Busy(req[t].conv) THEN Leaves(t)
       ELSE Moves(t, AfterCheck(req[t].conv), req[t].turn)
    /\ UNCHANGED allButReq

\* The next uuid.  Which unused name it is makes no difference.
NewRun == CHOOSE r \in Runs : Fresh(r)

\* runs.start: with a run going, this request's message and its callback are
\* dropped, and the phone is promised an answer all the same.
Start(t, e) ==
    /\ req[t].step = "start"
    /\ \E r \in Runs : Fresh(r)
    /\ Register(NewRun, req[t].conv, e)
    /\ turn' = IF Busy(req[t].conv) THEN turn
               ELSE [turn EXCEPT ![NewRun] = req[t].turn]
    /\ Leaves(t)
    /\ UNCHANGED <<rowVars, append, posted, handled, replied, restarts, history>>

\* A step of a request that uses the database may raise; the request ends there.
RequestFails(t) ==
    /\ req[t].step \in {"read", "recall", "start", "clear"}
    /\ Leaves(t)
    /\ UNCHANGED allButReq

---------------------------------------------------------------------------
(* Stopping and resetting *)

UserStops(t, c) ==
    /\ req[t].step = "idle"
    /\ Busy(c) /\ Stop(c)
    /\ UNCHANGED chatVars

ResetBegins(t, c) ==
    /\ req[t].step = "idle"
    /\ req' = [req EXCEPT ![t] = [Idle EXCEPT !.step = "stop", !.conv = c]]
    /\ UNCHANGED allButReq

\* Mutant: a reset that clears the display log alone.
ResetKeepsSession(t) ==
    /\ req[t].step = "clear"
    /\ log' = [log EXCEPT ![req[t].conv] = <<>>]
    /\ gone' = gone \cup {r \in Runs : run[r].conv = req[t].conv}
    /\ Leaves(t)
    /\ UNCHANGED <<runVars, session, turn, append, posted, handled, replied, restarts,
                   noted, dropped, twice>>

\* Runs on, and nobody has told it to stop.
AtWork(r) == Live(r) /\ ~token[r].stopped

\* The three steps of a reset: discard's stop, discard's pop, and the update
\* that clears the thread together with the executor's session.
ResetStops(t) ==
    /\ req[t].step = "stop"
    /\ Stop(req[t].conv)
    /\ Moves(t, "pop", NoTurn)
    /\ UNCHANGED <<rowVars, turn, append, posted, handled, replied, restarts, history>>

ResetPops(t) ==
    /\ req[t].step = "pop"
    /\ Pop(req[t].conv)
    /\ dropped' = dropped \cup {r \in Runs : registry[req[t].conv] = r /\ AtWork(r)}
    /\ Moves(t, "clear", NoTurn)
    /\ UNCHANGED <<rowVars, turn, append, posted, handled, replied, restarts,
                   noted, gone, twice>>

ResetClears(t) ==
    /\ req[t].step = "clear"
    /\ log' = [log EXCEPT ![req[t].conv] = <<>>]
    /\ session' = [session EXCEPT ![req[t].conv] = None]
    /\ gone' = gone \cup {r \in Runs : run[r].conv = req[t].conv}
    /\ Leaves(t)
    /\ UNCHANGED <<runVars, turn, append, posted, handled, replied, restarts,
                   noted, dropped, twice>>

---------------------------------------------------------------------------
(* The end of a run, on its own thread *)

Executes(r) ==
    /\ Launch(r) \/ Attach(r) \/ Timeout(r) \/ Collect(r) \/ SdkReturn(r) \/ Close(r)
    /\ UNCHANGED chatVars
AgentMoves(r) ==
    /\ Act(r) \/ Exit(r)
    /\ UNCHANGED chatVars

\* Mutant: an answer that came after the stop is thrown away.
PersistsUnlessStopped(r) ==
    (run[r].ending = "reply" /\ ~token[r].stopped) \/ token[r].acted
\* A reply is written; a stopped or failed turn only if the agent had acted.
Persists(r) == run[r].ending = "reply" \/ token[r].acted

\* The session a turn leaves: Hermes' own, opened under the run's name when it
\* was given none; the SDK has none.
SessionAfter(r) ==
    IF run[r].engine = "agents_sdk" THEN None
    ELSE IF turn[r].carried # None THEN turn[r].carried ELSE r

\* persist: thread and session of the conversation, replaced together.
Persist(r) ==
    /\ run[r].at = "ended" /\ run[r].ending # "raised" /\ Live(r)
    /\ run' = [run EXCEPT ![r].at = "saved"]
    /\ IF Persists(r)
       THEN /\ log' = [log EXCEPT ![run[r].conv] = Append(turn[r].base, r)]
            /\ session' = [session EXCEPT ![run[r].conv] = SessionAfter(r)]
       ELSE UNCHANGED <<log, session>>
    /\ UNCHANGED <<registry, token, turn, req, append, posted, handled, replied,
                   restarts, history>>

\* The write raises (the database is locked), outside what work() handles.
PersistFails(r) ==
    /\ run[r].at = "ended" /\ run[r].ending # "raised" /\ Persists(r) /\ Live(r)
    /\ run' = [run EXCEPT ![r].ending = "raised"]
    /\ UNCHANGED <<registry, token, chatVars>>

\* Mutant: a stopped turn is not reported.
ReportsUnlessStopped(r) == turn[r].from # None /\ ~token[r].stopped
\* on_finish, for a turn that came from the phone.
Reports(r) == turn[r].from # None
Tell(r) ==
    /\ run[r].at = "saved" /\ Live(r)
    /\ run' = [run EXCEPT ![r].at = "told"]
    /\ replied' = IF Reports(r) THEN replied \cup {r} ELSE replied
    /\ UNCHANGED <<registry, token, rowVars, turn, req, append, posted, handled, restarts,
                   history>>

---------------------------------------------------------------------------
(* The poller process, and a restart of the web process *)

\* append_chat_bubble reads the thread and writes it back with one bubble more.  A
\* todo is announced once.
AppendReads(n) ==
    /\ append.on = None /\ n \notin posted
    /\ append' = [on |-> n, base |-> log[Chat]]
    /\ posted' = posted \cup {n}
    /\ noted' = [noted EXCEPT ![n] = Stored(Chat)]
    /\ UNCHANGED <<runVars, rowVars, turn, req, handled, replied, restarts,
                   gone, dropped, twice>>

AppendWrites ==
    /\ append.on # None
    /\ log' = [log EXCEPT ![Chat] = Append(append.base, append.on)]
    /\ append' = NoAppend
    /\ UNCHANGED <<runVars, session, turn, req, posted, handled, replied, restarts,
                   history>>

Restart ==
    /\ restarts < MaxRestarts
    /\ RunsRestart
    /\ req' = [t \in Threads |-> Idle]
    /\ handled' = {}
    /\ restarts' = restarts + 1
    /\ UNCHANGED <<rowVars, turn, append, posted, replied, history>>

---------------------------------------------------------------------------
RequestStep(t) ==
    Remember(t) \/ Read(t) \/ Recall(t) \/ Check(t) \/ (\E e \in Engines : Start(t, e))
    \/ ResetStops(t) \/ ResetPops(t) \/ ResetClears(t)
UserStep(t) ==
    \/ \E c \in Conversations : Ask(t, c) \/ UserStops(t, c) \/ ResetBegins(t, c)
    \/ \E m \in Messages : Deliver(t, m)
    \/ RequestFails(t)
TurnStep(r) == Executes(r) \/ Persist(r) \/ PersistFails(r) \/ Tell(r)
PollerStep == (\E n \in Notices : AppendReads(n)) \/ AppendWrites

Next ==
    \/ \E t \in Threads : RequestStep(t) \/ UserStep(t)
    \/ \E r \in Runs : TurnStep(r) \/ AgentMoves(r)
    \/ PollerStep
    \/ Restart

\* A run's thread and a request go on; nothing makes a user, a browser that holds
\* the pipes, the poller or a restart act.  The timeout of communicate is a step
\* of the run's thread; the SDK's client has timeouts of its own.
Spec == Init /\ [][Next]_vars
        /\ \A r \in Runs : WF_vars(TurnStep(r))
        /\ \A t \in Threads : WF_vars(RequestStep(t))

---------------------------------------------------------------------------
(* Properties *)

TypeOK ==
    /\ registry \in [Conversations -> Runs \cup {None}]
    /\ run \in [Runs -> RunRecord]
    /\ token \in [Runs -> TokenRecord]
    /\ log \in [Conversations -> Seq(Item)]
    /\ session \in [Conversations -> Runs \cup {None}]
    /\ turn \in [Runs -> TurnRecord]
    /\ req \in [Threads -> Request]
    /\ append \in [on: Notices \cup {None}, base: Seq(Item)]
    /\ posted \in SUBSET Notices /\ handled \in SUBSET Messages
    /\ replied \in SUBSET Runs /\ restarts \in 0 .. MaxRestarts
    /\ noted \in [Notices -> SUBSET Runs]
    /\ gone \in SUBSET Runs /\ dropped \in SUBSET Runs /\ twice \in SUBSET Messages

\* Two runs of one conversation are never both at work (app.py ask_ai: "Don't start
\* a second agent on the same todo behind the user's back"; runs.py: "At most one
\* run exists per (user, todo)").
OneLiveRun ==
    \A r, s \in Runs :
        r # s /\ AtWork(r) /\ AtWork(s) => run[r].conv # run[s].conv

\* A run at work can be found and stopped under its conversation, so that of two
\* requests that found none only one starts a run; the one way out of reach is a
\* reset that came between, whose stop met no run and whose pop met this one.
RunIsInReach ==
    \A r \in Runs : AtWork(r) => registry[run[r].conv] = r \/ r \in dropped

\* A turn that crossed another: its thread was read before the other was stored, and
\* the other was not built on it.
Before(q) == IF q \in Runs THEN turn[q].saw ELSE noted[q]
Crossed(q, r) == r \notin Before(q) /\ ~Contains(turn[r].base, q)

\* A turn that ended with a reply, or after its agent had acted, is in the thread
\* (app.py record: "discarding that is how a Booth deposit run once emailed
\* admissions with no trace of it anywhere in the app"), until a reset, and unless
\* the thread was written over by a turn or a notice that crossed it.
TurnIsRecorded ==
    \A r \in Recorded :
        LET thread == log[run[r].conv] IN
        Contains(thread, r) \/ r \in gone
            \/ \E i \in DOMAIN thread : Crossed(thread[i], r)

\* The session the next turn on a todo would resume was opened by a turn its thread
\* shows: the executor does not remember a conversation the user cannot see (app.py
\* reset_thread: "clearing only the display log would leave an executor like Hermes
\* still remembering the old conversation").
MemoryIsVisible ==
    \A c \in Conversations \ {Chat} : session[c] # None => Contains(log[c], session[c])

\* A WhatsApp message delivered again starts no second turn in one process, unless
\* two requests looked it up before either had noted it.
OneTurnPerMessage ==
    \A m \in Messages \ twice :
        Cardinality({r \in Runs : ~Fresh(r) /\ turn[r].from = m}) <= 1 + restarts

\* A turn the phone began is answered there, unless the process is restarted, the
\* turn raises, or a child of the agent holds the pipes.
Abandoned(r) ==
    run[r].status = "lost" \/ run[r].ending = "raised"
    \/ token[r].proc \in {"held", "stray"}
TurnIsAnswered ==
    \A r \in Runs :
        (Live(r) /\ turn[r].from # None) ~> (r \in replied \/ Abandoned(r))

\* A stop lands: the run ends, unless a child that ignored the SIGTERM outlives
\* the agent (runs.py _kill: "the stop would never land").
StopLands ==
    \A r \in Runs :
        (Live(r) /\ token[r].stopped) ~> (~Live(r) \/ token[r].proc = "stray")

\* A reset starts over: nothing of a turn begun before it is in the thread or is
\* what the executor would resume (app.py reset_thread: "Any run in flight goes
\* with it").
ResetForgets ==
    \A c \in Conversations : \A r \in gone :
        run[r].conv = c => ~Contains(log[c], r) /\ session[c] # r
=============================================================================
