---------------------------- MODULE LocalActivity ----------------------------
(***************************************************************************)
(* ActivityWatcher of src/agent/hermes_activity.py: the steps of a Hermes  *)
(* turn, which its process writes into its own session store, are read     *)
(* from there by a thread beside the turn and once more when it is over.   *)
(* The turns of one todo share a session and follow each other; a thread   *)
(* that its turn stopped waiting for goes on beside the next.              *)
(***************************************************************************)
EXTENDS Naturals, Sequences

CONSTANTS TurnCount, MaxSteps   \* bounds on the turns and on the steps of the session

ASSUME ActivityBounds == TurnCount \in Nat \ {0} /\ MaxSteps \in Nat

VARIABLES steps,      \* the assistant rows of the session
          session,    \* Hermes has made the session
          ongoing,    \* the turn that is on, or was last
          stage,      \* of that turn
          watcher,
          before,     \* ghost: the steps of the session when each turn began
          handed,     \* ghost: the steps each turn's watcher handed to progress
          unsure      \* ghost: the turns whose store could not be read or whose thread
                      \* was not waited for

activityVars == <<steps, session, ongoing, stage, watcher, before, handed, unsure>>

TurnNos == 1 .. TurnCount
\* loop: the watcher's thread.  end: stop(), in the thread of the turn.
Readers == {"loop", "end"}
Reader == [at: {"off", "idle", "tells", "out"}, rows: Seq(1 .. MaxSteps)]
Watcher == [last: 0 .. MaxSteps, stop: BOOLEAN, reader: [Readers -> Reader]]
NoReader == [at |-> "off", rows |-> <<>>]
NoWatcher == [last |-> 0, stop |-> FALSE, reader |-> [r \in Readers |-> NoReader]]

ActivityInit ==
    /\ steps = 0 /\ session = FALSE
    /\ ongoing = 0 /\ stage = "over"
    /\ watcher = [n \in TurnNos |-> NoWatcher]
    /\ before = [n \in TurnNos |-> 0] /\ handed = [n \in TurnNos |-> <<>>]
    /\ unsure = {}

\* The constructor: "everything at or below this id predates the turn".
Baseline(n) == [NoWatcher EXCEPT !.last = steps]

\* The watcher is made before the process, and its thread started after it.
BeginWatching ==
    /\ stage = "over" /\ ongoing < TurnCount
    /\ ongoing' = ongoing + 1 /\ stage' = "runs"
    /\ before' = [before EXCEPT ![ongoing'] = steps]
    /\ \E seen \in {Baseline(ongoing'), NoWatcher} :   \* the store could not be read
          /\ watcher' = [watcher EXCEPT ![ongoing'] =
                            [seen EXCEPT !.reader["loop"].at = "idle"]]
          /\ unsure' = IF seen # Baseline(ongoing') THEN unsure \cup {ongoing'} ELSE unsure
    /\ UNCHANGED <<steps, session, handed>>

HermesWrites ==
    /\ stage = "runs" /\ steps < MaxSteps
    /\ session' = TRUE
    /\ \/ steps' = steps + 1
       \/ ~session /\ UNCHANGED steps
    /\ UNCHANGED <<ongoing, stage, watcher, before, handed, unsure>>

\* The process is over, however it ended, and the thread is handed to stop.
StopWatching ==
    /\ stage = "runs" /\ stage' = "stops"
    /\ watcher' = [watcher EXCEPT ![ongoing].stop = TRUE]
    /\ UNCHANGED <<steps, session, ongoing, before, handed, unsure>>
\* The thread has ended, or was waited for long enough.
JoinThread ==
    /\ stage = "stops" /\ stage' = "drains"
    /\ watcher' = [watcher EXCEPT ![ongoing].reader["end"].at = "idle"]
    /\ unsure' = IF watcher[ongoing].reader["loop"].at = "out" THEN unsure
                 ELSE unsure \cup {ongoing}
    /\ UNCHANGED <<steps, session, ongoing, before, handed>>
TurnIsOver ==
    /\ stage = "drains" /\ watcher[ongoing].reader["end"].at = "out"
    /\ stage' = "over"
    /\ UNCHANGED <<steps, session, ongoing, watcher, before, handed, unsure>>

---------------------------------------------------------------------------
(* _loop and _drain *)

\* stop() drains once; the loop until it is stopped.
Done(r) == IF r = "end" THEN "out" ELSE "idle"
Drain(n, r) ==
    /\ watcher[n].reader[r].at = "idle" /\ (r = "loop" => ~watcher[n].stop)
    /\ LET rows == [i \in 1 .. steps - watcher[n].last |-> watcher[n].last + i] IN
       watcher' = [watcher EXCEPT ![n].reader[r] =
           IF session /\ rows # <<>> THEN [at |-> "tells", rows |-> rows]
           ELSE [at |-> Done(r), rows |-> <<>>]]
    /\ UNCHANGED <<steps, session, ongoing, stage, before, handed, unsure>>
DrainFails(n, r) ==
    /\ watcher[n].reader[r].at = "idle" /\ (r = "loop" => ~watcher[n].stop)
    /\ watcher' = [watcher EXCEPT ![n].reader[r].at = Done(r)]
    /\ unsure' = IF r = "end" THEN unsure \cup {n} ELSE unsure
    /\ UNCHANGED <<steps, session, ongoing, stage, before, handed>>
Tell(n, r) ==
    /\ watcher[n].reader[r].at = "tells"
    /\ LET rows == watcher[n].reader[r].rows IN
       /\ handed' = [handed EXCEPT ![n] = Append(@, Head(rows))]
       /\ watcher' = [watcher EXCEPT
             ![n].last = IF Head(rows) > @ THEN Head(rows) ELSE @,
             ![n].reader[r] = [at |-> IF Len(rows) = 1 THEN Done(r) ELSE "tells",
                               rows |-> Tail(rows)]]
    /\ UNCHANGED <<steps, session, ongoing, stage, before, unsure>>
LoopEnds(n) ==
    /\ watcher[n].reader["loop"].at = "idle" /\ watcher[n].stop
    /\ watcher' = [watcher EXCEPT ![n].reader["loop"].at = "out"]
    /\ UNCHANGED <<steps, session, ongoing, stage, before, handed, unsure>>

ActivityNext ==
    \/ BeginWatching \/ HermesWrites \/ StopWatching \/ JoinThread \/ TurnIsOver
    \/ \E n \in TurnNos :
          \/ LoopEnds(n)
          \/ \E r \in Readers : Drain(n, r) \/ DrainFails(n, r) \/ Tell(n, r)

ActivitySpec == ActivityInit /\ [][ActivityNext]_activityVars

---------------------------------------------------------------------------
(* Properties *)

ActivityTypeOK ==
    /\ steps \in 0 .. MaxSteps /\ session \in BOOLEAN
    /\ ongoing \in 0 .. TurnCount /\ stage \in {"over", "runs", "stops", "drains"}
    /\ watcher \in [TurnNos -> Watcher] /\ before \in [TurnNos -> 0 .. MaxSteps]
    /\ handed \in [TurnNos -> Seq(1 .. MaxSteps)] /\ unsure \subseteq TurnNos

\* A turn tells its own steps, each once and in order, and all of them once it is over:
\* "a follow-up turn reports only its own steps", "the last step is not lost".
StepsAreTold ==
    \A n \in TurnNos \ unsure :
        /\ \A i \in DOMAIN handed[n] : handed[n][i] = before[n] + i
        /\ n = ongoing /\ stage = "over" => before[n] + Len(handed[n]) = steps
=============================================================================
