------------------------------ MODULE AgentRuns ------------------------------
(***************************************************************************)
(* The runs of the local app: src/agent/runs.py (the registry and the      *)
(* cancel token), src/agent/hermes_runner.py (a run that waits for a       *)
(* command line agent) and src/agent/sdk_executor.py (a run that cannot be *)
(* interrupted).                                                           *)
(*                                                                         *)
(* A run is a thread of the web process.  `run` is its Run object and how  *)
(* far its thread is, `token` its CancelToken with the process behind it,  *)
(* `registry` the table _runs that maps a conversation to its latest run.  *)
(* The module has the operations; LocalChat composes them with the threads *)
(* of conversation the runs read and write.                                *)
(***************************************************************************)
EXTENDS Naturals

CONSTANTS Runs,           \* run ids (uuids)
          Conversations,  \* keys of the registry: todos, and the chat
          Engines,        \* the executors this host offers
          None

ASSUME NoneIsNew == None \notin Runs \cup Conversations
ASSUME EnginesKnown == Engines \subseteq {"hermes", "agents_sdk"}

VARIABLES registry, run, token

runVars == <<registry, run, token>>

Terminal == {"done", "error", "cancelled"}
Statuses == {"unborn", "running", "lost"} \cup Terminal

\* How a run's thread ended its turn: work() of app.py returns for the first
\* three, and runs.start catches whatever else it raises.
Endings == {"none", "reply", "failed", "stopped", "raised"}

\* Where the thread of a run is.
Places == {"unborn", "begun", "spawned", "waiting", "late", "ended", "saved",
           "told", "over"}

\* The process group of a Hermes run: none yet; alive; its leader killed at the
\* timeout, or ended, while a browser it started holds the pipes; its leader
\* reaped by a stop while a child that ignored SIGTERM holds them; gone.
Procs == {"none", "up", "held", "stray", "gone"}

RunRecord == [conv: Conversations \cup {None}, engine: Engines \cup {"hermes"},
              status: Statuses, at: Places, ending: Endings]
TokenRecord == [stopped: BOOLEAN, proc: Procs, acted: BOOLEAN]

Unborn == [conv |-> None, engine |-> "hermes", status |-> "unborn",
           at |-> "unborn", ending |-> "none"]
NewToken == [stopped |-> FALSE, proc |-> "none", acted |-> FALSE]

RunsInit ==
    /\ registry = [c \in Conversations |-> None]
    /\ run = [r \in Runs |-> Unborn]
    /\ token = [r \in Runs |-> NewToken]

Fresh(r) == run[r].status = "unborn"
Live(r) == run[r].status = "running"
Busy(c) == registry[c] # None /\ Live(registry[c])

---------------------------------------------------------------------------
(* The registry *)

Finished(c) == registry[c] # None /\ ~Live(registry[c])

\* Mutant: a start that trusts the look its request took before.
RegisterAnyway(r, c, e) ==
    /\ registry' = [registry EXCEPT ![c] = r]
    /\ run' = [run EXCEPT ![r] = [conv |-> c, engine |-> e,
                   status |-> "running", at |-> "begun", ending |-> "none"]]
    /\ UNCHANGED token
\* start: finished runs past RETAIN_SECONDS are swept (any of them may be), then
\* a run still going is handed back, or the new run takes the key.
Register(r, c, e) ==
    \E swept \in SUBSET {k \in Conversations : Finished(k)} :
        /\ registry' = [k \in Conversations |->
                          IF k = c /\ ~Busy(c) THEN r
                          ELSE IF k \in swept THEN None ELSE registry[k]]
        /\ run' = IF Busy(c) THEN run
                  ELSE [run EXCEPT ![r] = [conv |-> c, engine |-> e,
                            status |-> "running", at |-> "begun", ending |-> "none"]]
        /\ UNCHANGED token

\* _kill: SIGTERM to the group, wait for its leader, SIGKILL only when the
\* leader is still there.  A child that survives the SIGTERM of a leader that
\* ends is left, and no later signal finds its group.
Killed(r) ==
    IF token[r].proc \notin {"up", "held"} THEN {token[r].proc}
    ELSE {"gone"} \cup (IF token[r].acted THEN {"stray"} ELSE {})

\* Popen has returned, and attach_process has been called: only then does a stop
\* find a process to signal.
Attached(r) == run[r].at \in {"waiting", "late"}

\* stop: sets the token's flag and kills what is attached, if there is a live run.
Stop(c) ==
    /\ IF Busy(c)
       THEN \E p \in IF Attached(registry[c]) THEN Killed(registry[c])
                     ELSE {token[registry[c]].proc} :
                token' = [token EXCEPT ![registry[c]].stopped = TRUE,
                                       ![registry[c]].proc = p]
       ELSE token' = token
    /\ UNCHANGED <<registry, run>>

\* discard, after its stop: the key is dropped whatever became of the run.
Pop(c) ==
    /\ registry' = [registry EXCEPT ![c] = None]
    /\ UNCHANGED <<run, token>>

---------------------------------------------------------------------------
(* The thread of one run, up to the answer of its executor *)

\* Popen of a Hermes run; without the binary the turn has failed.
Launch(r) ==
    /\ run[r].at = "begun" /\ run[r].engine = "hermes" /\ Live(r)
    /\ \/ /\ run' = [run EXCEPT ![r].at = "spawned"]
          /\ token' = [token EXCEPT ![r].proc = "up"]
       \/ /\ run' = [run EXCEPT ![r].at = "ended", ![r].ending = "failed"]
          /\ UNCHANGED token
    /\ UNCHANGED registry

\* Mutant: a stop that came before the process was attached is forgotten.
AttachForgets(r) == {token[r].proc}
\* attach_process: a stop that came before it kills the process at once.
AttachKills(r) == IF token[r].stopped THEN Killed(r) ELSE {token[r].proc}
Attach(r) ==
    /\ run[r].at = "spawned" /\ Live(r)
    /\ \E p \in AttachKills(r) : token' = [token EXCEPT ![r].proc = p]
    /\ run' = [run EXCEPT ![r].at = "waiting"]
    /\ UNCHANGED registry

\* The agent makes its first tool call, which the activity watcher reports; from
\* then on it may have a browser or another child.
Act(r) ==
    /\ run[r].at \in {"spawned", "waiting"} /\ Live(r)
    /\ token[r].proc = "up" /\ ~token[r].acted
    /\ token' = [token EXCEPT ![r].acted = TRUE]
    /\ UNCHANGED <<registry, run>>

\* The agent's leader ends: a child of an agent that acted may keep the pipes.
LeaderEnds(r) == {"gone"} \cup (IF token[r].acted THEN {"held"} ELSE {})

\* The agent ends by itself, or a child that held the pipes does.
Exit(r) ==
    /\ token[r].proc \in {"up", "held", "stray"}
    /\ \E p \in IF token[r].proc = "up" THEN LeaderEnds(r) ELSE {"gone"} :
           token' = [token EXCEPT ![r].proc = p]
    /\ UNCHANGED <<registry, run>>

\* communicate times out: proc.kill ends the leader alone, and the second
\* communicate has no timeout.
Timeout(r) ==
    /\ run[r].at = "waiting" /\ Live(r)
    /\ token[r].proc \in {"up", "held", "stray"}
    /\ run' = [run EXCEPT ![r].at = "late"]
    /\ \E p \in IF token[r].proc = "up" THEN LeaderEnds(r) ELSE {token[r].proc} :
           token' = [token EXCEPT ![r].proc = p]
    /\ UNCHANGED registry

\* communicate returns: a timeout fails the turn before the token is looked at.
Outcome(r) == IF run[r].at = "late" THEN {"failed"}
              ELSE IF token[r].stopped THEN {"stopped"}
              ELSE {"reply", "failed"}
Collect(r) ==
    /\ Attached(r) /\ Live(r) /\ token[r].proc = "gone"
    /\ \E e \in Outcome(r) :
           run' = [run EXCEPT ![r].at = "ended", ![r].ending = e]
    /\ UNCHANGED <<registry, token>>

\* The Agents SDK: no token, no session, no events; what it raises is not an
\* ExecutorError.
SdkReturn(r) ==
    /\ run[r].at = "begun" /\ run[r].engine = "agents_sdk" /\ Live(r)
    /\ \E e \in {"reply", "raised"} :
           run' = [run EXCEPT ![r].at = "ended", ![r].ending = e]
    /\ UNCHANGED <<registry, token>>

\* target: the status the run shows once work() is through.
FinalStatus(r) ==
    CASE run[r].ending = "reply" -> "done"
      [] run[r].ending = "failed" -> "error"
      [] run[r].ending = "stopped" -> "cancelled"
      [] OTHER -> IF token[r].stopped THEN "cancelled" ELSE "error"

Close(r) ==
    /\ run[r].at = "told" \/ (run[r].at = "ended" /\ run[r].ending = "raised")
    /\ Live(r)
    /\ run' = [run EXCEPT ![r].at = "over", ![r].status = FinalStatus(r)]
    /\ UNCHANGED <<registry, token>>

\* The web process restarts: its threads, its registry and its tokens are gone.
\* An agent may run on in its own session, with no one to signal or collect it.
RunsRestart ==
    /\ registry' = [c \in Conversations |-> None]
    /\ run' = [r \in Runs |-> IF Live(r)
                              THEN [run[r] EXCEPT !.status = "lost", !.at = "over"]
                              ELSE run[r]]
    /\ token' = [r \in Runs |-> [token[r] EXCEPT !.proc = "none"]]
=============================================================================
