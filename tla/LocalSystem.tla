----------------------------- MODULE LocalSystem -----------------------------
(***************************************************************************)
(* The poller of the machine itself, src/pollers/system/: a snapshot of    *)
(* disk, folders and memory is hashed, the model is asked what it calls    *)
(* for unless the last snapshot was the same, and what it names is saved.  *)
(* The hash and the time of the poll are two writes, each a commit of its  *)
(* own.  What is in a snapshot is the state of the machine and a sample of *)
(* its file names, drawn anew every time.                                  *)
(***************************************************************************)
EXTENDS Integers

CONSTANTS Machines, Samples,
          Issues,         \* what the model may name
          MinInterval,    \* MIN_INTERVAL_SECONDS
          LastTime,       \* bound on the clock
          NoSnapshot      \* no snapshot was hashed yet

ASSUME SystemBounds == MinInterval \in Nat /\ LastTime \in Nat
ASSUME NoSnapshotIsNone == NoSnapshot \notin Machines \X Samples

VARIABLES clock, machine,
          survey,     \* the poll under way
          hashed,     \* system_snapshot_hash, by the snapshot it is of
          surveyed,   \* system_last_polled_at, below zero before the first
          due         \* ghost: what the last answer about each snapshot named and no
                      \* verdict has reached

systemVars == <<clock, machine, survey, hashed, surveyed, due>>

Snapshots == Machines \X Samples
Survey == [at: {"idle", "ask", "save", "stamp"}, of: Snapshots \cup {NoSnapshot},
           began: 0 .. LastTime, left: SUBSET Issues]
IdleSurvey == [at |-> "idle", of |-> NoSnapshot, began |-> 0, left |-> {}]

SystemInit ==
    /\ clock = 0 /\ machine \in Machines
    /\ survey = IdleSurvey
    /\ hashed = NoSnapshot /\ surveyed = 0 - MinInterval
    /\ due = [s \in Snapshots |-> {}]

ClockTicks ==
    /\ clock < LastTime /\ clock' = clock + 1
    /\ UNCHANGED <<machine, survey, hashed, surveyed, due>>
MachineChanges ==
    /\ machine' \in Machines
    /\ UNCHANGED <<clock, survey, hashed, surveyed, due>>

\* _folder_snapshot, _disk_snapshot and _memory_snapshot.
Build == {machine} \X Samples

\* Not sooner than MinInterval after the last; the same snapshot is not asked about again.
LookAround ==
    /\ survey.at = "idle" /\ clock - surveyed >= MinInterval
    /\ \E s \in Build :
          IF s = hashed THEN surveyed' = clock /\ UNCHANGED survey
          ELSE /\ survey' = [at |-> "ask", of |-> s, began |-> clock, left |-> {}]
               /\ UNCHANGED surveyed
    /\ UNCHANGED <<clock, machine, hashed, due>>

\* generate_todos: an answer of the model, none if the call fails.
GenerateTodos ==
    /\ survey.at = "ask"
    /\ \E answer \in SUBSET Issues :
          /\ survey' = [survey EXCEPT !.at = "save", !.left = answer]
          /\ due' = [due EXCEPT ![survey.of] = answer]
    /\ UNCHANGED <<clock, machine, hashed, surveyed>>

\* Saved, or turned down for a todo like it.
SaveSystemTodo(i) ==
    /\ survey.at = "save" /\ i \in survey.left
    /\ survey' = [survey EXCEPT !.left = @ \ {i}]
    /\ due' = [due EXCEPT ![survey.of] = @ \ {i}]
    /\ UNCHANGED <<clock, machine, hashed, surveyed>>

\* fault: the hash is kept before what was named is saved
HashSnapshotFirst ==
    /\ survey.at = "save"
    /\ hashed' = survey.of
    /\ survey' = [survey EXCEPT !.at = "stamp"]
    /\ UNCHANGED <<clock, machine, surveyed, due>>
HashSnapshot ==
    /\ survey.at = "save" /\ survey.left = {}
    /\ hashed' = survey.of
    /\ survey' = [survey EXCEPT !.at = "stamp"]
    /\ UNCHANGED <<clock, machine, surveyed, due>>

StampSurvey ==
    /\ survey.at = "stamp"
    /\ surveyed' = survey.began
    /\ survey' = IdleSurvey
    /\ UNCHANGED <<clock, machine, hashed, due>>

\* Saving raises and main() logs it, or the process dies.
SurveyEnds ==
    /\ survey.at # "idle"
    /\ survey' = IdleSurvey
    /\ UNCHANGED <<clock, machine, hashed, surveyed, due>>

SystemNext ==
    \/ ClockTicks \/ MachineChanges \/ LookAround \/ GenerateTodos
    \/ \E i \in Issues : SaveSystemTodo(i)
    \/ HashSnapshot \/ StampSurvey \/ SurveyEnds

SystemSpec == SystemInit /\ [][SystemNext]_systemVars

---------------------------------------------------------------------------
SystemTypeOK ==
    /\ clock \in 0 .. LastTime /\ machine \in Machines
    /\ survey \in Survey
    /\ hashed \in Snapshots \cup {NoSnapshot} /\ surveyed \in Int
    /\ due \in [Snapshots -> SUBSET Issues]

\* A snapshot that will not be asked about again has had its answer worked through:
\* everything the model named for it was saved or turned down, wherever a poll ended.
SnapshotIsHeeded == hashed # NoSnapshot => due[hashed] = {}
=============================================================================
