----------------------------- MODULE LocalNotes -----------------------------
(***************************************************************************)
(* The note-taker pollers, src/pollers/pocket/poller.py and                *)
(* src/pollers/fathom/poller.py: a cursor in time, a query that goes       *)
(* a lookback behind it, and action items that appear some time after the  *)
(* recording they are dated by.  Pocket looks back LOOKBACK_HOURS, and     *)
(* BACKFILL_DAYS the first time; Fathom is the same poller without a       *)
(* lookback, and asks for everything the first time.                       *)
(***************************************************************************)
EXTENDS Integers

CONSTANTS Items,
          Lookback,     \* LOOKBACK_HOURS
          FirstWindow,  \* BACKFILL_DAYS
          MaxTime,      \* bound on the clock
          Never         \* no poll has succeeded yet

ASSUME WindowsAreNatural ==
    Lookback \in Nat /\ FirstWindow \in Nat /\ MaxTime \in Nat
ASSUME NeverIsNoTime == Never \notin Int

VARIABLES taker,       \* whose poller this is
          now,
          item,      \* when each item was recorded, and when it could be read
          key,       \* the API key is stored
          polledAt,  \* the cursor
          since,     \* where the first window of this cursor began
          fetch,     \* the poll under way
          kept       \* items a poll has saved or turned down

noteVars == <<taker, now, item, key, polledAt, since, fetch, kept>>

Takers == {"pocket", "fathom"}
Time == 0 .. MaxTime
ItemRecord == [recorded: Time \cup {Never}, visible: Time \cup {Never}]
Fetch == [at: {"idle", "ask", "save"}, began: Time, from: Int, left: SUBSET Items]
IdleFetch == [at |-> "idle", began |-> 0, from |-> 0, left |-> {}]

NotesInit ==
    /\ taker \in Takers
    /\ now = 0
    /\ item = [i \in Items |-> [recorded |-> Never, visible |-> Never]]
    /\ key = FALSE
    /\ polledAt = Never /\ since = 0
    /\ fetch = IdleFetch
    /\ kept = {}

Tick ==
    /\ now < MaxTime /\ now' = now + 1
    /\ UNCHANGED <<taker, item, key, polledAt, since, fetch, kept>>
Record(i) ==
    /\ item[i].recorded = Never
    /\ item' = [item EXCEPT ![i].recorded = now]
    /\ UNCHANGED <<taker, now, key, polledAt, since, fetch, kept>>
Publish(i) ==
    /\ item[i].recorded # Never /\ item[i].visible = Never
    /\ item' = [item EXCEPT ![i].visible = now]
    /\ UNCHANGED <<taker, now, key, polledAt, since, fetch, kept>>

\* The settings route.  Disconnecting leaves the cursor where it is.
SetKey(there) ==
    /\ key' = there
    /\ UNCHANGED <<taker, now, item, polledAt, since, fetch, kept>>

\* The window of a poll that begins at time t.
FathomWindow == IF polledAt = Never THEN 0 ELSE polledAt
PocketWindow(t) == IF polledAt = Never THEN t - FirstWindow ELSE polledAt - Lookback
Window(t) == IF taker = "fathom" THEN FathomWindow ELSE PocketWindow(t)

\* The time of the poll is taken before the query.
BeginPoll ==
    /\ fetch.at = "idle" /\ key
    /\ fetch' = [at |-> "ask", began |-> now, from |-> Window(now), left |-> {}]
    /\ UNCHANGED <<taker, now, item, key, polledAt, since, kept>>

\* The provider dates an item by its recording.
Ask ==
    /\ fetch.at = "ask"
    /\ fetch' = [fetch EXCEPT !.at = "save",
                   !.left = {i \in Items : /\ item[i].visible # Never
                                           /\ item[i].recorded >= fetch.from}]
    /\ UNCHANGED <<taker, now, item, key, polledAt, since, kept>>

\* Saved, known already, closed, or someone else's.
Keep(i) ==
    /\ fetch.at = "save" /\ i \in fetch.left
    /\ fetch' = [fetch EXCEPT !.left = fetch.left \ {i}]
    /\ kept' = kept \cup {i}
    /\ UNCHANGED <<taker, now, item, key, polledAt, since>>

\* The cursor moves once every item is through.
EndPoll ==
    /\ fetch.at = "save" /\ fetch.left = {}
    /\ polledAt' = fetch.began
    /\ since' = IF polledAt = Never THEN fetch.from ELSE since
    /\ fetch' = IdleFetch
    /\ UNCHANGED <<taker, now, item, key, kept>>

\* "Raises on failure ... the cursor stays put, so the next cycle asks for the same
\* window again"; or the process dies.
PollRaises ==
    /\ fetch.at # "idle"
    /\ fetch' = IdleFetch
    /\ UNCHANGED <<taker, now, item, key, polledAt, since, kept>>

NotesNext ==
    \/ Tick
    \/ \E i \in Items : Record(i) \/ Publish(i) \/ Keep(i)
    \/ \E there \in BOOLEAN : SetKey(there)
    \/ BeginPoll \/ Ask \/ EndPoll \/ PollRaises

NotesSpec == NotesInit /\ [][NotesNext]_noteVars

---------------------------------------------------------------------------
NotesTypeOK ==
    /\ taker \in Takers /\ now \in Time
    /\ item \in [Items -> ItemRecord]
    /\ key \in BOOLEAN
    /\ polledAt \in Time \cup {Never} /\ since \in Int
    /\ fetch \in Fetch
    /\ kept \in SUBSET Items

\* An item that appeared within the lookback of its recording is not missed: when the
\* cursor has passed its appearance, a poll has had it, however long the pauses
\* between polls and however many of them raised.
LookbackOf == IF taker = "fathom" THEN 0 ELSE Lookback
Timely(i) ==
    /\ item[i].visible # Never /\ item[i].recorded >= since
    /\ item[i].visible - item[i].recorded <= LookbackOf
ItemIsCaught ==
    polledAt # Never =>
        \A i \in Items : Timely(i) /\ item[i].visible < polledAt => i \in kept
=============================================================================
