----------------------------- MODULE LocalChrome -----------------------------
(***************************************************************************)
(* The two browsers of a Hermes turn (src/agent/agent_browser.py and       *)
(* chrome_profile.py, called by _run of hermes_runner.py), with both of    *)
(* their options on.  The user's own Chrome is closed while its profile is *)
(* copied, and owed back; the agent's Chrome runs on the copy and outlives *)
(* the turn, so that the next one attaches to it.  Turns of several todos  *)
(* run at once, in threads of the web process.                             *)
(***************************************************************************)
CONSTANT Turns

VARIABLES chrome,     \* the user's Chrome; "asked": it was told to quit and has not yet
          excused,    \* ghost: its user closed it, it quit after the grace window or could
                      \* not be relaunched, or the web process died owing it
          onCopy,     \* the Chrome on the profile copy
          port,       \* DevToolsActivePort: it names no Chrome, a dead or the live one
          marker,     \* .hermes-snapshot-complete
          mistaken,   \* ghost: two turns looked for a browser at once, or a slow one was
                      \* given up
          turn

chromeVars == <<chrome, excused, onCopy, port, marker, mistaken, turn>>

\* site: who called close_for_run.  owes: Chrome was closed and is to be restored.
\* mine: Hermes launched the Chrome on the copy and ends it with the turn.
ChromeTurn == [at: {"off", "looks", "refreshes", "closes", "grace", "copies", "launches", "waits",
              "works", "overlays", "ends"},
         site: {"refresh", "run"}, owes: BOOLEAN, mine: BOOLEAN]
NoTurnYet == [at |-> "off", site |-> "run", owes |-> FALSE, mine |-> FALSE]

ChromeInit ==
    /\ chrome \in {"open", "closed"} /\ excused = (chrome = "closed")
    /\ onCopy = "none" /\ port = "none"
    /\ marker = FALSE /\ mistaken = FALSE
    /\ turn = [t \in Turns |-> NoTurnYet]

Steps(t, to) == turn' = [turn EXCEPT ![t].at = to]
\* What a run that could not have a browser does before it goes on (_run).
FallsBack(t) == turn' = [turn EXCEPT ![t].at = "closes", ![t].site = "run", ![t].owes = FALSE]
UserUntouched == UNCHANGED <<chrome, excused>>
CopyUntouched == UNCHANGED <<onCopy, port, marker>>

\* is_alive: the port file names a browser, and that browser answers under it.
IsAlive == port = "live" /\ onCopy = "up"
\* Between the look for a browser and the browser.
Looking(t) == turn[t].at \notin {"off", "works", "ends"}
Meets(t) == mistaken' = (mistaken \/ \E other \in Turns \ {t} : Looking(other))

---------------------------------------------------------------------------
(* ensure_running *)

BeginTurn(t) ==
    /\ turn[t].at = "off" /\ Steps(t, "looks")
    /\ Meets(t) /\ UserUntouched /\ CopyUntouched

EnsureRunning(t) ==
    /\ turn[t].at = "looks" /\ UserUntouched /\ CopyUntouched
    /\ \/ IsAlive /\ Steps(t, "works") /\ UNCHANGED mistaken
       \* the answer takes longer than the two seconds it is given
       \/ /\ Steps(t, IF marker THEN "launches" ELSE "refreshes")
          /\ mistaken' = (mistaken \/ IsAlive)

\* refresh_snapshot: "a browser is running on the copy; not overlaying it".
RefreshSnapshot(t) ==
    /\ turn[t].at = "refreshes" /\ UserUntouched /\ CopyUntouched /\ UNCHANGED mistaken
    /\ IF IsAlive THEN FallsBack(t)
       ELSE turn' = [turn EXCEPT ![t].at = "closes", ![t].site = "refresh"]

\* snapshot_real_profile, which copies nothing while the user's Chrome holds its locks.
\* fault: a copy that failed gives nothing back
SnapshotOwing(t) ==
    /\ turn[t].at = "copies" /\ UNCHANGED <<chrome, excused, onCopy, port, mistaken>>
    /\ \/ chrome = "closed" /\ marker' = TRUE /\ Steps(t, "launches")
       \/ marker' = FALSE /\ FallsBack(t)
Relaunched(owed) ==
    IF owed THEN \/ chrome' = "open" /\ excused' = FALSE
                 \/ UNCHANGED chrome /\ excused' = TRUE   \* it could not be relaunched
    ELSE UserUntouched
\* open -n only raises a Chrome that is there.
Restore(t) == Relaunched(turn[t].owes /\ chrome = "closed")
Snapshot(t) ==
    /\ turn[t].at = "copies" /\ UNCHANGED <<onCopy, port, mistaken>>
    /\ Restore(t)
    /\ \/ /\ chrome = "closed" /\ marker' = TRUE
          /\ turn' = [turn EXCEPT ![t].at = "launches", ![t].owes = FALSE]
       \/ marker' = FALSE /\ FallsBack(t)

\* launch: a second Chrome on a profile hands over to the first, and exits.
Launch(t) ==
    /\ turn[t].at = "launches" /\ Steps(t, "waits")
    /\ port' = "none" /\ onCopy' = IF onCopy = "none" THEN "starting" ELSE onCopy
    /\ UserUntouched /\ UNCHANGED <<marker, mistaken>>
WaitForPort(t) ==
    /\ turn[t].at = "waits" /\ UserUntouched /\ CopyUntouched
    /\ \/ IsAlive /\ Steps(t, "works") /\ UNCHANGED mistaken
       \/ onCopy = "none" /\ FallsBack(t) /\ UNCHANGED mistaken   \* it exited
       \* the process only handed over, or 30 seconds are over
       \/ ~IsAlive /\ onCopy # "none" /\ FallsBack(t) /\ mistaken' = TRUE

---------------------------------------------------------------------------
(* close_for_run *)

\* Where its caller goes on.
GoesOn(t, closed) ==
    turn' = [turn EXCEPT ![t].owes = closed,
                         ![t].at = IF turn[t].site = "refresh" THEN "copies" ELSE "works"]

CloseForRun(t) ==
    /\ turn[t].at = "closes" /\ CopyUntouched /\ UNCHANGED mistaken
    /\ \/ chrome = "closed" /\ GoesOn(t, FALSE) /\ UserUntouched
       \/ chrome # "closed" /\ chrome' = "asked" /\ Steps(t, "grace") /\ UNCHANGED excused
       \* osascript is cut off, its request is not
       \/ chrome # "closed" /\ chrome' = "asked" /\ GoesOn(t, FALSE) /\ excused' = TRUE
\* The last look may be half a second before the deadline, and Chrome quit in it.
GraceEnds(t) ==
    /\ turn[t].at = "grace" /\ UNCHANGED <<chrome, mistaken>> /\ CopyUntouched
    /\ \/ chrome = "closed" /\ GoesOn(t, TRUE) /\ UNCHANGED excused
       \/ GoesOn(t, FALSE) /\ excused' = TRUE

---------------------------------------------------------------------------
(* The turn *)

\* Hermes, when its agent first needs a browser: it attaches to the one that answers, or
\* overlays the copy and launches one of its own.
HermesLooks(t) ==
    /\ turn[t].at = "works" /\ ~turn[t].mine /\ ~IsAlive
    /\ Steps(t, "overlays") /\ Meets(t) /\ UserUntouched /\ CopyUntouched
HermesLaunches(t) ==
    /\ turn[t].at = "overlays" /\ UserUntouched /\ UNCHANGED mistaken
    /\ \/ /\ chrome = "closed" /\ onCopy = "none"
          /\ marker' = TRUE /\ onCopy' = "up" /\ port' = "live"
          /\ turn' = [turn EXCEPT ![t].at = "works", ![t].mine = TRUE]
       \/ marker' = FALSE /\ UNCHANGED <<onCopy, port>> /\ Steps(t, "works")

\* A reply, a failure, a stop, the timeout.
EndTurn(t) ==
    /\ turn[t].at \in {"works", "overlays"} /\ Steps(t, "ends")
    /\ UserUntouched /\ UNCHANGED <<marker, mistaken>>
    /\ IF turn[t].mine /\ onCopy # "none" THEN onCopy' = "none" /\ port' = "dead"
       ELSE UNCHANGED <<onCopy, port>>
HandBack(t) ==
    /\ turn[t].at = "ends" /\ turn' = [turn EXCEPT ![t] = NoTurnYet]
    /\ Restore(t) /\ CopyUntouched /\ UNCHANGED mistaken

---------------------------------------------------------------------------
(* The browsers and their user *)

OpenOrClose ==
    /\ \/ chrome # "open" /\ chrome' = "open" /\ excused' = FALSE     \* or keeps it open
       \/ chrome # "closed" /\ chrome' = "closed" /\ excused' = TRUE
    /\ CopyUntouched /\ UNCHANGED <<mistaken, turn>>
ChromeQuits ==
    /\ chrome = "asked" /\ chrome' = "closed" /\ UNCHANGED <<excused, mistaken, turn>>
    /\ CopyUntouched
CopyStarts ==
    /\ onCopy = "starting" /\ onCopy' = "up" /\ port' = "live"
    /\ UserUntouched /\ UNCHANGED <<marker, mistaken, turn>>
CopyDies ==
    /\ onCopy # "none" /\ onCopy' = "none" /\ port' = IF port = "live" THEN "dead" ELSE port
    /\ turn' = [t \in Turns |-> [turn[t] EXCEPT !.mine = FALSE]]
    /\ UserUntouched /\ UNCHANGED <<marker, mistaken>>
\* The web process, with its threads; both browsers live on.
WebDies ==
    /\ \E t \in Turns : turn[t].at # "off"
    /\ excused' = (excused \/ \E t \in Turns : turn[t].owes \/ turn[t].at = "grace")
    /\ mistaken' = (mistaken \/ \E t \in Turns : Looking(t))
    /\ turn' = [t \in Turns |-> NoTurnYet]
    /\ UNCHANGED chrome /\ CopyUntouched

ChromeNext ==
    \/ \E t \in Turns : BeginTurn(t) \/ EnsureRunning(t) \/ RefreshSnapshot(t) \/ Snapshot(t)
                        \/ Launch(t) \/ WaitForPort(t) \/ CloseForRun(t) \/ GraceEnds(t)
                        \/ HermesLooks(t) \/ HermesLaunches(t) \/ EndTurn(t) \/ HandBack(t)
    \/ OpenOrClose \/ ChromeQuits \/ CopyStarts \/ CopyDies \/ WebDies

ChromeSpec == ChromeInit /\ [][ChromeNext]_chromeVars

---------------------------------------------------------------------------
(* Properties *)

ChromeTypeOK ==
    /\ chrome \in {"open", "asked", "closed"} /\ onCopy \in {"none", "starting", "up"}
    /\ port \in {"none", "dead", "live"} /\ turn \in [Turns -> ChromeTurn]
    /\ excused \in BOOLEAN /\ marker \in BOOLEAN /\ mistaken \in BOOLEAN

\* "It goes back": a Chrome that a turn closed is open again or owed by a turn that is
\* still on, whatever the turns do to it and to each other.
ChromeComesBack ==
    chrome = "closed" /\ ~excused => \E t \in Turns : turn[t].owes \/ turn[t].at = "grace"

\* The copy is not written under a Chrome that runs on it, unless one was not seen.
CopyIsWhole ==
    ~mistaken => \A t \in Turns : turn[t].at \in {"copies", "overlays"} => onCopy = "none"

\* A turn leaves both browsers as it may: the user's open, the agent's profile whole.
BrowsersAreLeft == ChromeComesBack /\ CopyIsWhole
=============================================================================
