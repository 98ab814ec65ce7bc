---------------------------- MODULE LocalPollers ----------------------------
(***************************************************************************)
(* The poller process, main() of src/main.py: the sources the server has   *)
(* enabled, each isolated from the errors of the others.  The sources      *)
(* share no state but the table of todos, so a server is studied with any  *)
(* of the sets of sources in Servers.                                      *)
(***************************************************************************)
EXTENDS LocalMail, LocalNotes, LocalSystem, LocalDigest

CONSTANT Servers
ASSUME ServersRun ==
    Servers \subseteq SUBSET {"gmail", "fathom", "pocket", "system", "morning_digest"}

VARIABLE enabled   \* enabled_sources()

pollVars == <<mailVars, noteVars, systemVars, digestVars, enabled>>

\* The note taker that is studied is the one that runs.
PollInit ==
    /\ enabled \in Servers
    /\ MailInit /\ NotesInit /\ SystemInit /\ DigestInit
    /\ taker \in enabled \/ (taker = "pocket" /\ enabled \cap Takers = {})
    /\ "system" \notin enabled => machine = CHOOSE m \in Machines : TRUE

PollNext ==
    \/ "gmail" \in enabled /\ MailNext /\ UNCHANGED <<noteVars, systemVars, digestVars, enabled>>
    \/ taker \in enabled /\ NotesNext /\ UNCHANGED <<mailVars, systemVars, digestVars, enabled>>
    \/ /\ "system" \in enabled /\ SystemNext
       /\ UNCHANGED <<mailVars, noteVars, digestVars, enabled>>
    \/ /\ "morning_digest" \in enabled /\ DigestNext
       /\ UNCHANGED <<mailVars, noteVars, systemVars, enabled>>

PollSpec == PollInit /\ [][PollNext]_pollVars

\* Everything a source's variables may hold.
PollTypeOK == LocalMailTypeOK /\ NotesTypeOK /\ SystemTypeOK /\ DigestTypeOK

\* A source turns everything that came to it into a verdict: mail of a connected account
\* (pollers/gmail/poller.py:287), tasks of the note taker (pollers/pocket/poller.py:60), what
\* the model found in a snapshot (pollers/system/poller.py:34).
NothingIsMissed == MailIsHandled /\ ItemIsCaught /\ SnapshotIsHeeded
=============================================================================
