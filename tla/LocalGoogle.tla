------------------------------ MODULE LocalGoogle ------------------------------
(***************************************************************************)
(* The Google accounts of a person of the local app: the rows that consent *)
(* and Settings write (src/app.py, src/auth.py, src/db.py), the refresh    *)
(* that the poller and the tools of the agent make with what they read     *)
(* (src/pollers/gmail/auth.py), and the choice of the account a tool acts  *)
(* on (src/agent/google_mcp/services.py).                                  *)
(***************************************************************************)
EXTENDS Integers, Sequences, FiniteSets

LOCAL INSTANCE Functions

CONSTANTS Mailboxes,
          NoMailbox,
          MaxConsents     \* bound on the consents given in all

ASSUME NoMailboxIsNone == NoMailbox \notin Mailboxes
ASSUME ConsentsAreCounted == MaxConsents \in Nat

VARIABLES
    credentials,    \* of each row of source_connections
    listed,         \* the rows there are, oldest connection first
    google,         \* external: the last consent to each mailbox, and the last that is dead
    refresh,        \* a caller of get_google_credentials, between its read and its write
    loaded,         \* Services: what the server of a run keeps of each account
    bound,          \* the account of the run's todo
    toolCall,       \* the call the agent waits for
    wanted,         \* ghost: mailboxes the person has connected
    overtaken       \* ghost: a refresh from before the person's last word has written

googleVars == <<credentials, listed, google, refresh, loaded, bound, toolCall, wanted, overtaken>>
runVars == <<loaded, bound, toolCall>>

\* number: which consent the token is from; agent: it carries the scopes of the tools.
Consent == [number: 0 .. MaxConsents, agent: BOOLEAN]
NoConsent == [number |-> 0, agent |-> FALSE]
Callers == {"poller", "tool"}
\* late: ghost, the person connected or disconnected the mailbox meanwhile.
Refresh == [at: {"idle", "asked", "renewed", "refused"}, mailbox: Mailboxes \cup {NoMailbox},
            held: Consent, late: BOOLEAN]
Resting == [at |-> "idle", mailbox |-> NoMailbox, held |-> NoConsent, late |-> FALSE]
\* acting: the tool writes, so it asks for a scope of the agent.
ToolCall == [at: {"none", "resolved", "acts"}, mailbox: Mailboxes \cup {NoMailbox},
             acting: BOOLEAN, late: BOOLEAN]
NoToolCall == [at |-> "none", mailbox |-> NoMailbox, acting |-> FALSE, late |-> FALSE]

Consents == FoldFunction(+, 0, [a \in Mailboxes |-> google[a].last.number])
Connected == {listed[i] : i \in DOMAIN listed}
\* The other rows, in their order.
Without(as) ==
    LET kept == {i \in DOMAIN listed : listed[i] \notin as}
        order == CHOOSE f \in [1 .. Cardinality(kept) -> kept] :
                    /\ {f[k] : k \in DOMAIN f} = kept
                    /\ \A j, k \in DOMAIN f : j < k => f[j] < f[k]
    IN  [k \in DOMAIN order |-> listed[order[k]]]

GoogleInit ==
    /\ credentials = [a \in Mailboxes |-> NoConsent] /\ listed = <<>>
    /\ google = [a \in Mailboxes |-> [last |-> NoConsent, dead |-> 0]]
    /\ refresh = [c \in Callers |-> Resting]
    /\ loaded = [a \in Mailboxes |-> NoConsent]
    /\ bound \in Mailboxes \cup {NoMailbox} /\ toolCall = NoToolCall
    /\ wanted = {} /\ overtaken = {}

---------------------------------------------------------------------------
(* The rows *)

\* set_source_credentials: the row of a mailbox keeps its place.
SetSourceCredentials(a, consent) ==
    /\ credentials' = [credentials EXCEPT ![a] = consent]
    /\ listed' = IF a \in Connected THEN listed ELSE Append(listed, a)
\* clear_source_connection
ClearSourceConnection(as) ==
    /\ credentials' = [a \in Mailboxes |-> IF a \in as THEN NoConsent ELSE credentials[a]]
    /\ listed' = Without(as)

\* What is under way for these mailboxes is from before the person's word.
IsOvertaken(as) ==
    /\ refresh' = [c \in Callers |-> IF refresh[c].mailbox \in as
                                     THEN [refresh[c] EXCEPT !.late = TRUE] ELSE refresh[c]]
    /\ toolCall' = IF toolCall.mailbox \in as THEN [toolCall EXCEPT !.late = TRUE] ELSE toolCall
    /\ overtaken' = overtaken \ as

\* gmail_callback, and complete_login with an account that grants its mail: Google adds
\* the scopes to those it has granted before.
GmailCallback(a, agent) ==
    /\ Consents < MaxConsents
    /\ LET before == google[a]
           consent == [number |-> before.last.number + 1,
                       agent |-> agent \/ (before.last.agent /\ before.last.number > before.dead)]
       IN /\ google' = [google EXCEPT ![a].last = consent]
          /\ SetSourceCredentials(a, consent)
    /\ wanted' = wanted \cup {a}
    /\ IsOvertaken({a})
    /\ UNCHANGED <<loaded, bound>>

\* update_source_settings: one mailbox, or all of them.
DisconnectGmail(as) ==
    /\ ClearSourceConnection(as)
    /\ wanted' = wanted \ as
    /\ IsOvertaken(as)
    /\ UNCHANGED <<google, loaded, bound>>

\* The person takes the access back at Google, or the seven days are over.
GoogleRevokes(a) ==
    /\ google[a].dead < google[a].last.number
    /\ google' = [google EXCEPT ![a].dead = google[a].last.number]
    /\ UNCHANGED <<credentials, listed, refresh, runVars, wanted, overtaken>>

---------------------------------------------------------------------------
(* get_google_credentials *)

\* The row is read; a token that is still good is used, an old one is renewed first.
StartRefresh(c, a) ==
    refresh' = [refresh EXCEPT ![c] = [at |-> "asked", mailbox |-> a, held |-> credentials[a],
                                       late |-> FALSE]]

PollMailbox(a) ==
    /\ refresh["poller"].at = "idle" /\ a \in Connected
    /\ StartRefresh("poller", a)
    /\ UNCHANGED <<credentials, listed, google, runVars, wanted, overtaken>>

GoogleAnswers(c) ==
    /\ refresh[c].at = "asked"
    /\ refresh' = [refresh EXCEPT ![c].at =
                      IF refresh[c].held.number > google[refresh[c].mailbox].dead
                      THEN "renewed" ELSE "refused"]
    /\ UNCHANGED <<credentials, listed, google, runVars, wanted, overtaken>>

\* Google could not be reached: nothing is written.
RefreshFails(c) ==
    /\ refresh[c].at = "asked"
    /\ refresh' = [refresh EXCEPT ![c] = Resting]
    /\ toolCall' = IF c = "tool" THEN NoToolCall ELSE toolCall
    /\ UNCHANGED <<credentials, listed, google, loaded, bound, wanted, overtaken>>

Overtakes(c) ==
    overtaken' = IF refresh[c].late THEN overtaken \cup {refresh[c].mailbox} ELSE overtaken

\* The tool keeps what it has loaded.
Renewed(c) ==
    /\ refresh[c].at = "renewed"
    /\ SetSourceCredentials(refresh[c].mailbox, refresh[c].held)
    /\ Overtakes(c)
    /\ loaded' = IF c = "tool" THEN [loaded EXCEPT ![refresh[c].mailbox] = refresh[c].held]
                 ELSE loaded
    /\ refresh' = [refresh EXCEPT ![c] = Resting]
    /\ UNCHANGED <<google, bound, toolCall, wanted>>

\* Mutant: the account that was asked for, none for a todo without one, is cleared.
RevokedAsAsked(a) == IF bound = NoMailbox THEN Mailboxes ELSE {a}
\* "revocation clears only this row"
Revoked(a) == {a}

Refused(c) ==
    /\ refresh[c].at = "refused"
    /\ ClearSourceConnection(Revoked(refresh[c].mailbox))
    /\ Overtakes(c)
    /\ refresh' = [refresh EXCEPT ![c] = Resting]
    /\ toolCall' = IF c = "tool" THEN NoToolCall ELSE toolCall
    /\ UNCHANGED <<google, loaded, bound, wanted>>

---------------------------------------------------------------------------
(* The tools of a run *)

\* A run has a server of its own, with nothing loaded.
RunStarts ==
    /\ toolCall.at = "none"
    /\ loaded' = [a \in Mailboxes |-> NoConsent]
    /\ UNCHANGED <<credentials, listed, google, refresh, bound, toolCall, wanted, overtaken>>

\* resolve_account: the one that is asked for, the one of the todo, the first.
Resolved(account) ==
    IF account # NoMailbox THEN account
    ELSE IF bound \in Connected THEN bound ELSE listed[1]

CallTool(account, acting) ==
    /\ toolCall.at = "none" /\ listed # <<>>
    /\ account \in Connected \cup {NoMailbox}
    /\ toolCall' = [at |-> "resolved", mailbox |-> Resolved(account), acting |-> acting,
                    late |-> FALSE]
    /\ UNCHANGED <<credentials, listed, google, refresh, loaded, bound, wanted, overtaken>>

IsLoaded(a) == loaded[a] # NoConsent

\* _load, the first time: the row may be gone by now.
Load ==
    /\ toolCall.at = "resolved" /\ ~IsLoaded(toolCall.mailbox) /\ refresh["tool"].at = "idle"
    /\ LET a == toolCall.mailbox IN
       IF a \notin Connected THEN toolCall' = NoToolCall /\ UNCHANGED <<refresh, loaded>>
       ELSE \/ StartRefresh("tool", a) /\ UNCHANGED <<toolCall, loaded>>
            \/ loaded' = [loaded EXCEPT ![a] = credentials[a]] /\ UNCHANGED <<toolCall, refresh>>
    /\ UNCHANGED <<credentials, listed, google, bound, wanted, overtaken>>

\* require
Require ==
    /\ toolCall.at = "resolved" /\ IsLoaded(toolCall.mailbox)
    /\ toolCall' = IF toolCall.acting /\ ~loaded[toolCall.mailbox].agent THEN NoToolCall
                   ELSE [toolCall EXCEPT !.at = "acts"]
    /\ UNCHANGED <<credentials, listed, google, refresh, loaded, bound, wanted, overtaken>>

ToolReturns ==
    /\ toolCall.at = "acts"
    /\ toolCall' = NoToolCall
    /\ UNCHANGED <<credentials, listed, google, refresh, loaded, bound, wanted, overtaken>>

GoogleNext ==
    \/ \E a \in Mailboxes :
          \/ \E agent \in BOOLEAN : GmailCallback(a, agent)
          \/ DisconnectGmail({a}) \/ GoogleRevokes(a) \/ PollMailbox(a)
    \/ DisconnectGmail(Mailboxes)
    \/ \E c \in Callers : GoogleAnswers(c) \/ RefreshFails(c) \/ Renewed(c) \/ Refused(c)
    \/ \E account \in Mailboxes \cup {NoMailbox}, acting \in BOOLEAN : CallTool(account, acting)
    \/ RunStarts \/ Load \/ Require \/ ToolReturns

GoogleSpec == GoogleInit /\ [][GoogleNext]_googleVars

---------------------------------------------------------------------------
(* Properties *)

GoogleTypeOK ==
    /\ credentials \in [Mailboxes -> Consent] /\ Connected \subseteq Mailboxes
    /\ google \in [Mailboxes -> [last: Consent, dead: 0 .. MaxConsents]]
    /\ refresh \in [Callers -> Refresh]
    /\ loaded \in [Mailboxes -> Consent] /\ bound \in Mailboxes \cup {NoMailbox}
    /\ toolCall \in ToolCall
    /\ wanted \subseteq Mailboxes /\ overtaken \subseteq Mailboxes

\* A row is there, with the last consent, exactly when the person has connected the
\* mailbox and Google has not taken the access back; but for one that a refresh from
\* before the person's word has written.
RowFollowsPerson ==
    \A a \in Mailboxes \ overtaken :
        /\ a \in Connected => a \in wanted /\ credentials[a] = google[a].last
        /\ a \in wanted \ Connected => google[a].last.number = google[a].dead

\* A tool acts on a mailbox that is connected, unless it went while the call was on.
ToolStaysConnected ==
    toolCall.at = "acts" => toolCall.mailbox \in Connected \/ toolCall.late
                            \/ google[toolCall.mailbox].dead > 0

\* What Settings says of an account is what the agent and the poller may do with it.
AccountsHold == RowFollowsPerson /\ ToolStaysConnected
=============================================================================
