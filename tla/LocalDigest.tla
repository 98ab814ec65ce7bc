----------------------------- MODULE LocalDigest -----------------------------
(***************************************************************************)
(* The morning digest of one user, poll of src/pollers/digest/poller.py:   *)
(* one mail a day once the hour has come, or, for a user without Gmail, a  *)
(* bounded number of prompts to connect it.  The day a poll began is kept  *)
(* in a local; the mail goes out before anything is recorded.              *)
(***************************************************************************)
EXTENDS Naturals, FiniteSets

CONSTANTS MaxDay,          \* bound on the days
          PromptMax,       \* CONNECT_PROMPT_MAX
          MaxSlips     \* bound on sends that leave no record

ASSUME DigestBounds ==
    MaxDay \in Nat \ {0} /\ PromptMax \in Nat /\ MaxSlips \in Nat

VARIABLES day, hourCame, gmail, lastSent, prompts, digest, sent, prompted, slips

digestVars == <<day, hourCame, gmail, lastSent, prompts, digest, sent, prompted,
                slips>>

Days == 1 .. MaxDay
Digest == [at: {"idle", "send", "record", "count"}, today: Days,
           prompt: BOOLEAN, prompts: Nat]
IdleDigest == [at |-> "idle", today |-> 1, prompt |-> FALSE, prompts |-> 0]

DigestInit ==
    /\ day = 1 /\ hourCame = FALSE
    /\ gmail = FALSE
    /\ lastSent = 0 /\ prompts = 0
    /\ digest = IdleDigest
    /\ sent = [d \in Days |-> 0]
    /\ prompted = 0 /\ slips = 0

HourComes ==
    /\ ~hourCame /\ hourCame' = TRUE
    /\ UNCHANGED <<day, gmail, lastSent, prompts, digest, sent, prompted, slips>>
Midnight ==
    /\ day < MaxDay
    /\ day' = day + 1 /\ hourCame' = FALSE
    /\ UNCHANGED <<gmail, lastSent, prompts, digest, sent, prompted, slips>>
SetGmail ==
    /\ gmail' = ~gmail
    /\ UNCHANGED <<day, hourCame, lastSent, prompts, digest, sent, prompted, slips>>

\* Not before the hour, not twice a day, and not past the cap of prompts.
Decide ==
    /\ digest.at = "idle"
    /\ hourCame /\ lastSent # day
    /\ gmail \/ prompts < PromptMax
    /\ digest' = [at |-> "send", today |-> day, prompt |-> ~gmail, prompts |-> prompts]
    /\ UNCHANGED <<day, hourCame, gmail, lastSent, prompts, sent, prompted, slips>>

Send ==
    /\ digest.at = "send"
    /\ sent' = [sent EXCEPT ![digest.today] = sent[digest.today] + 1]
    /\ prompted' = IF digest.prompt THEN prompted + 1 ELSE prompted
    /\ digest' = [digest EXCEPT !.at = "record"]
    /\ UNCHANGED <<day, hourCame, gmail, lastSent, prompts, slips>>

\* The provider took the mail, but its answer was an error or a timeout.
AnswerLost ==
    /\ digest.at = "send" /\ slips < MaxSlips
    /\ sent' = [sent EXCEPT ![digest.today] = sent[digest.today] + 1]
    /\ prompted' = IF digest.prompt THEN prompted + 1 ELSE prompted
    /\ digest' = IdleDigest
    /\ slips' = slips + 1
    /\ UNCHANGED <<day, hourCame, gmail, lastSent, prompts>>

\* Tried again in the next cycle.
SendFails ==
    /\ digest.at = "send"
    /\ digest' = IdleDigest
    /\ UNCHANGED <<day, hourCame, gmail, lastSent, prompts, sent, prompted, slips>>

\* Mutant: a prompt leaves no date, as if the cap were enough.
RecordDigestOnly ==
    /\ digest.at = "record"
    /\ lastSent' = IF digest.prompt THEN lastSent ELSE digest.today
    /\ digest' = IF digest.prompt THEN [digest EXCEPT !.at = "count"] ELSE IdleDigest
    /\ UNCHANGED <<day, hourCame, gmail, prompts, sent, prompted, slips>>

RecordSent ==
    /\ digest.at = "record"
    /\ lastSent' = digest.today
    /\ digest' = IF digest.prompt THEN [digest EXCEPT !.at = "count"] ELSE IdleDigest
    /\ UNCHANGED <<day, hourCame, gmail, prompts, sent, prompted, slips>>

CountPrompt ==
    /\ digest.at = "count"
    /\ prompts' = digest.prompts + 1
    /\ digest' = IdleDigest
    /\ UNCHANGED <<day, hourCame, gmail, lastSent, sent, prompted, slips>>

\* The process dies, or a write after the send raises.
DigestCrashes ==
    /\ digest.at \in {"record", "count"} /\ slips < MaxSlips
    /\ digest' = IdleDigest
    /\ slips' = slips + 1
    /\ UNCHANGED <<day, hourCame, gmail, lastSent, prompts, sent, prompted>>

DigestNext ==
    \/ HourComes \/ Midnight \/ SetGmail
    \/ Decide \/ Send \/ AnswerLost \/ SendFails \/ RecordSent \/ CountPrompt \/ DigestCrashes

DigestSpec == DigestInit /\ [][DigestNext]_digestVars

---------------------------------------------------------------------------
DigestTypeOK ==
    /\ day \in Days /\ hourCame \in BOOLEAN /\ gmail \in BOOLEAN
    /\ lastSent \in 0 .. MaxDay /\ prompts \in Nat
    /\ digest \in Digest
    /\ sent \in [Days -> Nat] /\ prompted \in Nat
    /\ slips \in 0 .. MaxSlips

\* One digest a day and no more prompts than the cap, but for one more of each for
\* every send whose answer or whose record was lost.
DigestIsBounded ==
    /\ \A d \in Days : sent[d] <= 1 + slips
    /\ prompted <= PromptMax + slips
=============================================================================
