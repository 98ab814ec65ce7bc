----------------------------- MODULE LocalApp_proofs -----------------------------
(***************************************************************************)
(* Proofs about the parts of the local app (LocalParts), for any number of *)
(* pages, notes, mails, todos, accounts, turns, questions and polls.  Each *)
(* part has an inductive invariant of its own; the last section shows that *)
(* the parts side by side behave as each is specified, and so what the app *)
(* promises as a whole.  Where a table or a list is walked through, a      *)
(* length is shown to have a property because there is no least one that   *)
(* has it not.                                                             *)
(***************************************************************************)
EXTENDS Integers, FiniteSets, Sequences, SequenceTheorems, WellFoundedInduction,
        FiniteSetTheorems, TLAPS, LocalParts

---------------------------------------------------------------------------
(* Numbers, sets and sequences *)

\* A set of naturals that is not empty has a least element.
LEMMA LeastIsThere ==
    ASSUME NEW S, S \subseteq Nat, S # {}
    PROVE  \E x \in S : \A y \in S : x <= y
<1> DEFINE R == OpToRel(<, Nat)
<1>1. R = {ss \in Nat \X Nat : ss[1] < ss[2]}
  BY DEF OpToRel
<1>2. \E x \in S : \A y \in S : <<y, x>> \notin R
  <2>1. IsWellFoundedOn(R, Nat)
    BY NatLessThanWellFounded, Zenon
  <2> HIDE DEF R
  <2> QED  BY <2>1, WFMin
<1> HIDE DEF R
<1>3. \A x, y \in S : <<y, x>> \notin R => x <= y
  BY <1>1
<1> QED  BY <1>2, <1>3

\* One that is bounded has a greatest.
LEMMA GreatestIsThere ==
    ASSUME NEW n \in Nat, NEW S \in SUBSET (0 .. n), S # {}
    PROVE  \E x \in S : \A y \in S : y <= x
<1> DEFINE T == {b \in 0 .. n : n - b \in S}
<1>0. \A y \in S : n - y \in T
  OBVIOUS
<1>1. T \subseteq Nat /\ T # {}
  <2>1. T \subseteq 0 .. n
    OBVIOUS
  <2>2. PICK y : y \in S
    OBVIOUS
  <2>3. n - y \in T
    BY <1>0, <2>2
  <2> QED  BY <2>1, <2>3
<1>2. PICK a \in T : \A b \in T : a <= b
  BY <1>1, LeastIsThere
<1>3. n - a \in S /\ a \in 0 .. n
  BY <1>2
<1>5. \A y \in S : a <= n - y
  BY <1>0, <1>2
<1> QED  BY <1>3, <1>5

\* The members of a set of places, in their order.
Enumerates(f, S) ==
    /\ f \in [1 .. Cardinality(S) -> S]
    /\ {f[k] : k \in DOMAIN f} = S
    /\ \A j, k \in DOMAIN f : j < k => f[j] < f[k]

LEMMA PlacesAreEnumerated ==
    \A n \in Nat : \A S \in SUBSET (1 .. n) : \E f : Enumerates(f, S)
<1> DEFINE Odd == {n \in Nat : \E S \in SUBSET (1 .. n) : ~ \E f : Enumerates(f, S)}
<1>1. SUFFICES ASSUME Odd # {} PROVE FALSE
  OBVIOUS
<1>2. PICK n \in Odd : \A m \in Odd : n <= m
  <2>1. Odd \subseteq Nat
    OBVIOUS
  <2> HIDE DEF Odd
  <2> QED  BY <1>1, <2>1, LeastIsThere
<1>3. PICK S \in SUBSET (1 .. n) : ~ \E f : Enumerates(f, S)
  BY <1>2
<1>4. n \in Nat
  BY <1>2
<1>5. CASE n = 0
  <2>1. S = {}
    BY <1>3, <1>5
  <2>2. Cardinality(S) = 0
    BY <2>1, FS_EmptySet
  <2> DEFINE f == [k \in 1 .. 0 |-> 0]
  <2>3. 1 .. 0 = {}
    OBVIOUS
  <2>4. f \in [1 .. Cardinality(S) -> S] /\ DOMAIN f = {}
    BY <2>1, <2>2, <2>3
  <2>5. Enumerates(f, S)
    BY <2>1, <2>4 DEF Enumerates
  <2> QED  BY <1>3, <2>5
<1>6. CASE n # 0 /\ n \notin S
  <2>1. n - 1 \in Nat /\ S \in SUBSET (1 .. n - 1)
    BY <1>3, <1>4, <1>6
  <2>2. n - 1 \in Odd
    BY <1>3, <2>1
  <2> HIDE DEF Odd
  <2> QED  BY <1>2, <1>4, <2>2
<1>7. CASE n # 0 /\ n \in S
  <2> DEFINE T == S \ {n}
  <2>1. n - 1 \in Nat /\ T \in SUBSET (1 .. n - 1)
    BY <1>3, <1>4, <1>7
  <2>2. PICK g : Enumerates(g, T)
    <3>1. n - 1 \notin Odd
      <4> HIDE DEF Odd
      <4> QED  BY <1>2, <1>4
    <3> QED  BY <2>1, <3>1
  <2>3. IsFiniteSet(S)
    <3>1. IsFiniteSet(1 .. n)
      BY <1>4, FS_Interval
    <3> QED  BY <1>3, <3>1, FS_Subset
  <2>4. IsFiniteSet(T) /\ Cardinality(T) = Cardinality(S) - 1
        /\ Cardinality(S) \in Nat /\ Cardinality(T) \in Nat
    BY <1>7, <2>3, FS_RemoveElement, FS_CardinalityType
  <2>5. PICK c \in Nat : c = Cardinality(T) /\ Cardinality(S) = c + 1
    BY <2>4
  <2> DEFINE f == [k \in 1 .. c + 1 |-> IF k = c + 1 THEN n ELSE g[k]]
  <2>6. /\ g \in [1 .. c -> T] /\ {g[k] : k \in 1 .. c} = T
        /\ \A j, k \in 1 .. c : j < k => g[j] < g[k]
    BY <2>2, <2>5 DEF Enumerates
  <2>7. f \in [1 .. c + 1 -> S]
    BY <1>7, <2>6
  <2>8. f[c + 1] = n /\ \A k \in 1 .. c : f[k] = g[k]
    OBVIOUS
  <2> HIDE DEF f
  <2>9. {f[k] : k \in 1 .. c + 1} = S
    <3>1. ASSUME NEW s \in S PROVE \E k \in 1 .. c + 1 : f[k] = s
      <4>1. CASE s = n
        BY <2>8, <4>1
      <4>2. CASE s # n
        <5>1. PICK k \in 1 .. c : g[k] = s
          BY <2>6, <4>2
        <5> QED  BY <2>8, <5>1
      <4> QED  BY <4>1, <4>2
    <3>2. \A k \in 1 .. c + 1 : f[k] \in S
      BY <2>7
    <3> QED  BY <3>1, <3>2
  <2>10. \A j, k \in 1 .. c + 1 : j < k => f[j] < f[k]
    <3> SUFFICES ASSUME NEW j \in 1 .. c + 1, NEW k \in 1 .. c + 1, j < k PROVE f[j] < f[k]
      OBVIOUS
    <3>1. j \in 1 .. c /\ f[j] = g[j] /\ g[j] \in T /\ g[j] \in 1 .. n - 1
      <4>1. j \in 1 .. c
        BY <2>5
      <4>2. g[j] \in T
        BY <2>6, <4>1
      <4> HIDE DEF T
      <4> QED  BY <2>1, <2>8, <4>1, <4>2
    <3>2. CASE k = c + 1
      BY <1>4, <2>8, <3>1, <3>2
    <3>3. CASE k # c + 1
      BY <2>6, <2>8, <3>1, <3>3
    <3> QED  BY <3>2, <3>3
  <2>11. Enumerates(f, S)
    BY <2>5, <2>7, <2>9, <2>10 DEF Enumerates
  <2> QED  BY <1>3, <2>11
<1> QED  BY <1>5, <1>6, <1>7

LEMMA SequenceOfLength ==
    ASSUME NEW S, NEW n \in Nat, NEW f \in [1 .. n -> S] PROVE f \in Seq(S)
OBVIOUS

---------------------------------------------------------------------------
(* The digest *)

\* A digest may be sent for a day only while what was sent for it is accounted for by
\* slips alone; and a digest on its way is for a day no later than today, behind which
\* nothing was sent.
SendsAreDue ==
    /\ lastSent <= day
    /\ \A d \in Days : d > day => sent[d] = 0
    /\ digest.at = "idle" /\ lastSent # day => sent[day] <= slips
    /\ digest.at # "idle" =>
           digest.today <= day /\ \A d \in Days : d > digest.today => sent[d] = 0
    /\ digest.at = "send" => sent[digest.today] <= slips
    /\ digest.at = "count" => lastSent = digest.today

\* A prompt that was sent is counted, about to be counted, or a slip.
PromptsAreDue ==
    /\ prompts <= PromptMax
    /\ digest.at # "idle" /\ digest.prompt => digest.prompts = prompts /\ prompts < PromptMax
    /\ digest.at = "count" => digest.prompt
    /\ prompted <= prompts + slips
                     + (IF digest.at \in {"record", "count"} /\ digest.prompt THEN 1 ELSE 0)

DigestInv ==
    /\ DigestTypeOK
    /\ \A d \in Days : sent[d] <= 1 + slips
    /\ SendsAreDue /\ PromptsAreDue

LEMMA DigestBounded == ASSUME DigestInv PROVE DigestIsBounded
BY DigestBounds DEF DigestInv, DigestTypeOK, PromptsAreDue, DigestIsBounded

LEMMA DigestStarts == DigestInit => DigestInv
<1> SUFFICES ASSUME DigestInit PROVE DigestInv
  OBVIOUS
<1> USE DigestBounds DEF DigestInit, Days
<1>1. IdleDigest \in Digest /\ IdleDigest.at = "idle"
  BY DEF IdleDigest, Digest
<1>2. DigestTypeOK
  <2>1. hourCame \in BOOLEAN /\ gmail \in BOOLEAN
    BY Zenon
  <2>2. day \in Days /\ lastSent \in 0 .. MaxDay /\ prompts \in Nat /\ prompted \in Nat
        /\ slips \in 0 .. MaxSlips /\ sent \in [Days -> Nat]
    OBVIOUS
  <2> QED  BY <1>1, <2>1, <2>2 DEF DigestTypeOK
<1>3. /\ \A d \in Days : sent[d] <= 1 + slips
      /\ SendsAreDue /\ PromptsAreDue
  <2>1. \A d \in Days : sent[d] = 0
    OBVIOUS
  <2>2. digest.at = "idle"
    BY <1>1
  <2> QED  BY <2>1, <2>2 DEF SendsAreDue, PromptsAreDue
<1> QED  BY <1>2, <1>3 DEF DigestInv

LEMMA DigestSteps == DigestInv /\ [DigestNext]_digestVars => DigestInv'
<1> SUFFICES ASSUME DigestInv, [DigestNext]_digestVars PROVE DigestInv'
  OBVIOUS
<1> USE DigestBounds
<1>t. /\ day \in Days /\ lastSent \in 0 .. MaxDay /\ prompts \in Nat /\ digest \in Digest
      /\ sent \in [Days -> Nat] /\ prompted \in Nat /\ slips \in 0 .. MaxSlips
  BY DEF DigestInv, DigestTypeOK
<1>1. CASE HourComes \/ SetGmail \/ UNCHANGED digestVars
  <2>1. UNCHANGED <<day, lastSent, prompts, digest, sent, prompted, slips>>
    BY <1>1 DEF HourComes, SetGmail, digestVars
  <2>2. hourCame' \in BOOLEAN /\ gmail' \in BOOLEAN
    BY <1>1, Zenon DEF HourComes, SetGmail, digestVars, DigestInv, DigestTypeOK
  <2> QED  BY <2>1, <2>2 DEF DigestInv, DigestTypeOK, SendsAreDue, PromptsAreDue
<1>2. CASE Midnight
  <2> USE <1>t, <1>2 DEF Midnight, Days
  <2>0. hourCame' \in BOOLEAN /\ gmail' \in BOOLEAN
    BY Zenon DEF DigestInv, DigestTypeOK
  <2>1. DigestTypeOK'
    BY <2>0 DEF DigestTypeOK, Digest
  <2>2. (\A d \in Days : sent[d] <= 1 + slips)'
    BY DEF DigestInv, SendsAreDue, Digest
  <2>3. SendsAreDue'
    BY DEF DigestInv, SendsAreDue, Digest
  <2>4. PromptsAreDue'
    BY DEF DigestInv, PromptsAreDue, Digest
  <2> QED  BY <2>1, <2>2, <2>3, <2>4 DEF DigestInv
<1>3. CASE Decide
  <2> USE <1>t, <1>3 DEF Decide, Days
  <2>0. hourCame' \in BOOLEAN /\ gmail' \in BOOLEAN
    BY Zenon DEF DigestInv, DigestTypeOK
  <2>1. DigestTypeOK'
    BY <2>0 DEF DigestTypeOK, Digest
  <2>2. (\A d \in Days : sent[d] <= 1 + slips)'
    BY DEF DigestInv, SendsAreDue, Digest
  <2>3. SendsAreDue'
    BY DEF DigestInv, SendsAreDue, Digest
  <2>4. PromptsAreDue'
    BY DEF DigestInv, PromptsAreDue, Digest
  <2> QED  BY <2>1, <2>2, <2>3, <2>4 DEF DigestInv
<1>4. CASE Send
  <2> USE <1>t, <1>4 DEF Send, Days
  <2>0. hourCame' \in BOOLEAN /\ gmail' \in BOOLEAN
    BY Zenon DEF DigestInv, DigestTypeOK
  <2>1. DigestTypeOK'
    <3>1. digest' \in Digest
      BY DEF Digest
    <3>2. digest.today \in Days
      BY DEF Digest
    <3>3. sent[digest.today] + 1 \in Nat
      BY <3>2
    <3>4. sent' \in [Days -> Nat]
      BY <3>2, <3>3
    <3>5. prompted' \in Nat
      OBVIOUS
    <3> QED  BY <2>0, <3>1, <3>4, <3>5 DEF DigestTypeOK
  <2>2. (\A d \in Days : sent[d] <= 1 + slips)'
    BY DEF DigestInv, SendsAreDue, Digest
  <2>3. SendsAreDue'
    BY DEF DigestInv, SendsAreDue, Digest
  <2>4. PromptsAreDue'
    BY DEF DigestInv, PromptsAreDue, Digest
  <2> QED  BY <2>1, <2>2, <2>3, <2>4 DEF DigestInv
<1>5. CASE AnswerLost
  BY <1>t, <1>5
  DEF AnswerLost, DigestInv, DigestTypeOK, SendsAreDue, PromptsAreDue, IdleDigest, Digest, Days
<1>6. CASE SendFails
  BY <1>t, <1>6
  DEF SendFails, DigestInv, DigestTypeOK, SendsAreDue, PromptsAreDue, IdleDigest, Digest, Days
<1>7. CASE RecordSent
  <2> USE <1>t, <1>7 DEF RecordSent, IdleDigest, Days
  <2>0. hourCame' \in BOOLEAN /\ gmail' \in BOOLEAN
    BY Zenon DEF DigestInv, DigestTypeOK
  <2>1. DigestTypeOK'
    BY <2>0 DEF DigestTypeOK, Digest
  <2>2. (\A d \in Days : sent[d] <= 1 + slips)'
    BY DEF DigestInv, SendsAreDue, Digest
  <2>3. SendsAreDue'
    BY DEF DigestInv, SendsAreDue, Digest
  <2>4. PromptsAreDue'
    BY DEF DigestInv, PromptsAreDue, Digest
  <2> QED  BY <2>1, <2>2, <2>3, <2>4 DEF DigestInv
<1>8. CASE CountPrompt
  BY <1>t, <1>8
  DEF CountPrompt, DigestInv, DigestTypeOK, SendsAreDue, PromptsAreDue, IdleDigest, Digest, Days
<1>9. CASE DigestCrashes
  <2> USE <1>t, <1>9 DEF DigestCrashes, IdleDigest, Days
  <2>0. hourCame' \in BOOLEAN /\ gmail' \in BOOLEAN
    BY Zenon DEF DigestInv, DigestTypeOK
  <2>1. DigestTypeOK'
    BY <2>0 DEF DigestTypeOK, Digest
  <2>2. (\A d \in Days : sent[d] <= 1 + slips)'
    BY DEF DigestInv, SendsAreDue, Digest
  <2>3. SendsAreDue'
    BY DEF DigestInv, SendsAreDue, Digest
  <2>4. PromptsAreDue'
    BY DEF DigestInv, PromptsAreDue, Digest
  <2> QED  BY <2>1, <2>2, <2>3, <2>4 DEF DigestInv
<1> QED  BY <1>1, <1>2, <1>3, <1>4, <1>5, <1>6, <1>7, <1>8, <1>9, Zenon DEF DigestNext

\* The inductive invariant of the digest holds in every reachable state.
THEOREM DigestInvariance == DigestSpec => []DigestInv
BY DigestStarts, DigestSteps, PTL DEF DigestSpec

\* One digest a day and no more prompts than the cap, but for one more of each for every
\* send whose answer or record was lost (src/pollers/digest/poller.py:490).
THEOREM DigestStaysBounded == DigestSpec => []DigestIsBounded
<1>1. DigestInv => DigestIsBounded
  BY DigestBounded
<1> QED  BY <1>1, DigestInvariance, PTL

---------------------------------------------------------------------------
(* The browsers *)

\* The records of the turns.
TurnsAreRecords == turn \in [Turns -> ChromeTurn]

\* A Chrome that was told to quit has a turn waiting for it; a closed one has a turn
\* that owes it, which only a turn does that goes on to give it back.
ChromeIsOwed ==
    /\ chrome \in {"open", "asked", "closed"}
    /\ chrome = "asked" /\ ~excused => \E t \in Turns : turn[t].at = "grace"
    /\ ChromeComesBack
    /\ \A t \in Turns : turn[t].owes => turn[t].at \in {"copies", "works", "overlays", "ends"}

\* While no two turns looked for a browser at once: the port file names the Chrome on
\* the copy, and none is on it once its turn has looked.
CopyIsOwn ==
    /\ \A t, u \in Turns : Looking(t) /\ Looking(u) => t = u
    /\ onCopy \in {"none", "starting", "up"}
    /\ onCopy = "up" => port = "live"
    /\ onCopy = "starting" => \E t \in Turns : turn[t].at = "waits"
    /\ \A t \in Turns :
           \/ turn[t].at \in {"refreshes", "copies", "launches", "overlays"}
           \/ turn[t].at \in {"closes", "grace"} /\ turn[t].site = "refresh"
           => onCopy = "none"

BrowserInv == TurnsAreRecords /\ ChromeIsOwed /\ (~mistaken => CopyIsOwn)

\* Where a turn may be.
Ats == {"off", "looks", "refreshes", "closes", "grace", "copies", "launches", "waits",
        "works", "overlays", "ends"}
\* The records of the other turns stay.
Others(t) == \A u \in Turns : u # t => turn'[u] = turn[u]

\* What the updates do to the record of one turn.
LEMMA StepsOn ==
    ASSUME TurnsAreRecords, NEW t \in Turns, NEW to \in Ats, Steps(t, to)
    PROVE  /\ TurnsAreRecords' /\ Others(t)
           /\ turn'[t].at = to /\ turn'[t].owes = turn[t].owes /\ turn'[t].site = turn[t].site
<1>1. [turn[t] EXCEPT !.at = to] \in ChromeTurn
  BY Zenon DEF TurnsAreRecords, ChromeTurn, Ats
<1>2. turn' = [turn EXCEPT ![t] = [turn[t] EXCEPT !.at = to]]
  BY DEF Steps, TurnsAreRecords
<1> QED  BY <1>1, <1>2 DEF TurnsAreRecords, Others, ChromeTurn

LEMMA FallsBackOn ==
    ASSUME TurnsAreRecords, NEW t \in Turns, FallsBack(t)
    PROVE  /\ TurnsAreRecords' /\ Others(t)
           /\ turn'[t].at = "closes" /\ ~turn'[t].owes /\ turn'[t].site = "run"
<1>1. [turn[t] EXCEPT !.at = "closes", !.site = "run", !.owes = FALSE] \in ChromeTurn
  BY Zenon DEF TurnsAreRecords, ChromeTurn
<1>2. turn' = [turn EXCEPT ![t] = [turn[t] EXCEPT !.at = "closes", !.site = "run", !.owes = FALSE]]
  BY Zenon DEF FallsBack, TurnsAreRecords
<1> QED  BY <1>1, <1>2 DEF TurnsAreRecords, Others, ChromeTurn

LEMMA GoesOnOn ==
    ASSUME TurnsAreRecords, NEW t \in Turns, NEW closed \in BOOLEAN, GoesOn(t, closed)
    PROVE  /\ TurnsAreRecords' /\ Others(t)
           /\ turn'[t].at = IF turn[t].site = "refresh" THEN "copies" ELSE "works"
           /\ turn'[t].owes = closed /\ turn'[t].site = turn[t].site
<1>1. [turn[t] EXCEPT !.owes = closed,
                      !.at = IF turn[t].site = "refresh" THEN "copies" ELSE "works"] \in ChromeTurn
  BY Zenon DEF TurnsAreRecords, ChromeTurn
<1>2. turn' = [turn EXCEPT ![t] = [turn[t] EXCEPT !.owes = closed,
                      !.at = IF turn[t].site = "refresh" THEN "copies" ELSE "works"]]
  BY Zenon DEF GoesOn, TurnsAreRecords
<1> QED  BY <1>1, <1>2 DEF TurnsAreRecords, Others, ChromeTurn

LEMMA BrowserStarts == ChromeInit => BrowserInv
<1> SUFFICES ASSUME ChromeInit PROVE BrowserInv
  OBVIOUS
<1>1. NoTurnYet \in ChromeTurn /\ NoTurnYet.at = "off" /\ ~NoTurnYet.owes
  BY DEF NoTurnYet, ChromeTurn
<1>2. TurnsAreRecords /\ \A t \in Turns : turn[t] = NoTurnYet
  BY <1>1 DEF ChromeInit, TurnsAreRecords
<1>3. chrome \in {"open", "closed"} /\ (chrome = "closed" => excused) /\ onCopy = "none"
  BY DEF ChromeInit
<1>4. ChromeIsOwed
  BY <1>1, <1>2, <1>3 DEF ChromeIsOwed, ChromeComesBack
<1>5. CopyIsOwn
  BY <1>1, <1>2, <1>3 DEF CopyIsOwn, Looking
<1> QED  BY <1>2, <1>4, <1>5 DEF BrowserInv

\* A look for a browser begins: from now on nobody else looks, or it is a mistake.
LEMMA LooksKeep ==
    ASSUME BrowserInv, NEW t \in Turns, BeginTurn(t) \/ HermesLooks(t)
    PROVE  BrowserInv'
<1> USE DEF BrowserInv
<1>1. PICK to \in {"looks", "overlays"} :
          /\ Steps(t, to) /\ turn[t].at \in {"off", "works"}
          /\ to = "looks" => turn[t].at = "off"
          /\ to = "overlays" => turn[t].at = "works" /\ ~IsAlive
  BY DEF BeginTurn, HermesLooks
<1>2. Meets(t) /\ UserUntouched /\ CopyUntouched
  BY DEF BeginTurn, HermesLooks
<1>3. /\ TurnsAreRecords' /\ Others(t)
      /\ turn'[t].at = to /\ turn'[t].owes = turn[t].owes /\ turn'[t].site = turn[t].site
  BY <1>1, StepsOn DEF Ats
<1>4. ChromeIsOwed'
  BY <1>1, <1>2, <1>3 DEF ChromeIsOwed, ChromeComesBack, UserUntouched, Others
<1>5. ASSUME ~mistaken' PROVE CopyIsOwn'
  <2>1. CopyIsOwn /\ \A u \in Turns : u # t => ~Looking(u)
    BY <1>2, <1>5 DEF Meets
  <2>2. UNCHANGED <<onCopy, port>>
    BY <1>2 DEF CopyUntouched
  <2>3. to = "overlays" => onCopy = "none"
    BY <1>1, <2>1 DEF CopyIsOwn, IsAlive, Looking
  <2> QED  BY <1>1, <1>3, <2>1, <2>2, <2>3 DEF CopyIsOwn, Looking, Others
<1> QED  BY <1>3, <1>4, <1>5

\* The turn that looks goes from step to step.
LEMMA EnsureKeeps == ASSUME BrowserInv, NEW t \in Turns, EnsureRunning(t) PROVE BrowserInv'
<1> USE DEF BrowserInv
<1>1. PICK to \in {"works", "launches", "refreshes"} :
          /\ Steps(t, to) /\ turn[t].at = "looks"
          /\ ~mistaken' => ~mistaken /\ (to # "works" => ~IsAlive)
  <2>0. turn[t].at = "looks"
    BY DEF EnsureRunning
  <2>1. CASE Steps(t, "works") /\ UNCHANGED mistaken
    BY <2>0, <2>1
  <2>2. CASE Steps(t, IF marker THEN "launches" ELSE "refreshes") /\ mistaken' = (mistaken \/ IsAlive)
    <3>1. ~mistaken' => ~mistaken /\ ~IsAlive
      BY <2>2, Zenon
    <3>2. Steps(t, "launches") \/ Steps(t, "refreshes")
      BY <2>2, Zenon
    <3> QED  BY <2>0, <3>1, <3>2
  <2> QED  BY <2>1, <2>2, Zenon DEF EnsureRunning
<1>2. UserUntouched /\ CopyUntouched
  BY DEF EnsureRunning
<1>3. /\ TurnsAreRecords' /\ Others(t)
      /\ turn'[t].at = to /\ turn'[t].owes = turn[t].owes /\ turn'[t].site = turn[t].site
  BY <1>1, StepsOn DEF Ats
<1>4. ChromeIsOwed'
  BY <1>1, <1>2, <1>3 DEF ChromeIsOwed, ChromeComesBack, UserUntouched, Others
<1>5. ASSUME ~mistaken' PROVE CopyIsOwn'
  <2>1. CopyIsOwn /\ \A u \in Turns : u # t => ~Looking(u)
    BY <1>1, <1>5 DEF CopyIsOwn, Looking
  <2>2. UNCHANGED <<onCopy, port>>
    BY <1>2 DEF CopyUntouched
  <2>3. to # "works" => onCopy = "none"
    BY <1>1, <1>5, <2>1 DEF CopyIsOwn, IsAlive, Looking
  <2>4. onCopy # "starting"
    BY <1>1, <2>1 DEF CopyIsOwn, Looking
  <2> QED  BY <1>1, <1>3, <2>1, <2>2, <2>3, <2>4 DEF CopyIsOwn, Looking, Others
<1> QED  BY <1>3, <1>4, <1>5

LEMMA RefreshKeeps == ASSUME BrowserInv, NEW t \in Turns, RefreshSnapshot(t) PROVE BrowserInv'
<1> USE DEF BrowserInv
<1>1. turn[t].at = "refreshes" /\ UserUntouched /\ CopyUntouched /\ UNCHANGED mistaken
  BY DEF RefreshSnapshot
<1>2. /\ TurnsAreRecords' /\ Others(t)
      /\ turn'[t].at = "closes" /\ ~turn'[t].owes
  <2>1. CASE IsAlive
    BY <2>1, FallsBackOn DEF RefreshSnapshot
  <2>2. CASE ~IsAlive
    <3>1. turn' = [turn EXCEPT ![t].at = "closes", ![t].site = "refresh"]
      BY <2>2, Zenon DEF RefreshSnapshot
    <3>2. [turn[t] EXCEPT !.at = "closes", !.site = "refresh"] \in ChromeTurn
      BY Zenon DEF TurnsAreRecords, ChromeTurn
    <3>3. turn' = [turn EXCEPT ![t] = [turn[t] EXCEPT !.at = "closes", !.site = "refresh"]]
      BY <3>1, Zenon DEF TurnsAreRecords
    <3>4. /\ TurnsAreRecords' /\ Others(t)
          /\ turn'[t].at = "closes" /\ turn'[t].owes = turn[t].owes
      BY <3>2, <3>3 DEF TurnsAreRecords, Others, ChromeTurn
    <3> QED  BY <1>1, <3>4 DEF ChromeIsOwed
  <2> QED  BY <2>1, <2>2
<1>3. ChromeIsOwed'
  BY <1>1, <1>2 DEF ChromeIsOwed, ChromeComesBack, UserUntouched, Others
<1>4. ~mistaken' => CopyIsOwn'
  BY <1>1, <1>2 DEF CopyIsOwn, CopyUntouched, Looking, Others
<1> QED  BY <1>2, <1>3, <1>4

\* What a turn owes is given back, or its Chrome is open again, or asked to quit by a
\* turn that waits for it.
LEMMA SnapshotKeeps == ASSUME BrowserInv, NEW t \in Turns, Snapshot(t) PROVE BrowserInv'
<1> USE DEF BrowserInv
<1>1. turn[t].at = "copies" /\ UNCHANGED <<onCopy, port, mistaken>> /\ Restore(t)
  BY DEF Snapshot
<1>2. /\ TurnsAreRecords' /\ Others(t)
      /\ turn'[t].at \in {"launches", "closes"} /\ ~turn'[t].owes
      /\ turn'[t].at = "closes" => turn'[t].site = "run"
  <2>1. CASE FallsBack(t)
    BY <2>1, FallsBackOn
  <2>2. CASE turn' = [turn EXCEPT ![t].at = "launches", ![t].owes = FALSE]
    <3>1. [turn[t] EXCEPT !.at = "launches", !.owes = FALSE] \in ChromeTurn
      BY Zenon DEF TurnsAreRecords, ChromeTurn
    <3>2. turn' = [turn EXCEPT ![t] = [turn[t] EXCEPT !.at = "launches", !.owes = FALSE]]
      BY <2>2, Zenon DEF TurnsAreRecords
    <3> QED  BY <3>1, <3>2 DEF TurnsAreRecords, Others, ChromeTurn
  <2> QED  BY <2>1, <2>2, Zenon DEF Snapshot
<1>3. ChromeIsOwed'
  <2>1. CASE turn[t].owes /\ chrome = "closed"
    <3>1. chrome' = "open" \/ (chrome' = "closed" /\ excused')
      BY <1>1, <2>1 DEF Restore, Relaunched
    <3> QED  BY <1>2, <3>1 DEF ChromeIsOwed, ChromeComesBack, Others
  <2>2. CASE ~(turn[t].owes /\ chrome = "closed")
    <3>1. UNCHANGED <<chrome, excused>>
      BY <1>1, <2>2 DEF Restore, Relaunched, UserUntouched
    <3> QED  BY <1>1, <1>2, <2>2, <3>1 DEF ChromeIsOwed, ChromeComesBack, Others
  <2> QED  BY <2>1, <2>2
<1>4. ~mistaken' => CopyIsOwn'
  BY <1>1, <1>2 DEF CopyIsOwn, Looking, Others
<1> QED  BY <1>2, <1>3, <1>4

LEMMA LaunchKeeps == ASSUME BrowserInv, NEW t \in Turns, Launch(t) PROVE BrowserInv'
<1> USE DEF BrowserInv
<1>1. /\ turn[t].at = "launches" /\ Steps(t, "waits")
      /\ port' = "none" /\ onCopy' = IF onCopy = "none" THEN "starting" ELSE onCopy
      /\ UNCHANGED <<chrome, excused, mistaken>>
  BY DEF Launch, UserUntouched
<1>2. /\ TurnsAreRecords' /\ Others(t)
      /\ turn'[t].at = "waits" /\ turn'[t].owes = turn[t].owes
  BY <1>1, StepsOn DEF Ats
<1>3. ChromeIsOwed'
  BY <1>1, <1>2 DEF ChromeIsOwed, ChromeComesBack, Others
<1>4. ~mistaken' => CopyIsOwn'
  BY <1>1, <1>2 DEF CopyIsOwn, Looking, Others
<1> QED  BY <1>2, <1>3, <1>4

LEMMA WaitKeeps == ASSUME BrowserInv, NEW t \in Turns, WaitForPort(t) PROVE BrowserInv'
<1> USE DEF BrowserInv
<1>1. /\ turn[t].at = "waits" /\ UNCHANGED <<chrome, excused, onCopy, port>>
      /\ ~mistaken' => ~mistaken /\ onCopy # "starting"
  BY DEF WaitForPort, UserUntouched, CopyUntouched, IsAlive
<1>2. /\ TurnsAreRecords' /\ Others(t)
      /\ \/ turn'[t].at = "works"
         \/ turn'[t].at = "closes" /\ turn'[t].site = "run"
      /\ ~turn'[t].owes
  <2>1. CASE Steps(t, "works")
    BY <1>1, <2>1, StepsOn DEF Ats, ChromeIsOwed
  <2>2. CASE FallsBack(t)
    BY <2>2, FallsBackOn
  <2> QED  BY <2>1, <2>2 DEF WaitForPort
<1>3. ChromeIsOwed'
  BY <1>1, <1>2 DEF ChromeIsOwed, ChromeComesBack, Others
<1>4. ~mistaken' => CopyIsOwn'
  BY <1>1, <1>2 DEF CopyIsOwn, Looking, Others
<1> QED  BY <1>2, <1>3, <1>4

\* Chrome is told to quit: the turn waits, or the person is left with what it did.
LEMMA CloseKeeps == ASSUME BrowserInv, NEW t \in Turns, CloseForRun(t) PROVE BrowserInv'
<1> USE DEF BrowserInv
<1>1. turn[t].at = "closes" /\ UNCHANGED <<onCopy, port, mistaken>>
  BY DEF CloseForRun, CopyUntouched
<1>2. ~turn[t].owes
  BY <1>1 DEF ChromeIsOwed
<1>3. \/ chrome = "closed" /\ GoesOn(t, FALSE) /\ UNCHANGED <<chrome, excused>>
      \/ chrome' = "asked" /\ Steps(t, "grace") /\ UNCHANGED excused
      \/ chrome' = "asked" /\ GoesOn(t, FALSE) /\ excused'
  BY DEF CloseForRun, UserUntouched
<1>4. /\ TurnsAreRecords' /\ Others(t)
      /\ ~turn'[t].owes /\ turn'[t].site = turn[t].site
      /\ \/ turn'[t].at = "grace" /\ chrome' = "asked" /\ UNCHANGED excused
         \/ /\ turn'[t].at = IF turn[t].site = "refresh" THEN "copies" ELSE "works"
            /\ \/ chrome = "closed" /\ UNCHANGED <<chrome, excused>>
               \/ chrome' = "asked" /\ excused'
  <2>1. CASE Steps(t, "grace") /\ chrome' = "asked" /\ UNCHANGED excused
    BY <1>2, <2>1, StepsOn DEF Ats
  <2>2. CASE /\ GoesOn(t, FALSE)
             /\ \/ chrome = "closed" /\ UNCHANGED <<chrome, excused>>
                \/ chrome' = "asked" /\ excused'
    BY <2>2, GoesOnOn
  <2> QED  BY <1>3, <2>1, <2>2
<1>5. ChromeIsOwed'
  BY <1>1, <1>2, <1>4 DEF ChromeIsOwed, ChromeComesBack, Others
<1>6. ~mistaken' => CopyIsOwn'
  BY <1>1, <1>4 DEF CopyIsOwn, Looking, Others
<1> QED  BY <1>4, <1>5, <1>6

LEMMA GraceKeeps == ASSUME BrowserInv, NEW t \in Turns, GraceEnds(t) PROVE BrowserInv'
<1> USE DEF BrowserInv
<1>1. turn[t].at = "grace" /\ UNCHANGED <<chrome, onCopy, port, mistaken>>
  BY DEF GraceEnds, CopyUntouched
<1>2. PICK closed \in BOOLEAN :
          /\ GoesOn(t, closed)
          /\ IF closed THEN chrome = "closed" /\ UNCHANGED excused ELSE excused'
  BY Zenon DEF GraceEnds
<1>3. /\ TurnsAreRecords' /\ Others(t)
      /\ turn'[t].owes = closed /\ turn'[t].site = turn[t].site
      /\ turn'[t].at = IF turn[t].site = "refresh" THEN "copies" ELSE "works"
  BY <1>2, GoesOnOn
<1>4. ChromeIsOwed'
  BY <1>1, <1>2, <1>3 DEF ChromeIsOwed, ChromeComesBack, Others
<1>5. ~mistaken' => CopyIsOwn'
  BY <1>1, <1>3 DEF CopyIsOwn, Looking, Others
<1> QED  BY <1>3, <1>4, <1>5

\* A browser of Hermes's own, and the end of the turn.
LEMMA HermesKeeps == ASSUME BrowserInv, NEW t \in Turns, HermesLaunches(t) PROVE BrowserInv'
<1> USE DEF BrowserInv
<1>1. /\ turn[t].at = "overlays" /\ UNCHANGED <<chrome, excused, mistaken>>
      /\ (onCopy' = "up" /\ port' = "live") \/ UNCHANGED <<onCopy, port>>
  BY DEF HermesLaunches, UserUntouched
<1>2. /\ TurnsAreRecords' /\ Others(t)
      /\ turn'[t].at = "works" /\ turn'[t].owes = turn[t].owes
  <2>1. CASE Steps(t, "works")
    BY <2>1, StepsOn DEF Ats
  <2>2. CASE turn' = [turn EXCEPT ![t].at = "works", ![t].mine = TRUE]
    <3>1. [turn[t] EXCEPT !.at = "works", !.mine = TRUE] \in ChromeTurn
      BY Zenon DEF TurnsAreRecords, ChromeTurn
    <3>2. turn' = [turn EXCEPT ![t] = [turn[t] EXCEPT !.at = "works", !.mine = TRUE]]
      BY <2>2, Zenon DEF TurnsAreRecords
    <3> QED  BY <3>1, <3>2 DEF TurnsAreRecords, Others, ChromeTurn
  <2> QED  BY <2>1, <2>2, Zenon DEF HermesLaunches
<1>3. ChromeIsOwed'
  BY <1>1, <1>2 DEF ChromeIsOwed, ChromeComesBack, Others
<1>4. ~mistaken' => CopyIsOwn'
  BY <1>1, <1>2 DEF CopyIsOwn, Looking, Others
<1> QED  BY <1>2, <1>3, <1>4

LEMMA EndKeeps == ASSUME BrowserInv, NEW t \in Turns, EndTurn(t) PROVE BrowserInv'
<1> USE DEF BrowserInv
<1>1. /\ turn[t].at \in {"works", "overlays"} /\ Steps(t, "ends")
      /\ UNCHANGED <<chrome, excused, mistaken>>
      /\ onCopy' = "none" \/ UNCHANGED <<onCopy, port>>
  BY DEF EndTurn, UserUntouched
<1>2. /\ TurnsAreRecords' /\ Others(t)
      /\ turn'[t].at = "ends" /\ turn'[t].owes = turn[t].owes
  BY <1>1, StepsOn DEF Ats
<1>3. ChromeIsOwed'
  BY <1>1, <1>2 DEF ChromeIsOwed, ChromeComesBack, Others
<1>4. ~mistaken' => CopyIsOwn'
  BY <1>1, <1>2 DEF CopyIsOwn, Looking, Others
<1> QED  BY <1>2, <1>3, <1>4

LEMMA HandBackKeeps == ASSUME BrowserInv, NEW t \in Turns, HandBack(t) PROVE BrowserInv'
<1> USE DEF BrowserInv
<1>1. turn[t].at = "ends" /\ UNCHANGED <<onCopy, port, mistaken>> /\ Restore(t)
  BY DEF HandBack, CopyUntouched
<1>2. TurnsAreRecords' /\ Others(t) /\ turn'[t].at = "off" /\ ~turn'[t].owes
  BY DEF HandBack, NoTurnYet, TurnsAreRecords, Others, ChromeTurn
<1>3. ChromeIsOwed'
  <2>1. CASE turn[t].owes /\ chrome = "closed"
    <3>1. chrome' = "open" \/ (chrome' = "closed" /\ excused')
      BY <1>1, <2>1 DEF Restore, Relaunched
    <3> QED  BY <1>2, <3>1 DEF ChromeIsOwed, ChromeComesBack, Others
  <2>2. CASE ~(turn[t].owes /\ chrome = "closed")
    <3>1. UNCHANGED <<chrome, excused>>
      BY <1>1, <2>2 DEF Restore, Relaunched, UserUntouched
    <3> QED  BY <1>1, <1>2, <2>2, <3>1 DEF ChromeIsOwed, ChromeComesBack, Others
  <2> QED  BY <2>1, <2>2
<1>4. ~mistaken' => CopyIsOwn'
  BY <1>1, <1>2 DEF CopyIsOwn, Looking, Others
<1> QED  BY <1>2, <1>3, <1>4

\* What the browsers, their user and a crash of the web process do.
LEMMA WorldKeeps ==
    ASSUME BrowserInv, OpenOrClose \/ ChromeQuits \/ CopyStarts \/ UNCHANGED chromeVars
    PROVE  BrowserInv'
<1> USE DEF BrowserInv
<1>1. UNCHANGED <<turn, mistaken>>
  BY DEF OpenOrClose, ChromeQuits, CopyStarts, chromeVars
<1>2. TurnsAreRecords'
  BY <1>1 DEF TurnsAreRecords
<1>3. \/ UNCHANGED <<chrome, excused>>
      \/ chrome' = "open"
      \/ chrome' = "closed" /\ excused'
      \/ chrome = "asked" /\ chrome' = "closed" /\ UNCHANGED excused
  BY DEF OpenOrClose, ChromeQuits, CopyStarts, chromeVars, UserUntouched
<1>4. ChromeIsOwed'
  BY <1>1, <1>3 DEF ChromeIsOwed, ChromeComesBack
<1>5. \/ UNCHANGED <<onCopy, port>>
      \/ onCopy = "starting" /\ onCopy' = "up" /\ port' = "live"
  BY DEF OpenOrClose, ChromeQuits, CopyStarts, chromeVars, CopyUntouched
<1>6. ~mistaken' => CopyIsOwn'
  BY <1>1, <1>5 DEF CopyIsOwn, Looking
<1> QED  BY <1>2, <1>4, <1>6

LEMMA DeathKeeps == ASSUME BrowserInv, CopyDies \/ WebDies PROVE BrowserInv'
<1> USE DEF BrowserInv
<1>1. CASE CopyDies
  <2>1. /\ onCopy' = "none" /\ UNCHANGED <<chrome, excused, mistaken>>
        /\ turn' = [t \in Turns |-> [turn[t] EXCEPT !.mine = FALSE]]
    BY <1>1 DEF CopyDies, UserUntouched
  <2>2. \A t \in Turns : [turn[t] EXCEPT !.mine = FALSE] \in ChromeTurn
    BY Zenon DEF TurnsAreRecords, ChromeTurn
  <2>3. /\ TurnsAreRecords'
        /\ \A t \in Turns : /\ turn'[t].at = turn[t].at /\ turn'[t].owes = turn[t].owes
                           /\ turn'[t].site = turn[t].site
    BY <2>1, <2>2 DEF TurnsAreRecords, ChromeTurn
  <2>4. ChromeIsOwed'
    BY <2>1, <2>3 DEF ChromeIsOwed, ChromeComesBack
  <2>5. ~mistaken' => CopyIsOwn'
    BY <2>1, <2>3 DEF CopyIsOwn, Looking
  <2> QED  BY <2>3, <2>4, <2>5
<1>2. CASE WebDies
  <2>1. /\ turn' = [t \in Turns |-> NoTurnYet] /\ UNCHANGED <<chrome, onCopy, port>>
        /\ ~excused' => ~excused /\ \A t \in Turns : ~turn[t].owes /\ turn[t].at # "grace"
        /\ ~mistaken' => ~mistaken /\ \A t \in Turns : ~Looking(t)
    BY <1>2, Zenon DEF WebDies, CopyUntouched
  <2>2. TurnsAreRecords' /\ \A t \in Turns : turn'[t].at = "off" /\ ~turn'[t].owes
    BY <2>1 DEF TurnsAreRecords, NoTurnYet, ChromeTurn
  <2>3. ChromeIsOwed'
    BY <2>1, <2>2 DEF ChromeIsOwed, ChromeComesBack
  <2>4. ~mistaken' => CopyIsOwn'
    BY <2>1, <2>2 DEF CopyIsOwn, Looking
  <2> QED  BY <2>2, <2>3, <2>4
<1> QED  BY <1>1, <1>2

LEMMA BrowserSteps == BrowserInv /\ [ChromeNext]_chromeVars => BrowserInv'
<1> SUFFICES ASSUME BrowserInv, [ChromeNext]_chromeVars PROVE BrowserInv'
  OBVIOUS
<1>1. ASSUME NEW t \in Turns,
             \/ BeginTurn(t) \/ EnsureRunning(t) \/ RefreshSnapshot(t) \/ Snapshot(t)
             \/ Launch(t) \/ WaitForPort(t) \/ CloseForRun(t) \/ GraceEnds(t)
             \/ HermesLooks(t) \/ HermesLaunches(t) \/ EndTurn(t) \/ HandBack(t)
      PROVE  BrowserInv'
  BY <1>1, LooksKeep, EnsureKeeps, RefreshKeeps, SnapshotKeeps, LaunchKeeps, WaitKeeps, CloseKeeps,
     GraceKeeps, HermesKeeps, EndKeeps, HandBackKeeps, Zenon
<1>2. CASE OpenOrClose \/ ChromeQuits \/ CopyStarts \/ UNCHANGED chromeVars
  BY <1>2, WorldKeeps
<1>3. CASE CopyDies \/ WebDies
  BY <1>3, DeathKeeps
<1> QED  BY <1>1, <1>2, <1>3, Zenon DEF ChromeNext

LEMMA BrowserLeaves == BrowserInv => BrowsersAreLeft
BY DEF BrowserInv, ChromeIsOwed, CopyIsOwn, CopyIsWhole, BrowsersAreLeft

\* The inductive invariant of the two browsers holds in every reachable state.
THEOREM BrowserInvariance == ChromeSpec => []BrowserInv
BY BrowserStarts, BrowserSteps, PTL DEF ChromeSpec

\* However many turns run at once, a Chrome that one of them closed is open again or owed
\* by a turn that is still on (src/agent/chrome_profile.py:170), and the profile copy is
\* overlaid under no Chrome that runs on it, unless two turns looked for a browser at once.
THEOREM BrowsersStayAsTheyMay == ChromeSpec => []BrowsersAreLeft
BY BrowserLeaves, BrowserInvariance, PTL

---------------------------------------------------------------------------
(* The note takers *)

\* Times are in order: recorded, published, and neither is in the future.
ItemsAreDated ==
    \A i \in Items :
        /\ item[i].recorded # Never => item[i].recorded <= now
        /\ item[i].visible # Never => /\ item[i].recorded # Never
                                      /\ item[i].recorded <= item[i].visible
                                      /\ item[i].visible <= now

\* A poll under way began after the last one that ended, with the window of its cursor.
PollsAreOrdered ==
    /\ polledAt # Never => polledAt <= now
    /\ fetch.at # "idle" => /\ fetch.began <= now
                            /\ polledAt # Never => /\ polledAt <= fetch.began
                                                   /\ fetch.from = polledAt - LookbackOf

\* What a poll asked for is kept or still to be kept, as far as it was there when it began.
FetchIsComplete ==
    fetch.at = "save" =>
        \A i \in Items :
            /\ item[i].visible # Never /\ item[i].visible < fetch.began
            /\ item[i].recorded >= fetch.from
            => i \in fetch.left \cup kept

NotesInv == NotesTypeOK /\ ItemsAreDated /\ PollsAreOrdered /\ FetchIsComplete /\ ItemIsCaught

LEMMA NotesStart == NotesInit => NotesInv
  <1> SUFFICES ASSUME NotesInit PROVE NotesInv
    OBVIOUS
  <1> USE DEF NotesInit, Time
  <1>1. NotesTypeOK
    <2>1. 0 \in 0 .. MaxTime
      BY WindowsAreNatural
    <2>2. [recorded |-> Never, visible |-> Never] \in ItemRecord
      BY DEF ItemRecord
    <2>3. IdleFetch \in Fetch
      BY <2>1 DEF Fetch, IdleFetch
    <2>4. item \in [Items -> ItemRecord]
      BY <2>2, Zenon
    <2>5. key \in BOOLEAN
      BY Zenon
    <2> QED BY <2>1, <2>3, <2>4, <2>5 DEF NotesTypeOK
  <1>2. ItemsAreDated /\ PollsAreOrdered /\ FetchIsComplete /\ ItemIsCaught
    BY DEF ItemsAreDated, PollsAreOrdered, FetchIsComplete, ItemIsCaught, IdleFetch
  <1> QED BY <1>1, <1>2 DEF NotesInv

\* A step that moves on the clock or an item.
LEMMA TimeKeepsNotes ==
    ASSUME NotesInv, Tick \/ \E i \in Items : Record(i) \/ Publish(i)
    PROVE  NotesInv'
  <1> USE DEF Time
  <1>1. /\ now \in Nat /\ now' \in Nat /\ now <= now' /\ now' <= MaxTime /\ MaxTime \in Nat
        /\ UNCHANGED <<taker, key, polledAt, since, fetch, kept>>
        /\ polledAt \in Nat \cup {Never} /\ since \in Int /\ fetch \in Fetch
        /\ polledAt # Never => polledAt <= now
        /\ fetch.at # "idle" => fetch.began <= now
    BY WindowsAreNatural
       DEF NotesInv, NotesTypeOK, Tick, Record, Publish, PollsAreOrdered
  <1>2. ASSUME NEW i \in Items
        PROVE  \/ item'[i] = item[i]
               \/ /\ item[i].recorded = Never /\ item[i].visible = Never
                  /\ item'[i].visible = Never /\ item'[i].recorded = now /\ now' = now
               \/ /\ item[i].visible = Never /\ item'[i].recorded = item[i].recorded
                  /\ item[i].recorded # Never /\ item'[i].visible = now /\ now' = now
    <2>1. CASE Tick
      BY <2>1 DEF Tick
    <2>2. ASSUME NEW j \in Items, Record(j) \/ Publish(j)
          PROVE  \/ item'[i] = item[i]
                 \/ /\ item[i].recorded = Never /\ item[i].visible = Never
                    /\ item'[i].visible = Never /\ item'[i].recorded = now /\ now' = now
                 \/ /\ item[i].visible = Never /\ item'[i].recorded = item[i].recorded
                    /\ item[i].recorded # Never /\ item'[i].visible = now /\ now' = now
      <3>1. item[j].recorded = Never => item[j].visible = Never
        BY DEF NotesInv, ItemsAreDated
      <3> QED BY <2>2, <3>1 DEF NotesInv, NotesTypeOK, Record, Publish, ItemRecord
    <2> QED BY <2>1, <2>2
  <1>3. item' \in [Items -> ItemRecord]
    <2>1. now \in Time
      BY DEF NotesInv, NotesTypeOK
    <2>2. CASE Tick
      BY <2>2 DEF NotesInv, NotesTypeOK, Tick
    <2>3. ASSUME NEW j \in Items, Record(j) PROVE item' \in [Items -> ItemRecord]
      BY <2>1, <2>3 DEF NotesInv, NotesTypeOK, Record, ItemRecord
    <2>4. ASSUME NEW j \in Items, Publish(j) PROVE item' \in [Items -> ItemRecord]
      BY <2>1, <2>4 DEF NotesInv, NotesTypeOK, Publish, ItemRecord
    <2> QED BY <2>2, <2>3, <2>4
  <1>4. \A i \in Items : /\ item[i].recorded \in Nat \cup {Never}
                         /\ item[i].visible \in Nat \cup {Never}
    <2>1. item \in [Items -> ItemRecord]
      BY DEF NotesInv, NotesTypeOK
    <2>2. Time \subseteq Nat
      BY WindowsAreNatural
    <2> QED BY <2>1, <2>2 DEF ItemRecord
  <1>5. NotesTypeOK'
    BY <1>1, <1>3 DEF NotesInv, NotesTypeOK
  <1>6. ItemsAreDated'
    <2> SUFFICES ASSUME NEW i \in Items
                 PROVE  /\ item'[i].recorded # Never => item'[i].recorded <= now'
                        /\ item'[i].visible # Never => /\ item'[i].recorded # Never
                                                       /\ item'[i].recorded <= item'[i].visible
                                                       /\ item'[i].visible <= now'
      BY DEF ItemsAreDated
    <2>1. /\ item[i].recorded # Never => item[i].recorded <= now
          /\ item[i].visible # Never => /\ item[i].recorded # Never
                                        /\ item[i].recorded <= item[i].visible
                                        /\ item[i].visible <= now
      BY DEF NotesInv, ItemsAreDated
    <2> QED BY <1>1, <1>2, <1>4, <2>1, NeverIsNoTime
  <1>7. PollsAreOrdered'
    <2>1. fetch.at # "idle" => fetch.began \in Nat
      BY <1>1 DEF Fetch
    <2>2. LookbackOf' = LookbackOf
      BY <1>1 DEF LookbackOf
    <2> QED BY <1>1, <2>1, <2>2 DEF NotesInv, PollsAreOrdered
  <1>8. FetchIsComplete'
    <2> SUFFICES ASSUME fetch.at = "save", NEW i \in Items,
                        item'[i].visible # Never, item'[i].visible < fetch.began,
                        item'[i].recorded >= fetch.from
                 PROVE  i \in fetch.left \cup kept
      BY <1>1 DEF FetchIsComplete
    <2>1. fetch.began \in Nat
      BY <1>1 DEF Fetch
    <2>2. item'[i] = item[i]
      BY <1>1, <1>2, <2>1
    <2> QED BY <2>2 DEF NotesInv, FetchIsComplete
  <1>9. ItemIsCaught'
    <2> SUFFICES ASSUME polledAt # Never, NEW i \in Items, Timely(i)',
                        item'[i].visible < polledAt
                 PROVE  i \in kept
      BY <1>1 DEF ItemIsCaught
    <2>1. item'[i] = item[i]
      BY <1>1, <1>2 DEF Timely
    <2>2. Timely(i)
      BY <1>1, <2>1 DEF Timely, LookbackOf
    <2> QED BY <2>1, <2>2 DEF NotesInv, ItemIsCaught
  <1> QED BY <1>5, <1>6, <1>7, <1>8, <1>9 DEF NotesInv

\* A step of the poll.
LEMMA PollKeepsNotes ==
    ASSUME NotesInv,
           \/ BeginPoll \/ Ask \/ EndPoll \/ PollRaises \/ (\E i \in Items : Keep(i))
           \/ (\E there \in BOOLEAN : SetKey(there)) \/ UNCHANGED noteVars
    PROVE  NotesInv'
  <1> USE DEF Time
  <1>1. /\ UNCHANGED <<taker, now, item>> /\ now \in Nat /\ MaxTime \in Nat /\ now \in Time
        /\ Lookback \in Nat /\ FirstWindow \in Nat
        /\ polledAt \in Nat \cup {Never} /\ polledAt \in Time \cup {Never}
        /\ since \in Int /\ fetch \in Fetch
        /\ item \in [Items -> ItemRecord] /\ kept \subseteq Items /\ taker \in Takers
        /\ LookbackOf' = LookbackOf /\ LookbackOf \in Nat
        /\ fetch.at \in {"idle", "ask", "save"}
    BY WindowsAreNatural
       DEF NotesInv, NotesTypeOK, BeginPoll, Ask, EndPoll, PollRaises, Keep, SetKey, noteVars,
           LookbackOf, Fetch
  <1>k. key' \in BOOLEAN
    BY Zenon DEF NotesInv, NotesTypeOK, BeginPoll, Ask, EndPoll, PollRaises, Keep, SetKey, noteVars
  <1>2. ItemsAreDated'
    BY <1>1 DEF NotesInv, ItemsAreDated
  <1>3. CASE BeginPoll
    <2>1. /\ fetch' = [at |-> "ask", began |-> now, from |-> Window(now), left |-> {}]
          /\ UNCHANGED <<polledAt, since, kept>>
      BY <1>3 DEF BeginPoll
    <2>2. Window(now) \in Int /\ (polledAt # Never => Window(now) = polledAt - LookbackOf)
      BY <1>1 DEF Window, FathomWindow, PocketWindow, LookbackOf
    <2>3. NotesTypeOK'
      <3>1. fetch' \in Fetch
        BY <1>1, <2>1, <2>2 DEF Fetch
      <3> QED BY <1>1, <1>k, <2>1, <3>1 DEF NotesTypeOK
    <2>4. PollsAreOrdered'
      BY <1>1, <2>1, <2>2 DEF NotesInv, PollsAreOrdered
    <2>5. FetchIsComplete' /\ ItemIsCaught'
      BY <1>1, <2>1 DEF NotesInv, FetchIsComplete, ItemIsCaught, Timely
    <2> QED BY <1>2, <2>3, <2>4, <2>5 DEF NotesInv
  <1>4. CASE Ask
    <2> DEFINE found == {i \in Items : item[i].visible # Never /\ item[i].recorded >= fetch.from}
    <2>1. /\ fetch' = [fetch EXCEPT !.at = "save", !.left = found]
          /\ UNCHANGED <<polledAt, since, kept>> /\ fetch.at = "ask"
      BY <1>4 DEF Ask
    <2>2. \A i \in Items : item[i].visible # Never /\ item[i].recorded >= fetch.from => i \in found
      OBVIOUS
    <2>3. found \subseteq Items
      OBVIOUS
    <2> HIDE DEF found
    <2>4. /\ fetch' \in Fetch /\ fetch'.at = "save" /\ fetch'.left = found
          /\ fetch'.began = fetch.began /\ fetch'.from = fetch.from
      BY <1>1, <2>1, <2>3 DEF Fetch
    <2>5. NotesTypeOK'
      BY <1>1, <1>k, <2>1, <2>4 DEF NotesTypeOK
    <2>6. PollsAreOrdered'
      BY <1>1, <2>1, <2>4 DEF NotesInv, PollsAreOrdered
    <2>7. FetchIsComplete'
      BY <1>1, <2>2, <2>4 DEF FetchIsComplete
    <2>8. ItemIsCaught'
      BY <1>1, <2>1 DEF NotesInv, ItemIsCaught, Timely
    <2> QED BY <1>2, <2>5, <2>6, <2>7, <2>8 DEF NotesInv
  <1>5. ASSUME NEW j \in Items, Keep(j) PROVE NotesInv'
    <2>1. /\ fetch' = [fetch EXCEPT !.left = fetch.left \ {j}] /\ kept' = kept \cup {j}
          /\ UNCHANGED <<polledAt, since>> /\ fetch.at = "save"
      BY <1>5 DEF Keep
    <2>2. /\ fetch' \in Fetch /\ fetch'.at = "save" /\ fetch'.left = fetch.left \ {j}
          /\ fetch'.began = fetch.began /\ fetch'.from = fetch.from
      BY <1>1, <2>1 DEF Fetch
    <2>3. NotesTypeOK'
      BY <1>1, <1>k, <2>1, <2>2 DEF NotesTypeOK
    <2>4. PollsAreOrdered'
      BY <1>1, <2>1, <2>2 DEF NotesInv, PollsAreOrdered
    <2>5. FetchIsComplete'
      BY <1>1, <2>1, <2>2 DEF NotesInv, FetchIsComplete
    <2>6. ItemIsCaught'
      BY <1>1, <2>1 DEF NotesInv, ItemIsCaught, Timely
    <2> QED BY <1>2, <2>3, <2>4, <2>5, <2>6 DEF NotesInv
  <1>6. CASE EndPoll
    <2>1. /\ fetch.at = "save" /\ fetch.left = {} /\ polledAt' = fetch.began
          /\ since' = (IF polledAt = Never THEN fetch.from ELSE since)
          /\ fetch' = IdleFetch /\ kept' = kept
      BY <1>6 DEF EndPoll
    <2>2. /\ fetch.began \in Time /\ fetch.from \in Int /\ fetch.began \in Nat
          /\ IdleFetch \in Fetch /\ IdleFetch.at = "idle"
      BY <1>1 DEF Fetch, IdleFetch
    <2>3. NotesTypeOK'
      BY <1>1, <1>k, <2>1, <2>2 DEF NotesTypeOK
    <2>4. PollsAreOrdered' /\ FetchIsComplete'
      BY <1>1, <2>1, <2>2 DEF NotesInv, PollsAreOrdered, FetchIsComplete
    <2>5. ItemIsCaught'
      <3> SUFFICES ASSUME NEW i \in Items, Timely(i)', item'[i].visible < fetch.began
                   PROVE  i \in kept
        BY <2>1 DEF ItemIsCaught
      <3>1. /\ item[i].visible # Never /\ item[i].recorded >= since'
            /\ item[i].visible - item[i].recorded <= LookbackOf
            /\ item[i].visible < fetch.began
        BY <1>1 DEF Timely
      <3>2. item[i].visible \in Nat /\ item[i].recorded \in Nat
        <4>1. item[i].recorded # Never
          BY <3>1 DEF NotesInv, ItemsAreDated
        <4> QED BY <1>1, <3>1, <4>1 DEF ItemRecord
      <3>3. item[i].recorded >= fetch.from => i \in kept
        BY <2>1, <3>1 DEF NotesInv, FetchIsComplete
      <3>4. CASE polledAt = Never
        BY <2>1, <3>1, <3>3, <3>4
      <3>5. CASE polledAt # Never
        <4>1. fetch.from = polledAt - LookbackOf /\ polledAt \in Nat
          BY <1>1, <2>1, <3>5 DEF NotesInv, PollsAreOrdered
        <4>2. CASE item[i].visible < polledAt
          <5>1. Timely(i)
            BY <2>1, <3>1, <3>5 DEF Timely
          <5> QED BY <3>5, <4>2, <5>1 DEF NotesInv, ItemIsCaught
        <4>3. CASE item[i].visible >= polledAt
          BY <1>1, <3>1, <3>2, <3>3, <4>1, <4>3
        <4> QED BY <3>2, <4>1, <4>2, <4>3
      <3> QED BY <3>4, <3>5
    <2> QED BY <1>2, <2>3, <2>4, <2>5 DEF NotesInv
  <1>7. CASE PollRaises \/ (\E there \in BOOLEAN : SetKey(there)) \/ UNCHANGED noteVars
    <2>1. /\ UNCHANGED <<polledAt, since, kept>>
          /\ fetch' = fetch \/ fetch' = IdleFetch
      BY <1>7 DEF PollRaises, SetKey, noteVars
    <2>2. IdleFetch \in Fetch /\ IdleFetch.at = "idle"
      BY <1>1 DEF Fetch, IdleFetch
    <2>3. NotesTypeOK'
      BY <1>1, <1>k, <2>1, <2>2 DEF NotesTypeOK
    <2>4. PollsAreOrdered' /\ FetchIsComplete' /\ ItemIsCaught'
      BY <1>1, <2>1, <2>2
         DEF NotesInv, PollsAreOrdered, FetchIsComplete, ItemIsCaught, Timely
    <2> QED BY <1>2, <2>3, <2>4 DEF NotesInv
  <1> QED BY <1>3, <1>4, <1>5, <1>6, <1>7

\* What was recorded in the window of a poll and was there when it began is kept, for either
\* note taker and any recordings and polls that raised (src/pollers/pocket/poller.py).
THEOREM NotesInvariance == NotesSpec => []NotesInv
  <1>1. NotesInit => NotesInv
    BY NotesStart
  <1>2. NotesInv /\ [NotesNext]_noteVars => NotesInv'
    BY TimeKeepsNotes, PollKeepsNotes DEF NotesNext
  <1> QED BY <1>1, <1>2, PTL DEF NotesSpec

---------------------------------------------------------------------------
(* The machine *)

\* The model is asked about another snapshot than the one on record, and what it named
\* is saved before that one is recorded.
SurveyIsAhead ==
    /\ survey.at \in {"ask", "save"} => survey.of \in Snapshots /\ survey.of # hashed
    /\ survey.at = "save" => due[survey.of] \subseteq survey.left

SystemInv == SystemTypeOK /\ SurveyIsAhead /\ SnapshotIsHeeded

LEMMA SystemStarts == SystemInit => SystemInv
  <1> SUFFICES ASSUME SystemInit PROVE SystemInv
    OBVIOUS
  <1>1. 0 \in 0 .. LastTime /\ 0 - MinInterval \in Int
    BY SystemBounds
  <1>2. IdleSurvey \in Survey /\ IdleSurvey.at = "idle"
    BY <1>1 DEF IdleSurvey, Survey
  <1>3. due \in [Snapshots -> SUBSET Issues]
    BY Zenon DEF SystemInit
  <1>4. SystemTypeOK
    BY <1>1, <1>2, <1>3 DEF SystemInit, SystemTypeOK
  <1> QED BY <1>2, <1>4 DEF SystemInit, SystemInv, SurveyIsAhead, SnapshotIsHeeded

LEMMA SystemSteps == SystemInv /\ [SystemNext]_systemVars => SystemInv'
  <1> SUFFICES ASSUME SystemInv, [SystemNext]_systemVars PROVE SystemInv'
    OBVIOUS
  <1>1. /\ clock \in 0 .. LastTime /\ machine \in Machines /\ survey \in Survey
        /\ hashed \in Snapshots \cup {NoSnapshot} /\ surveyed \in Int
        /\ due \in [Snapshots -> SUBSET Issues]
        /\ LastTime \in Nat /\ NoSnapshot \notin Snapshots
    BY SystemBounds, NoSnapshotIsNone DEF SystemInv, SystemTypeOK, Snapshots
  <1>2. IdleSurvey \in Survey /\ IdleSurvey.at = "idle"
    <2>1. 0 \in 0 .. LastTime
      BY <1>1
    <2> QED BY <2>1 DEF IdleSurvey, Survey
  <1>3. CASE ClockTicks \/ MachineChanges \/ UNCHANGED systemVars
    <2>1. /\ clock' \in 0 .. LastTime /\ machine' \in Machines
          /\ UNCHANGED <<survey, hashed, surveyed, due>>
      BY <1>1, <1>3 DEF ClockTicks, MachineChanges, systemVars
    <2> QED BY <1>1, <2>1 DEF SystemInv, SystemTypeOK, SurveyIsAhead, SnapshotIsHeeded
  <1>4. CASE LookAround
    <2>1. PICK s \in Build :
             IF s = hashed THEN surveyed' = clock /\ UNCHANGED survey
             ELSE /\ survey' = [at |-> "ask", of |-> s, began |-> clock, left |-> {}]
                  /\ UNCHANGED surveyed
      BY <1>4 DEF LookAround
    <2>2. s \in Snapshots /\ UNCHANGED <<clock, machine, hashed, due>>
      BY <1>1, <1>4, <2>1 DEF LookAround, Build, Snapshots
    <2>3. CASE s = hashed
      <3>1. UNCHANGED survey /\ surveyed' \in Int
        BY <1>1, <2>1, <2>3
      <3> QED BY <1>1, <2>2, <3>1 DEF SystemInv, SystemTypeOK, SurveyIsAhead, SnapshotIsHeeded
    <2>4. CASE s # hashed
      <3>1. /\ survey' = [at |-> "ask", of |-> s, began |-> clock, left |-> {}]
            /\ UNCHANGED surveyed /\ survey' \in Survey
        BY <1>1, <2>1, <2>2, <2>4 DEF Survey
      <3> QED BY <1>1, <2>2, <2>4, <3>1
              DEF SystemInv, SystemTypeOK, SurveyIsAhead, SnapshotIsHeeded
    <2> QED BY <2>3, <2>4
  <1>5. CASE GenerateTodos
    <2>1. PICK answer \in SUBSET Issues :
             /\ survey' = [survey EXCEPT !.at = "save", !.left = answer]
             /\ due' = [due EXCEPT ![survey.of] = answer]
      BY <1>5 DEF GenerateTodos
    <2>2. /\ survey.of \in Snapshots /\ survey.of # hashed
          /\ UNCHANGED <<clock, machine, hashed, surveyed>>
      BY <1>5 DEF GenerateTodos, SystemInv, SurveyIsAhead
    <2>3. /\ survey' \in Survey /\ survey'.at = "save" /\ survey'.left = answer
          /\ survey'.of = survey.of
      BY <1>1, <2>1 DEF Survey
    <2>4. /\ due' \in [Snapshots -> SUBSET Issues] /\ due'[survey.of] = answer
          /\ \A t \in Snapshots : t # survey.of => due'[t] = due[t]
      BY <1>1, <2>1, <2>2
    <2> QED BY <1>1, <2>2, <2>3, <2>4 DEF SystemInv, SystemTypeOK, SurveyIsAhead, SnapshotIsHeeded
  <1>6. ASSUME NEW i \in Issues, SaveSystemTodo(i) PROVE SystemInv'
    <2>1. /\ survey.at = "save" /\ survey.of \in Snapshots /\ survey.of # hashed
          /\ due[survey.of] \subseteq survey.left
          /\ survey' = [survey EXCEPT !.left = survey.left \ {i}]
          /\ due' = [due EXCEPT ![survey.of] = due[survey.of] \ {i}]
          /\ UNCHANGED <<clock, machine, hashed, surveyed>>
      BY <1>6 DEF SaveSystemTodo, SystemInv, SurveyIsAhead
    <2>2. /\ survey' \in Survey /\ survey'.at = "save" /\ survey'.left = survey.left \ {i}
          /\ survey'.of = survey.of
      BY <1>1, <2>1 DEF Survey
    <2>3. /\ due' \in [Snapshots -> SUBSET Issues] /\ due'[survey.of] = due[survey.of] \ {i}
          /\ \A t \in Snapshots : t # survey.of => due'[t] = due[t]
      BY <1>1, <2>1
    <2> QED BY <1>1, <2>1, <2>2, <2>3 DEF SystemInv, SystemTypeOK, SurveyIsAhead, SnapshotIsHeeded
  <1>7. CASE HashSnapshot
    <2>1. /\ survey.at = "save" /\ survey.left = {} /\ hashed' = survey.of
          /\ survey' = [survey EXCEPT !.at = "stamp"]
          /\ UNCHANGED <<clock, machine, surveyed, due>>
          /\ survey.of \in Snapshots /\ due[survey.of] \subseteq survey.left
      BY <1>7 DEF HashSnapshot, SystemInv, SurveyIsAhead
    <2>2. survey' \in Survey /\ survey'.at = "stamp"
      BY <1>1, <2>1 DEF Survey
    <2> QED BY <1>1, <2>1, <2>2 DEF SystemInv, SystemTypeOK, SurveyIsAhead, SnapshotIsHeeded
  <1>8. CASE StampSurvey \/ SurveyEnds
    <2>1. /\ survey' = IdleSurvey /\ surveyed' \in Int
          /\ UNCHANGED <<clock, machine, hashed, due>>
      BY <1>1, <1>8 DEF StampSurvey, SurveyEnds, Survey
    <2> QED BY <1>1, <1>2, <2>1 DEF SystemInv, SystemTypeOK, SurveyIsAhead, SnapshotIsHeeded
  <1> QED BY <1>3, <1>4, <1>5, <1>6, <1>7, <1>8 DEF SystemNext

\* A snapshot of the machine that is on record has had its answer worked through, wherever a
\* poll ended (src/pollers/system/poller.py).
THEOREM SystemInvariance == SystemSpec => []SystemInv
  BY SystemStarts, SystemSteps, PTL DEF SystemSpec

---------------------------------------------------------------------------
(* The mail *)

\* An account that is backfilled, with nothing under way that makes it anew.
Firm == backfilled /\ ~pending /\ ~raced

\* What has its verdict, or will not be read again.
Settled == considered \cup lost \cup IF poller.at \in {"todos", "notify"} THEN poller.batch ELSE {}

\* The cursor of such an account has passed nothing else.
CursorIsSettled == Firm => cursor # None /\ 1 .. cursor \subseteq Settled

\* A backfill goes on until its mark is taken away, and its batch goes past its baseline.
BackfillGoesOn ==
    /\ poller.at \in {"baseline", "store", "flag", "unmark"} => pending
    /\ poller.at \in {"store", "flag", "unmark"} => 1 .. poller.base \subseteq poller.batch
    /\ poller.at \in {"flag", "unmark"} => raced \/ cursor = poller.base
    /\ poller.at = "baseline" => poller.base <= mailbox

\* A poll of the history begins at the cursor and reads what comes after it.
HistoryGoesOn ==
    /\ poller.at = "first" => ~Firm
    /\ poller.at = "history" /\ Firm => cursor = poller.base
    /\ poller.at = "advance" /\ Firm =>
           1 .. poller.base \subseteq considered \cup lost \cup poller.batch

\* A todo that is still to be told of was not told of before.
TellsOfNew ==
    poller.at = "notify" => /\ poller.base \in rows
                            /\ announced[poller.base] = 0

MailInv ==
    /\ LocalMailTypeOK /\ CursorIsSettled /\ BackfillGoesOn /\ HistoryGoesOn
    /\ TellsOfNew /\ AnnouncedOnce

LEMMA MailStarts == MailInit => MailInv
  <1> SUFFICES ASSUME MailInit PROVE MailInv
    OBVIOUS
  <1>1. /\ IdlePoller.at = "idle" /\ 0 \in 0 .. MaxMail /\ 0 \in 0 .. MaxConnects
    BY MailBounds DEF IdlePoller
  <1>2. IdlePoller \in Poller
    BY <1>1 DEF IdlePoller, Poller, Places
  <1>3. connected \in BOOLEAN /\ pending \in BOOLEAN /\ backfilled \in BOOLEAN /\ raced \in BOOLEAN
    BY Zenon DEF MailInit
  <1>4. announced \in [Mail -> Nat]
    BY DEF MailInit
  <1>5. LocalMailTypeOK
    BY <1>1, <1>2, <1>3, <1>4 DEF MailInit, LocalMailTypeOK
  <1>6. /\ ~backfilled /\ poller.at = "idle" /\ \A m \in Mail : announced[m] = 0
    BY <1>1 DEF MailInit
  <1> QED BY <1>5, <1>6 DEF MailInv, CursorIsSettled, BackfillGoesOn, HistoryGoesOn, TellsOfNew,
             AnnouncedOnce, Firm

\* The types, without the records.
LEMMA MailParts ==
    ASSUME LocalMailTypeOK
    PROVE  /\ mailbox \in Nat /\ mailbox <= MaxMail /\ MaxMail \in Nat /\ None \notin Nat
           /\ poller.at \in Places /\ poller.base \in 0 .. MaxMail /\ poller.base \in Nat
           /\ poller.batch \subseteq Mail
           /\ poller = [at |-> poller.at, base |-> poller.base, batch |-> poller.batch]
           /\ IdlePoller \in Poller /\ IdlePoller.at = "idle" /\ IdlePoller.batch = {}
  <1>1. poller \in Poller /\ MaxMail \in Nat /\ mailbox \in 0 .. MaxMail
    BY MailBounds DEF LocalMailTypeOK
  <1>2. /\ poller.at \in Places /\ poller.base \in 0 .. MaxMail /\ poller.batch \subseteq Mail
        /\ poller = [at |-> poller.at, base |-> poller.base, batch |-> poller.batch]
    BY <1>1 DEF Poller
  <1>3. 0 \in 0 .. MaxMail
    BY <1>1
  <1>4. IdlePoller \in Poller /\ IdlePoller.at = "idle" /\ IdlePoller.batch = {}
    BY <1>3 DEF IdlePoller, Poller, Places
  <1> QED BY <1>1, <1>2, <1>4, NoneIsNoMail

\* The provider, the web server and the person.
LEMMA CallbackKeepsMail ==
    ASSUME MailInv,
           \/ Arrive \/ Connect \/ AskBackfilled \/ MarkPending \/ ClearCursor \/ CallbackDies
           \/ Disconnect \/ UNCHANGED mailVars
    PROVE  MailInv'
  <1>1. /\ LocalMailTypeOK
        /\ UNCHANGED <<backfilled, poller, considered, rows, announced, lost>>
    BY DEF MailInv, Arrive, Connect, AskBackfilled, MarkPending, ClearCursor, CallbackDies,
           Disconnect, mailVars, settings
  <1>2. /\ mailbox \in Nat /\ mailbox' \in Nat /\ mailbox <= mailbox' /\ mailbox' \in 0 .. MaxMail
        /\ None \notin Nat /\ poller.base \in Nat
    BY <1>1, MailParts
       DEF Arrive, Connect, AskBackfilled, MarkPending, ClearCursor, CallbackDies,
           Disconnect, mailVars, settings
  <1>3. /\ connected' \in BOOLEAN /\ pending' \in BOOLEAN /\ raced' \in BOOLEAN
        /\ connects' \in 0 .. MaxConnects /\ web' \in {"idle", "ask", "mark", "clear"}
    <2>1. connected' \in BOOLEAN /\ pending' \in BOOLEAN
      BY <1>1, Zenon DEF LocalMailTypeOK, Arrive, Connect, AskBackfilled, MarkPending, ClearCursor,
         CallbackDies, Disconnect, mailVars, settings
    <2>2. raced' \in BOOLEAN
      BY <1>1 DEF LocalMailTypeOK, Arrive, Connect, AskBackfilled, MarkPending, ClearCursor,
         CallbackDies, Disconnect, mailVars, settings
    <2>3. connects' \in 0 .. MaxConnects
      BY <1>1, MailBounds
         DEF LocalMailTypeOK, Arrive, Connect, AskBackfilled, MarkPending, ClearCursor,
             CallbackDies, Disconnect, mailVars, settings
    <2>4. web' \in {"idle", "ask", "mark", "clear"}
      BY <1>1 DEF LocalMailTypeOK, Arrive, Connect, AskBackfilled, MarkPending, ClearCursor,
         CallbackDies, Disconnect, mailVars, settings
    <2> QED BY <2>1, <2>2, <2>3, <2>4
  <1>4. /\ cursor' = cursor \/ cursor' = None
        /\ cursor' # cursor => raced' \/ pending'
        /\ cursor' # cursor => raced' \/ poller.at \notin {"flag", "unmark"}
        /\ raced => raced'
        /\ pending => pending'
    <2>1. CASE ClearCursor
      BY <2>1 DEF ClearCursor
    <2>2. CASE ~ClearCursor
      <3>1. cursor' = cursor /\ raced' = raced
        BY <2>2 DEF Arrive, Connect, AskBackfilled, MarkPending, CallbackDies,
           Disconnect, mailVars, settings
      <3>2. pending' = pending \/ MarkPending
        BY <2>2 DEF Arrive, Connect, AskBackfilled, MarkPending, CallbackDies,
           Disconnect, mailVars, settings
      <3>3. MarkPending => pending'
        BY Zenon DEF MarkPending
      <3> QED BY <3>1, <3>2, <3>3
    <2> QED BY <2>1, <2>2
  <1>5. Firm' => Firm /\ cursor' = cursor
    BY <1>1, <1>4 DEF Firm
  <1>6. LocalMailTypeOK'
    BY <1>1, <1>2, <1>3, <1>4 DEF LocalMailTypeOK
  <1>7. CursorIsSettled'
    BY <1>1, <1>5 DEF MailInv, CursorIsSettled, Settled
  <1>8. BackfillGoesOn'
    BY <1>1, <1>2, <1>4 DEF MailInv, BackfillGoesOn
  <1>9. HistoryGoesOn' /\ TellsOfNew' /\ AnnouncedOnce'
    BY <1>1, <1>5 DEF MailInv, HistoryGoesOn, TellsOfNew, AnnouncedOnce
  <1> QED BY <1>6, <1>7, <1>8, <1>9 DEF MailInv

\* A poll that has not come to its todos.
LEMMA ReadKeepsMail ==
    ASSUME MailInv,
           \/ Begin \/ StartAtPresent \/ Backfill \/ StoreBaseline \/ FlagBackfilled
           \/ History \/ Advance
    PROVE  MailInv'
  <1>1. /\ LocalMailTypeOK
        /\ UNCHANGED <<mailbox, connected, pending, web, connects, considered, rows, announced,
                       lost, raced>>
    BY DEF MailInv, Begin, StartAtPresent, Backfill, StoreBaseline, FlagBackfilled, History,
           Advance, settings
  <1>2. /\ mailbox \in Nat /\ mailbox <= MaxMail /\ MaxMail \in Nat /\ None \notin Nat
        /\ mailbox \in 0 .. MaxMail
        /\ poller.at \in Places /\ poller.base \in 0 .. MaxMail /\ poller.base \in Nat
        /\ poller.batch \subseteq Mail
        /\ poller = [at |-> poller.at, base |-> poller.base, batch |-> poller.batch]
        /\ IdlePoller \in Poller /\ IdlePoller.at = "idle" /\ IdlePoller.batch = {}
        /\ cursor \in 0 .. MaxMail \cup {None}
    BY <1>1, MailParts DEF LocalMailTypeOK
  <1>3. AnnouncedOnce'
    BY <1>1 DEF MailInv, AnnouncedOnce
  <1>4. ASSUME poller' \in Poller, cursor' \in 0 .. MaxMail \cup {None}, backfilled' \in BOOLEAN
        PROVE  LocalMailTypeOK'
    BY <1>1, <1>4 DEF LocalMailTypeOK
  <1>5. CASE Begin
    <2>1. /\ poller.at = "idle" /\ UNCHANGED <<cursor, backfilled>>
          /\ poller' = [at |-> IF pending THEN "baseline"
                               ELSE IF cursor = None THEN "first" ELSE "history",
                        base |-> IF ~pending /\ cursor # None THEN cursor ELSE mailbox,
                        batch |-> {}]
      BY <1>5 DEF Begin, settings
    <2>2. /\ poller'.at \in {"baseline", "first", "history"}
          /\ poller'.at = "baseline" => pending /\ poller'.base = mailbox
          /\ poller'.at = "first" => ~pending /\ cursor = None
          /\ poller'.at = "history" => poller'.base = cursor
      BY <2>1
    <2>3. poller' \in Poller
      BY <1>2, <2>1 DEF Poller, Places
    <2>4. LocalMailTypeOK'
      BY <1>1, <1>2, <2>1, <2>3, <1>4 DEF LocalMailTypeOK
    <2>5. CursorIsSettled'
      BY <1>1, <2>1, <2>2 DEF MailInv, CursorIsSettled, Settled, Firm
    <2>6. BackfillGoesOn' /\ HistoryGoesOn' /\ TellsOfNew'
      BY <1>1, <1>2, <2>1, <2>2
         DEF MailInv, CursorIsSettled, BackfillGoesOn, HistoryGoesOn, TellsOfNew, Firm
    <2> QED BY <1>3, <2>4, <2>5, <2>6 DEF MailInv
  <1>6. CASE StartAtPresent
    <2>1. /\ poller.at = "first" /\ cursor' = poller.base /\ poller' = IdlePoller
          /\ UNCHANGED backfilled
      BY <1>6 DEF StartAtPresent, settings
    <2>2. LocalMailTypeOK'
      BY <1>1, <1>2, <2>1, <1>4 DEF LocalMailTypeOK
    <2>3. ~Firm' /\ poller'.at = "idle"
      BY <1>1, <1>2, <2>1 DEF MailInv, HistoryGoesOn, Firm
    <2> QED BY <1>3, <2>2, <2>3
            DEF MailInv, CursorIsSettled, BackfillGoesOn, HistoryGoesOn, TellsOfNew
  <1>7. CASE Backfill
    <2>1. /\ poller.at = "baseline" /\ poller' = [poller EXCEPT !.at = "store", !.batch = 1 .. mailbox]
          /\ UNCHANGED <<cursor, backfilled>>
      BY <1>7 DEF Backfill, settings
    <2>2. poller' = [at |-> "store", base |-> poller.base, batch |-> 1 .. mailbox]
      BY <1>2, <2>1
    <2>3. 1 .. mailbox \subseteq Mail
      BY <1>2 DEF Mail
    <2>4. poller' \in Poller /\ poller'.at = "store"
      BY <1>2, <2>2, <2>3 DEF Poller, Places
    <2>5. LocalMailTypeOK'
      BY <1>1, <1>2, <2>1, <2>4, <1>4 DEF LocalMailTypeOK
    <2>6. pending /\ 1 .. poller.base \subseteq 1 .. mailbox
      BY <1>2, <2>1 DEF MailInv, BackfillGoesOn
    <2> QED BY <1>1, <1>3, <2>2, <2>5, <2>6
            DEF MailInv, CursorIsSettled, BackfillGoesOn, HistoryGoesOn, TellsOfNew, Firm
  <1>8. CASE StoreBaseline
    <2>1. /\ poller.at = "store" /\ cursor' = poller.base /\ UNCHANGED backfilled
          /\ poller' = [poller EXCEPT !.at = "flag"]
      BY <1>8 DEF StoreBaseline, settings
    <2>2. poller' = [at |-> "flag", base |-> poller.base, batch |-> poller.batch]
      BY <1>2, <2>1
    <2>3. poller' \in Poller
      BY <1>2, <2>2 DEF Poller, Places
    <2>4. LocalMailTypeOK'
      BY <1>1, <1>2, <2>1, <2>3, <1>4 DEF LocalMailTypeOK
    <2> QED BY <1>1, <1>3, <2>1, <2>2, <2>4
            DEF MailInv, CursorIsSettled, BackfillGoesOn, HistoryGoesOn, TellsOfNew, Firm
  <1>9. CASE FlagBackfilled
    <2>1. /\ poller.at = "flag" /\ backfilled' = TRUE /\ UNCHANGED cursor
          /\ poller' = [poller EXCEPT !.at = "unmark"]
      BY <1>9 DEF FlagBackfilled
    <2>2. poller' = [at |-> "unmark", base |-> poller.base, batch |-> poller.batch]
      BY <1>2, <2>1
    <2>3. poller' \in Poller
      BY <1>2, <2>2 DEF Poller, Places
    <2>4. LocalMailTypeOK'
      BY <1>1, <1>2, <2>1, <2>3, <1>4 DEF LocalMailTypeOK
    <2> QED BY <1>1, <1>3, <2>1, <2>2, <2>4
            DEF MailInv, CursorIsSettled, BackfillGoesOn, HistoryGoesOn, TellsOfNew, Firm
  <1>10. CASE History
    <2>1. /\ poller.at = "history" /\ UNCHANGED <<cursor, backfilled>>
          /\ poller' = (IF mailbox = poller.base THEN IdlePoller
                        ELSE [at |-> "advance", base |-> mailbox,
                              batch |-> poller.base + 1 .. mailbox])
      BY <1>10 DEF History, settings
    <2>2. poller.base + 1 .. mailbox \subseteq Mail
      BY <1>2 DEF Mail
    <2>3. poller' \in Poller /\ poller'.at \in {"idle", "advance"}
      BY <1>2, <2>1, <2>2 DEF Poller, Places
    <2>4. LocalMailTypeOK'
      BY <1>1, <1>2, <2>1, <2>3, <1>4 DEF LocalMailTypeOK
    <2>5. CursorIsSettled' /\ Settled = considered \cup lost
      BY <1>1, <2>1, <2>3 DEF MailInv, CursorIsSettled, Settled, Firm
    <2>6. poller'.at = "advance" /\ Firm =>
             1 .. poller'.base \subseteq considered \cup lost \cup poller'.batch
      <3> SUFFICES ASSUME poller'.at = "advance", Firm, NEW m \in 1 .. mailbox
                   PROVE  m \in considered \cup lost \cup (poller.base + 1 .. mailbox)
        BY <1>2, <2>1
      <3>1. cursor = poller.base /\ 1 .. cursor \subseteq considered \cup lost
        BY <2>1, <2>5 DEF MailInv, CursorIsSettled, HistoryGoesOn
      <3>2. m \in 1 .. poller.base \/ m \in poller.base + 1 .. mailbox
        BY <1>2
      <3> QED BY <3>1, <3>2
    <2>7. BackfillGoesOn' /\ HistoryGoesOn' /\ TellsOfNew'
      BY <1>1, <2>1, <2>3, <2>6 DEF BackfillGoesOn, HistoryGoesOn, TellsOfNew, Firm
    <2> QED BY <1>3, <2>4, <2>5, <2>7 DEF MailInv
  <1>11. CASE Advance
    <2>1. /\ poller.at = "advance" /\ cursor' = poller.base /\ UNCHANGED backfilled
          /\ poller' = [poller EXCEPT !.at = "todos"]
      BY <1>11 DEF Advance, settings
    <2>2. poller' = [at |-> "todos", base |-> poller.base, batch |-> poller.batch]
      BY <1>2, <2>1
    <2>3. poller' \in Poller
      BY <1>2, <2>2 DEF Poller, Places
    <2>4. LocalMailTypeOK'
      BY <1>1, <1>2, <2>1, <2>3, <1>4 DEF LocalMailTypeOK
    <2>5. CursorIsSettled'
      BY <1>1, <1>2, <2>1, <2>2 DEF MailInv, CursorIsSettled, HistoryGoesOn, Settled, Firm
    <2>6. BackfillGoesOn' /\ HistoryGoesOn' /\ TellsOfNew'
      BY <2>2 DEF BackfillGoesOn, HistoryGoesOn, TellsOfNew
    <2> QED BY <1>3, <2>4, <2>5, <2>6 DEF MailInv
  <1> QED BY <1>5, <1>6, <1>7, <1>8, <1>9, <1>10, <1>11

\* A poll at its todos, and the ends of one.
LEMMA TodosKeepMail ==
    ASSUME MailInv, Unmark \/ (\E m \in Mail : Judge(m)) \/ Notify \/ EndOfBatch \/ PollEnds
    PROVE  MailInv'
  <1>1. /\ LocalMailTypeOK
        /\ UNCHANGED <<mailbox, connected, backfilled, web, connects, cursor, raced>>
    BY DEF MailInv, Unmark, Judge, Notify, EndOfBatch, PollEnds, settings
  <1>2. /\ None \notin Nat
        /\ poller.at \in Places /\ poller.base \in 0 .. MaxMail /\ poller.base \in Nat
        /\ poller.batch \subseteq Mail
        /\ poller = [at |-> poller.at, base |-> poller.base, batch |-> poller.batch]
        /\ IdlePoller \in Poller /\ IdlePoller.at = "idle" /\ IdlePoller.batch = {}
        /\ considered \subseteq Mail /\ rows \subseteq Mail /\ lost \subseteq Mail
        /\ announced \in [Mail -> Nat]
    BY <1>1, MailParts DEF LocalMailTypeOK
  <1>4. ASSUME poller' \in Poller, pending' \in BOOLEAN, considered' \subseteq Mail,
               rows' \subseteq Mail, lost' \subseteq Mail, announced' \in [Mail -> Nat]
        PROVE  LocalMailTypeOK'
    BY <1>1, <1>4 DEF LocalMailTypeOK
  <1>5. CASE Unmark
    <2>1. /\ poller.at = "unmark" /\ pending' = FALSE /\ poller' = [poller EXCEPT !.at = "todos"]
          /\ UNCHANGED <<considered, rows, announced, lost>>
      BY <1>5 DEF Unmark
    <2>2. poller' = [at |-> "todos", base |-> poller.base, batch |-> poller.batch]
      BY <1>2, <2>1
    <2>3. poller' \in Poller
      BY <1>2, <2>2 DEF Poller, Places
    <2>4. LocalMailTypeOK'
      BY <1>1, <1>2, <2>1, <2>3, <1>4 DEF LocalMailTypeOK
    <2>5. CursorIsSettled'
      BY <1>1, <1>2, <2>1, <2>2 DEF MailInv, CursorIsSettled, BackfillGoesOn, Settled, Firm
    <2>6. BackfillGoesOn' /\ HistoryGoesOn' /\ TellsOfNew'
      BY <2>2 DEF BackfillGoesOn, HistoryGoesOn, TellsOfNew
    <2> QED BY <1>1, <2>1, <2>4, <2>5, <2>6 DEF MailInv, AnnouncedOnce
  <1>6. ASSUME NEW m \in Mail, Judge(m) PROVE MailInv'
    <2>1. /\ poller.at = "todos" /\ m \in poller.batch /\ considered' = considered \cup {m}
          /\ UNCHANGED <<announced, lost>>
      BY <1>6 DEF Judge
    <2>p. pending' = pending
      BY <1>6, Zenon DEF Judge, settings
    <2>2. /\ poller'.batch = poller.batch \ {m} /\ poller' \in Poller
          /\ \/ rows' = rows /\ poller'.at = "todos"
             \/ m \notin rows /\ rows' = rows \cup {m} /\ poller'.at = "notify" /\ poller'.base = m
      <3>1. CASE poller' = [poller EXCEPT !.batch = poller.batch \ {m}] /\ UNCHANGED rows
        <4>1. poller' = [at |-> "todos", base |-> poller.base, batch |-> poller.batch \ {m}]
          BY <1>2, <2>1, <3>1
        <4> QED BY <1>2, <3>1, <4>1 DEF Poller, Places
      <3>2. CASE /\ m \notin rows /\ rows' = rows \cup {m}
                 /\ poller' = [poller EXCEPT !.at = "notify", !.base = m,
                                             !.batch = poller.batch \ {m}]
        <4>1. poller' = [at |-> "notify", base |-> m, batch |-> poller.batch \ {m}]
          BY <1>2, <3>2
        <4>2. m \in 0 .. MaxMail
          BY MailBounds DEF Mail
        <4> QED BY <1>2, <3>2, <4>1, <4>2 DEF Poller, Places
      <3> QED BY <1>6, <3>1, <3>2 DEF Judge
    <2>3. LocalMailTypeOK'
      BY <1>1, <1>2, <2>1, <2>p, <2>2, <1>4 DEF LocalMailTypeOK
    <2>4. CursorIsSettled'
      BY <1>1, <2>1, <2>p, <2>2 DEF MailInv, CursorIsSettled, Settled, Firm
    <2>5. BackfillGoesOn' /\ HistoryGoesOn'
      BY <2>2 DEF BackfillGoesOn, HistoryGoesOn
    <2>6. TellsOfNew' /\ AnnouncedOnce'
      <3>1. m \notin rows => announced[m] = 0
        BY <1>2 DEF MailInv, AnnouncedOnce
      <3> QED BY <2>1, <2>2, <3>1 DEF MailInv, TellsOfNew, AnnouncedOnce
    <2> QED BY <2>3, <2>4, <2>5, <2>6 DEF MailInv
  <1>7. CASE Notify
    <2>1. /\ poller.at = "notify" /\ UNCHANGED <<considered, rows, lost>>
          /\ announced' = [announced EXCEPT ![poller.base] = announced[poller.base] + 1]
          /\ poller' = [poller EXCEPT !.at = "todos"]
      BY <1>7 DEF Notify
    <2>p. pending' = pending
      BY <1>7, Zenon DEF Notify, settings
    <2>2. poller' = [at |-> "todos", base |-> poller.base, batch |-> poller.batch]
      BY <1>2, <2>1
    <2>3. poller' \in Poller
      BY <1>2, <2>2 DEF Poller, Places
    <2>4. poller.base \in rows /\ poller.base \in Mail /\ announced[poller.base] = 0
      BY <1>2, <2>1 DEF MailInv, TellsOfNew
    <2>5. /\ announced' \in [Mail -> Nat] /\ announced'[poller.base] = 1
          /\ \A m \in Mail : m # poller.base => announced'[m] = announced[m]
      BY <1>2, <2>1, <2>4
    <2>6. LocalMailTypeOK'
      BY <1>1, <1>2, <2>1, <2>p, <2>3, <2>5, <1>4 DEF LocalMailTypeOK
    <2>7. CursorIsSettled'
      BY <1>1, <2>1, <2>p, <2>2 DEF MailInv, CursorIsSettled, Settled, Firm
    <2>8. BackfillGoesOn' /\ HistoryGoesOn' /\ TellsOfNew'
      BY <2>2 DEF BackfillGoesOn, HistoryGoesOn, TellsOfNew
    <2>9. AnnouncedOnce'
      BY <2>1, <2>4, <2>5 DEF MailInv, AnnouncedOnce
    <2> QED BY <2>6, <2>7, <2>8, <2>9 DEF MailInv
  <1>8. CASE EndOfBatch \/ PollEnds
    <2>1. /\ poller' = IdlePoller /\ UNCHANGED <<considered, rows, announced>>
          /\ lost' = (IF poller.at \in {"todos", "notify"} THEN lost \cup poller.batch ELSE lost)
      BY <1>8 DEF EndOfBatch, PollEnds
    <2>p. pending' = pending
      BY <1>8, Zenon DEF EndOfBatch, PollEnds, settings
    <2>2. LocalMailTypeOK'
      BY <1>1, <1>2, <2>1, <2>p, <1>4 DEF LocalMailTypeOK
    <2>3. CursorIsSettled'
      BY <1>1, <1>2, <2>1, <2>p DEF MailInv, CursorIsSettled, Settled, Firm
    <2>4. BackfillGoesOn' /\ HistoryGoesOn' /\ TellsOfNew'
      BY <1>2, <2>1 DEF BackfillGoesOn, HistoryGoesOn, TellsOfNew
    <2> QED BY <2>1, <2>2, <2>3, <2>4 DEF MailInv, AnnouncedOnce
  <1> QED BY <1>5, <1>6, <1>7, <1>8

LEMMA MailHandles == MailInv => MailIsHandled
  <1> SUFFICES ASSUME MailInv PROVE MailIsHandled
    OBVIOUS
  <1>1. NoSilentGap
    BY DEF MailInv, CursorIsSettled, Settled, Firm, NoSilentGap
  <1> QED BY <1>1 DEF MailInv, MailIsHandled

\* The mail poller's cursor passes no mail that was not considered, and a todo is told of
\* once, for any mails, reconnects and polls that ended early (src/pollers/gmail/poller.py).
THEOREM MailInvariance == MailSpec => []MailInv
  <1>1. MailInit => MailInv
    BY MailStarts
  <1>2. MailInv /\ [MailNext]_mailVars => MailInv'
    BY CallbackKeepsMail, ReadKeepsMail, TodosKeepMail DEF MailNext
  <1> QED BY <1>1, <1>2, PTL DEF MailSpec

---------------------------------------------------------------------------
(* The table of todos *)

Row == [source: Sources \cup {"none"}, task: Tasks \cup {SomeTask}, born: 0 .. LastDay,
        status: {"open", "closed"}, decision: {"none", "accepted", "rejected"},
        retitled: BOOLEAN, known: SUBSET Ids]

TableRows ==
    /\ today \in 0 .. LastDay /\ todo \in [Ids -> Row]
    /\ finding.at # "none" => /\ finding.id \in Ids /\ finding.task \in Tasks
                              /\ finding.source \in Pollers
                              /\ finding.known \subseteq Ids
                              /\ finding = [at |-> finding.at, id |-> finding.id,
                                            source |-> finding.source, task |-> finding.task,
                                            known |-> finding.known]

\* What a todo was compared with is still there.
KnownStays ==
    /\ \A j \in Ids : Exists(j) => todo[j].known \subseteq Existing
    /\ finding.at = "checked" => finding.known \subseteq Existing

\* A find that was compared is not a task that is as young as the window.
FindIsNew ==
    finding.at = "checked" /\ finding.source \in Compared =>
        \A i \in finding.known :
            todo[i].task = finding.task /\ ~todo[i].retitled
            => today - todo[i].born > ComparedDays(finding.source)

TableInv == TableRows /\ KnownStays /\ FindIsNew /\ TaskStaysAway

LEMMA TableStarts == TableInit => TableInv
  <1> SUFFICES ASSUME TableInit PROVE TableInv
    OBVIOUS
  <1>1. 0 \in 0 .. LastDay
    BY WindowsAreDays
  <1>2. NoTodo \in Row /\ NoTodo.source = "none"
    BY <1>1 DEF NoTodo, Row
  <1>3. todo \in [Ids -> Row] /\ \A i \in Ids : ~Exists(i)
    BY <1>2 DEF TableInit, Exists
  <1>4. finding.at = "none" /\ today \in 0 .. LastDay
    BY <1>1 DEF TableInit, NoFinding
  <1> QED BY <1>3, <1>4 DEF TableInv, TableRows, KnownStays, FindIsNew, TaskStaysAway

\* A step that leaves of every todo what the comparisons are about, but for titles that
\* are edited, and the find.
LEMMA EditsKeepTable ==
    ASSUME TableInv, today' \in 0 .. LastDay, today <= today', todo' \in [Ids -> Row],
           finding' = finding,
           \A i \in Ids : /\ todo'[i].source = todo[i].source /\ todo'[i].born = todo[i].born
                          /\ todo'[i].known = todo[i].known
                          /\ ~todo'[i].retitled => ~todo[i].retitled
                                                   /\ todo'[i].task = todo[i].task
    PROVE  TableInv'
  <1>1. \A i \in Ids : Exists(i)' <=> Exists(i)
    BY DEF Exists
  <1>2. Existing' = Existing /\ Existing \subseteq Ids
    BY <1>1 DEF Existing
  <1>3. TableRows'
    BY DEF TableInv, TableRows
  <1>4. KnownStays'
    BY <1>1, <1>2 DEF TableInv, KnownStays
  <1>5. FindIsNew'
    <2> SUFFICES ASSUME finding.at = "checked", finding.source \in Compared,
                        NEW i \in finding.known, todo'[i].task = finding.task,
                        ~todo'[i].retitled
                 PROVE  today' - todo'[i].born > ComparedDays(finding.source)
      BY DEF FindIsNew
    <2>1. i \in Ids
      BY <1>2 DEF TableInv, KnownStays
    <2>2. today - todo[i].born > ComparedDays(finding.source)
      BY <2>1 DEF TableInv, FindIsNew
    <2>3. /\ today \in Nat /\ today' \in Nat /\ todo[i].born \in Nat
          /\ ComparedDays(finding.source) \in Nat
      BY <2>1, WindowsAreDays DEF TableInv, TableRows, Row, ComparedDays
    <2> QED BY <2>1, <2>2, <2>3
  <1>6. TaskStaysAway'
    <2> SUFFICES ASSUME NEW i \in Ids, NEW j \in Ids, Exists(j)', todo'[j].source \in Compared,
                        i \in todo'[j].known, todo'[i].task = todo'[j].task,
                        ~todo'[i].retitled, ~todo'[j].retitled
                 PROVE  todo'[j].born - todo'[i].born > ComparedDays(todo'[j].source)
      BY DEF TaskStaysAway
    <2> QED BY <1>1 DEF TableInv, TaskStaysAway
  <1> QED BY <1>3, <1>4, <1>5, <1>6 DEF TableInv

\* A step that leaves the table.
LEMMA FindsKeepTable ==
    ASSUME TableInv, todo' = todo, today' = today,
           finding'.at # "none" =>
               /\ finding'.id \in Ids /\ finding'.task \in Tasks
               /\ finding'.source \in Pollers /\ finding'.known \subseteq Ids
               /\ finding' = [at |-> finding'.at, id |-> finding'.id,
                              source |-> finding'.source, task |-> finding'.task,
                              known |-> finding'.known],
           finding'.at = "checked" =>
               /\ finding'.known \subseteq Existing
               /\ finding'.source \in Compared =>
                     \A i \in finding'.known :
                        todo[i].task = finding'.task
                        => today - todo[i].born > ComparedDays(finding'.source)
    PROVE  TableInv'
  <1>1. TableRows'
    BY DEF TableInv, TableRows
  <1>2. KnownStays'
    BY DEF TableInv, KnownStays, Existing, Exists
  <1>3. FindIsNew'
    BY DEF FindIsNew
  <1>4. TaskStaysAway'
    BY DEF TableInv, TaskStaysAway, Exists
  <1> QED BY <1>1, <1>2, <1>3, <1>4 DEF TableInv

\* A new row.
LEMMA RowsKeepTable ==
    ASSUME TableInv, today' = today, NEW j \in Ids, ~Exists(j), NEW row \in Row,
           todo' = [todo EXCEPT ![j] = row], row.source # "none", row.born = today,
           ~row.retitled, row.known \subseteq Existing,
           row.source \in Compared =>
               \A i \in row.known :
                  todo[i].task = row.task /\ ~todo[i].retitled
                  => today - todo[i].born > ComparedDays(row.source),
           finding'.at = "none" \/ finding' = finding
    PROVE  TableInv'
  <1>1. /\ todo' \in [Ids -> Row] /\ todo'[j] = row
        /\ \A i \in Ids : i # j => todo'[i] = todo[i]
    BY DEF TableInv, TableRows
  <1>2. /\ Exists(j)' /\ \A i \in Ids : i # j => (Exists(i)' <=> Exists(i))
        /\ Existing \subseteq Existing' /\ j \notin Existing /\ Existing \subseteq Ids
    BY <1>1 DEF Exists, Existing
  <1>3. TableRows'
    BY <1>1 DEF TableInv, TableRows
  <1>4. KnownStays'
    BY <1>1, <1>2 DEF TableInv, KnownStays
  <1>5. FindIsNew'
    <2> SUFFICES ASSUME finding' = finding, finding.at = "checked", finding.source \in Compared,
                        NEW i \in finding.known, todo'[i].task = finding.task, ~todo'[i].retitled
                 PROVE  today - todo'[i].born > ComparedDays(finding.source)
      BY DEF FindIsNew
    <2>1. i \in Existing
      BY DEF TableInv, KnownStays
    <2>2. todo'[i] = todo[i]
      BY <1>1, <1>2, <2>1
    <2> QED BY <2>2 DEF TableInv, FindIsNew
  <1>6. TaskStaysAway'
    <2> SUFFICES ASSUME NEW i \in Ids, NEW l \in Ids, Exists(l)', todo'[l].source \in Compared,
                        i \in todo'[l].known, todo'[i].task = todo'[l].task,
                        ~todo'[i].retitled, ~todo'[l].retitled
                 PROVE  todo'[l].born - todo'[i].born > ComparedDays(todo'[l].source)
      BY DEF TaskStaysAway
    <2>1. i \in Existing
      BY <1>1, <1>2 DEF TableInv, KnownStays
    <2>2. todo'[i] = todo[i]
      BY <1>1, <1>2, <2>1
    <2>3. CASE l = j
      BY <1>1, <2>2, <2>3
    <2>4. CASE l # j
      BY <1>1, <1>2, <2>2, <2>4 DEF TableInv, TaskStaysAway
    <2> QED BY <2>3, <2>4
  <1> QED BY <1>3, <1>4, <1>5, <1>6 DEF TableInv

LEMMA TableSteps == TableInv /\ [TableNext]_tableVars => TableInv'
  <1> SUFFICES ASSUME TableInv, [TableNext]_tableVars PROVE TableInv'
    OBVIOUS
  <1>1. /\ today \in 0 .. LastDay /\ today \in Nat /\ todo \in [Ids -> Row] /\ LastDay \in Nat
        /\ NoFinding.at = "none" /\ Existing \subseteq Ids
    BY WindowsAreDays DEF TableInv, TableRows, NoFinding, Existing
  <1>2. CASE NextDay \/ UNCHANGED tableVars
    <2>1. today' \in 0 .. LastDay /\ today <= today' /\ todo' = todo /\ finding' = finding
      BY <1>1, <1>2 DEF NextDay, tableVars
    <2> QED BY <1>1, <2>1, EditsKeepTable
  <1>3. CASE CloseRejected
    <2>1. /\ UNCHANGED <<today, finding>>
          /\ todo' = [i \in Ids |-> IF todo[i].decision = "rejected"
                                    THEN [todo[i] EXCEPT !.status = "closed"] ELSE todo[i]]
      BY <1>3 DEF CloseRejected
    <2>2. ASSUME NEW i \in Ids
          PROVE  /\ todo'[i] \in Row
                 /\ todo'[i].source = todo[i].source /\ todo'[i].born = todo[i].born
                 /\ todo'[i].known = todo[i].known /\ todo'[i].retitled = todo[i].retitled
                 /\ todo'[i].task = todo[i].task
      <3>1. todo[i] \in Row
        BY <1>1
      <3> QED BY <2>1, <3>1 DEF Row
    <2>3. todo' \in [Ids -> Row]
      BY <2>1, <2>2
    <2> QED BY <1>1, <2>1, <2>2, <2>3, EditsKeepTable
  <1>4. ASSUME NEW i \in Ids,
               \/ \E decision \in {"accepted", "rejected"} : UpdateDecision(i, decision)
               \/ \E status \in {"open", "closed"} : SetStatus(i, status)
               \/ \E k \in Tasks : Retitle(i, k)
        PROVE  TableInv'
    <2>0. todo[i] \in Row
      BY <1>1
    <2>1. PICK row \in Row :
             /\ todo' = [todo EXCEPT ![i] = row]
             /\ row.source = todo[i].source /\ row.born = todo[i].born
             /\ row.known = todo[i].known
             /\ ~row.retitled => ~todo[i].retitled /\ row.task = todo[i].task
      <3>1. ASSUME NEW decision \in {"accepted", "rejected"}, UpdateDecision(i, decision)
            PROVE  \E row \in Row :
                     /\ todo' = [todo EXCEPT ![i] = row]
                     /\ row.source = todo[i].source /\ row.born = todo[i].born
                     /\ row.known = todo[i].known
                     /\ ~row.retitled => ~todo[i].retitled /\ row.task = todo[i].task
        <4>1. PICK s : s = IF decision = "rejected" THEN "closed"
                           ELSE IF todo[i].decision = "rejected" THEN "open"
                           ELSE todo[i].status
          OBVIOUS
        <4>2. s \in {"open", "closed"}
          BY <2>0, <4>1 DEF Row
        <4>3. todo' = [todo EXCEPT ![i] = [todo[i] EXCEPT !.decision = decision, !.status = s]]
          BY <1>1, <3>1, <4>1 DEF UpdateDecision
        <4>4. PICK row : row = [todo[i] EXCEPT !.decision = decision, !.status = s]
          OBVIOUS
        <4>5. row \in Row
          BY <2>0, <4>2, <4>4 DEF Row
        <4>6. /\ row.source = todo[i].source /\ row.born = todo[i].born
              /\ row.known = todo[i].known /\ row.retitled = todo[i].retitled
              /\ row.task = todo[i].task
          BY <2>0, <4>4 DEF Row
        <4> QED BY <4>3, <4>4, <4>5, <4>6
      <3>2. ASSUME NEW status \in {"open", "closed"}, SetStatus(i, status)
            PROVE  \E row \in Row :
                     /\ todo' = [todo EXCEPT ![i] = row]
                     /\ row.source = todo[i].source /\ row.born = todo[i].born
                     /\ row.known = todo[i].known
                     /\ ~row.retitled => ~todo[i].retitled /\ row.task = todo[i].task
        <4>1. PICK row : row = [todo[i] EXCEPT !.status = status]
          OBVIOUS
        <4>2. todo' = [todo EXCEPT ![i] = row]
          BY <1>1, <3>2, <4>1 DEF SetStatus
        <4>3. row \in Row
          BY <2>0, <4>1 DEF Row
        <4>4. /\ row.source = todo[i].source /\ row.born = todo[i].born
              /\ row.known = todo[i].known /\ row.retitled = todo[i].retitled
              /\ row.task = todo[i].task
          BY <2>0, <4>1 DEF Row
        <4> QED BY <4>2, <4>3, <4>4
      <3>3. ASSUME NEW k \in Tasks, Retitle(i, k)
            PROVE  \E row \in Row :
                     /\ todo' = [todo EXCEPT ![i] = row]
                     /\ row.source = todo[i].source /\ row.born = todo[i].born
                     /\ row.known = todo[i].known
                     /\ ~row.retitled => ~todo[i].retitled /\ row.task = todo[i].task
        <4>1. PICK row : row = [todo[i] EXCEPT !.task = k, !.retitled = TRUE]
          OBVIOUS
        <4>2. todo' = [todo EXCEPT ![i] = row]
          BY <1>1, <3>3, <4>1 DEF Retitle
        <4>3. row \in Row
          BY <2>0, <4>1 DEF Row
        <4>4. /\ row.source = todo[i].source /\ row.born = todo[i].born
              /\ row.known = todo[i].known /\ row.retitled
          BY <2>0, <4>1 DEF Row
        <4> QED BY <4>2, <4>3, <4>4
      <3> QED BY <1>4, <3>1, <3>2, <3>3
    <2>2. UNCHANGED <<today, finding>>
      BY <1>4 DEF UpdateDecision, SetStatus, Retitle
    <2>3. /\ todo' \in [Ids -> Row] /\ todo'[i] = row
          /\ \A l \in Ids : l # i => todo'[l] = todo[l]
      BY <1>1, <2>1
    <2> QED BY <1>1, <2>1, <2>2, <2>3, EditsKeepTable
  <1>5. ASSUME NEW i \in Ids, NEW k \in Tasks, NEW s \in Pollers, Find(i, s, k)
        PROVE  TableInv'
    <2>1. /\ finding' = [at |-> "found", id |-> i, source |-> s, task |-> k, known |-> {}]
          /\ UNCHANGED <<today, todo>>
      BY <1>5 DEF Find
    <2> QED BY <2>1, FindsKeepTable
  <1>6. CASE PollStops
    BY <1>1, <1>6, FindsKeepTable DEF PollStops
  <1>7. CASE CheckSimilar
    <2>1. finding.at = "found" /\ UNCHANGED <<today, todo>>
      BY <1>7 DEF CheckSimilar
    <2>2. /\ finding.id \in Ids /\ finding.task \in Tasks /\ finding.source \in Pollers
          /\ finding = [at |-> finding.at, id |-> finding.id, source |-> finding.source,
                        task |-> finding.task, known |-> finding.known]
      BY <2>1 DEF TableInv, TableRows
    <2>3. CASE finding' = NoFinding
      BY <1>1, <2>1, <2>3, FindsKeepTable
    <2>4. CASE finding' # NoFinding
      <3>1. /\ finding' = [finding EXCEPT !.at = "checked", !.known = Existing]
            /\ finding.source \in Compared =>
                  ~SimilarRecentTodo(finding.source, finding.task)
        BY <1>7, <2>4 DEF CheckSimilar
      <3>2. finding' = [at |-> "checked", id |-> finding.id, source |-> finding.source,
                        task |-> finding.task, known |-> Existing]
        BY <2>2, <3>1
      <3>3. ASSUME finding.source \in Compared, NEW i \in Existing, todo[i].task = finding.task
            PROVE  today - todo[i].born > ComparedDays(finding.source)
        <4>1. ~(todo[i].born >= today - ComparedDays(finding.source))
          BY <3>1, <3>3 DEF SimilarRecentTodo
        <4>2. i \in Ids /\ todo[i].born \in Nat /\ ComparedDays(finding.source) \in Nat
          BY <1>1, WindowsAreDays DEF Row, ComparedDays
        <4> QED BY <1>1, <4>1, <4>2
      <3> QED BY <1>1, <2>1, <2>2, <3>2, <3>3, FindsKeepTable
    <2> QED BY <2>3, <2>4
  <1>8. CASE SaveTodo
    <2>1. finding.at = "checked" /\ finding' = NoFinding /\ today' = today
      BY <1>8 DEF SaveTodo
    <2>2. /\ finding.id \in Ids /\ finding.task \in Tasks /\ finding.source \in Pollers
          /\ finding.known \subseteq Existing
      BY <2>1 DEF TableInv, TableRows, KnownStays
    <2>3. CASE Exists(finding.id)
      <3>1. todo' = todo
        BY <1>8, <2>3 DEF SaveTodo
      <3> QED BY <1>1, <2>1, <3>1, FindsKeepTable
    <2>4. CASE ~Exists(finding.id)
      <3>1. PICK row : row = [NoTodo EXCEPT !.source = finding.source, !.task = finding.task,
                                            !.born = today, !.known = finding.known]
        OBVIOUS
      <3>2. todo' = [todo EXCEPT ![finding.id] = row]
        BY <1>8, <2>4, <3>1 DEF SaveTodo
      <3>3. /\ row \in Row /\ row.source = finding.source /\ row.task = finding.task
            /\ row.born = today /\ row.known = finding.known /\ row.retitled = FALSE
        BY <1>1, <2>2, <3>1 DEF NoTodo, Row, Sources
      <3>4. row.source # "none"
        BY <2>2, <3>3 DEF Pollers
      <3>5. row.source \in Compared =>
               \A i \in row.known :
                  todo[i].task = row.task /\ ~todo[i].retitled
                  => today - todo[i].born > ComparedDays(row.source)
        BY <2>1, <3>3 DEF TableInv, FindIsNew
      <3> QED BY <1>1, <2>1, <2>2, <2>4, <3>2, <3>3, <3>4, <3>5, RowsKeepTable
    <2> QED BY <2>3, <2>4
  <1>9. ASSUME NEW i \in Ids, NEW k \in Tasks, CreateTodo(i, k) PROVE TableInv'
    <2>1. PICK decision \in {"accepted", "none"} :
             todo' = [todo EXCEPT ![i] = [NoTodo EXCEPT !.source = "user", !.task = k,
                                                     !.born = today, !.decision = decision,
                                                     !.known = Existing]]
      BY <1>9 DEF CreateTodo
    <2>2. PICK row : row = [NoTodo EXCEPT !.source = "user", !.task = k,
                                          !.born = today, !.decision = decision,
                                          !.known = Existing]
      OBVIOUS
    <2>3. /\ row \in Row /\ row.source = "user" /\ row.born = today /\ row.known = Existing
          /\ row.retitled = FALSE
      BY <1>1, <2>2 DEF NoTodo, Row, Sources
    <2>4. row.source \notin Compared
      BY <2>3 DEF Compared, Pollers
    <2>5. UNCHANGED <<today, finding>> /\ ~Exists(i)
      BY <1>9 DEF CreateTodo
    <2> QED BY <2>1, <2>2, <2>3, <2>4, <2>5, RowsKeepTable
  <1> QED BY <1>2, <1>3, <1>4, <1>5, <1>6, <1>7, <1>8, <1>9 DEF TableNext

\* A task that the list had does not come back under another id within its window, for any
\* todos, tasks and days (src/db.py:1156).
THEOREM TableInvariance == TableSpec => []TableInv
  BY TableStarts, TableSteps, PTL DEF TableSpec

---------------------------------------------------------------------------
(* The browser's history *)

\* A page was visited in the day before a time, and nothing on its domain said "done" from
\* then to that time.
StillOpen(p, moment) ==
    \E t \in 1 .. moment :
        /\ t > moment - HistoryDay
        /\ visit[t] # Nothing /\ Page(visit[t]) = p
        /\ \A s \in t .. moment :
              visit[s] # Nothing /\ HasCompletionMarker(visit[s])
              => Domain(visit[s]) # Domain(visit[t])

\* The clock counts the visits; what a poll may ask about, and what it asked, was open when
\* the history was read.
HistoryInv ==
    /\ BrowserTypeOK
    /\ Visited \in Nat
    /\ reading.time <= Visited
    /\ \A p \in reading.allowed : StillOpen(p, reading.time)
    /\ \A p \in Pages : asked[p] <= Visited
    /\ FinishedIsNotAsked

LEMMA VisitsAreCounted ==
    ASSUME NEW n \in Nat, DOMAIN visit = 1 .. n PROVE Visited = n
BY FS_Interval DEF Visited, Clock

\* What was so of the past stays so.
LEMMA PastStaysOpen ==
    ASSUME Visited \in Nat, NEW moment \in 0 .. Visited, NEW p, StillOpen(p, moment),
           \A t \in 1 .. Visited : visit'[t] = visit[t]
    PROVE  StillOpen(p, moment)'
BY DEF StillOpen

\* A URL of the digest was visited last without a "done" of its domain at or after it: the
\* rows are the newest of the day, so whatever was visited after one of them is among them.
LEMMA DigestIsOpen ==
    ASSUME BrowserTypeOK, Visited \in Nat, NEW u \in HistoryDigest(Rows(Visited))
    PROVE  Page(u) \in Pages /\ StillOpen(Page(u), Visited)
<1> USE HistoryIsBounded
<1> DEFINE moment == Visited
           recent == Rows(moment)
<1>0. moment \in Nat
  OBVIOUS
<1>1. Clock = 1 .. moment
  BY DEF BrowserTypeOK, Clock
<1>2. recent \subseteq 1 .. moment /\ \A t \in recent : t > moment - HistoryDay /\ visit[t] # Nothing
  BY <1>1 DEF Rows, Recent
<1>3. u \in UrlsOf(recent) /\ ~Superseded(u, recent)
  BY DEF HistoryDigest
<1>4. u \in Urls
  BY <1>2, <1>3 DEF UrlsOf, BrowserTypeOK
<1>5. \A t \in recent, s \in 1 .. moment : s >= t /\ visit[s] # Nothing => s \in recent
  <2> SUFFICES ASSUME NEW t \in recent, NEW s \in 1 .. moment, s >= t, visit[s] # Nothing
               PROVE  s \in recent
    OBVIOUS
  <2> DEFINE later(x) == {r \in Recent(moment) : r > x}
  <2>1. s \in Recent(moment)
    BY <1>1, <1>2 DEF Recent
  <2>2. later(s) \subseteq later(t) /\ later(t) \subseteq 1 .. moment
    BY <1>1, <1>2 DEF Recent
  <2>3. IsFiniteSet(later(t))
    BY <2>2, FS_Interval, FS_Subset
  <2>4. Cardinality(later(s)) <= Cardinality(later(t)) /\ Cardinality(later(t)) \in Nat
        /\ Cardinality(later(s)) \in Nat
    BY <2>2, <2>3, FS_Subset, FS_CardinalityType
  <2>5. Cardinality(later(t)) < MaxRows
    BY DEF Rows
  <2>6. Cardinality(later(s)) < MaxRows
    <3> HIDE DEF later
    <3> QED  BY <2>4, <2>5
  <2> QED  BY <2>1, <2>6 DEF Rows
<1> HIDE DEF recent, moment
<1>6. \A v \in UrlsOf(recent) :
          /\ LastVisit(v, recent) \in recent /\ visit[LastVisit(v, recent)] = v
          /\ \A s \in recent : visit[s] = v => s <= LastVisit(v, recent)
  <2> SUFFICES ASSUME NEW v \in UrlsOf(recent)
               PROVE  /\ LastVisit(v, recent) \in recent /\ visit[LastVisit(v, recent)] = v
                      /\ \A s \in recent : visit[s] = v => s <= LastVisit(v, recent)
    OBVIOUS
  <2>0. PICK r \in recent : visit[r] = v
    BY DEF UrlsOf
  <2>1. r \in Visits(v, recent) /\ Visits(v, recent) \subseteq recent
    BY <2>0 DEF Visits
  <2>4. recent \subseteq 0 .. moment
    BY <1>0, <1>2
  <2>2. \E t \in Visits(v, recent) : \A s \in Visits(v, recent) : s <= t
    <3>1. Visits(v, recent) \in SUBSET (0 .. moment) /\ Visits(v, recent) # {}
      BY <2>1, <2>4
    <3> QED  BY <1>0, <3>1, GreatestIsThere
  <2>3. /\ LastVisit(v, recent) \in Visits(v, recent)
        /\ \A s \in Visits(v, recent) : s <= LastVisit(v, recent)
    BY <2>2 DEF LastVisit
  <2> QED  BY <2>3 DEF Visits
<1> DEFINE t == LastVisit(u, recent)
<1>7. t \in recent /\ visit[t] = u /\ t \in 1 .. moment /\ t > moment - HistoryDay
  BY <1>2, <1>3, <1>6
<1>8. \A s \in t .. moment : visit[s] # Nothing /\ HasCompletionMarker(visit[s])
                          => Domain(visit[s]) # Domain(u)
  <2> SUFFICES ASSUME NEW s \in t .. moment, visit[s] # Nothing,
                      HasCompletionMarker(visit[s]), Domain(visit[s]) = Domain(u)
               PROVE  FALSE
    OBVIOUS
  <2>1. s \in recent
    BY <1>5, <1>7
  <2>2. visit[s] \in UrlsOf(recent)
    BY <2>1 DEF UrlsOf
  <2>3. s <= LastVisit(visit[s], recent) /\ LastVisit(visit[s], recent) \in 1 .. moment
    BY <1>2, <1>6, <2>1, <2>2
  <2>4. t <= LastVisit(visit[s], recent)
    BY <1>7, <2>3
  <2>5. Superseded(u, recent)
    BY <2>2, <2>4 DEF Superseded
  <2> QED  BY <1>3, <2>5
<1> HIDE DEF t
<1>9. StillOpen(Page(u), moment)
  <2>1. visit[t] # Nothing /\ Page(visit[t]) = Page(u)
    BY <1>2, <1>7
  <2> QED  BY <1>7, <1>8, <2>1 DEF StillOpen
<1> QED  BY <1>4, <1>9 DEF Pages, moment

LEMMA HistoryStarts == BrowserInit => HistoryInv
<1> SUFFICES ASSUME BrowserInit PROVE HistoryInv
  OBVIOUS
<1> USE HistoryIsBounded DEF BrowserInit
<1>1. DOMAIN visit = 1 .. 0 /\ visit = [t \in 1 .. 0 |-> Nothing]
  OBVIOUS
<1>2. Visited = 0
  BY <1>1, VisitsAreCounted
<1>3. BrowserTypeOK
  BY <1>1, <1>2 DEF BrowserTypeOK
<1> QED  BY <1>2, <1>3 DEF HistoryInv, FinishedIsNotAsked

LEMMA HistorySteps == HistoryInv /\ [BrowserNext]_browserVars => HistoryInv'
<1> SUFFICES ASSUME HistoryInv, [BrowserNext]_browserVars PROVE HistoryInv'
  OBVIOUS
<1> USE HistoryIsBounded
<1>0. /\ Visited \in Nat /\ DOMAIN visit = 1 .. Visited
      /\ \A p \in Pages : asked[p] \in Nat /\ (asked[p] # 0 => StillOpen(p, asked[p]))
  BY DEF HistoryInv, BrowserTypeOK, FinishedIsNotAsked, StillOpen
<1>1. ASSUME NEW u \in Urls \cup {Nothing}, Visit(u) PROVE HistoryInv'
  <2> USE <1>1 DEF Visit
  <2>1. /\ visit' = [t \in 1 .. Visited + 1 |-> IF t <= Visited THEN visit[t] ELSE u]
        /\ Visited + 1 <= MaxVisits
    BY <1>0
  <2>2. DOMAIN visit' = 1 .. Visited + 1
    BY <2>1
  <2>3. Visited' = Visited + 1
    BY <1>0, <2>2, FS_Interval DEF Visited, Clock
  <2>4. \A t \in 1 .. Visited : visit'[t] = visit[t]
    BY <1>0, <2>1
  <2>5. visit' \in [1 .. Visited' -> Urls \cup {Nothing}]
    BY <1>0, <2>1, <2>3 DEF HistoryInv, BrowserTypeOK
  <2>6. BrowserTypeOK'
    BY <2>1, <2>3, <2>5 DEF HistoryInv, BrowserTypeOK
  <2>7. \A p \in reading'.allowed : StillOpen(p, reading.time)'
    BY <1>0, <2>4, PastStaysOpen DEF HistoryInv, BrowserTypeOK
  <2>8. \A p \in Pages : asked[p] # 0 => StillOpen(p, asked[p])'
    BY <1>0, <2>4, PastStaysOpen DEF HistoryInv
  <2>9. FinishedIsNotAsked'
    BY <2>8 DEF FinishedIsNotAsked, StillOpen
  <2> QED  BY <1>0, <2>3, <2>6, <2>7, <2>9 DEF HistoryInv, BrowserTypeOK
<1>2. ASSUME UNCHANGED visit,
             BrowserTypeOK', reading'.time <= Visited,
             \A p \in reading'.allowed : StillOpen(p, reading'.time),
             \A p \in Pages : /\ asked'[p] <= Visited
                              /\ asked'[p] # 0 => StillOpen(p, asked'[p])
      PROVE  HistoryInv'
  <2>1. Visited' = Visited
    BY <1>2 DEF Visited, Clock
  <2>2. \A p \in reading'.allowed : StillOpen(p, reading.time)'
    BY <1>2 DEF StillOpen
  <2>3. FinishedIsNotAsked'
    BY <1>2 DEF FinishedIsNotAsked, StillOpen
  <2> QED  BY <1>0, <1>2, <2>1, <2>2, <2>3 DEF HistoryInv
<1> DEFINE idle == [at |-> "idle", time |-> 0, allowed |-> {}]
<1>3. ASSUME ReadHistory PROVE HistoryInv'
  <2> DEFINE allowed == {Page(u) : u \in HistoryDigest(Rows(Visited))}
  <2>1. \A p \in allowed : p \in Pages /\ StillOpen(p, Visited)
    BY DigestIsOpen DEF HistoryInv
  <2>2. Visited \in 0 .. MaxVisits
    BY <1>0 DEF HistoryInv, BrowserTypeOK
  <2>3. UNCHANGED <<visit, asked>>
    BY <1>3 DEF ReadHistory
  <2>4. Visited' = Visited
    BY <2>3 DEF Visited, Clock
  <2>5. CASE lastPoll' = Visited /\ UNCHANGED reading
    <3>1. BrowserTypeOK'
      BY <2>2, <2>3, <2>4, <2>5 DEF HistoryInv, BrowserTypeOK
    <3> QED  BY <1>0, <1>2, <2>3, <2>5, <3>1 DEF HistoryInv
  <2>6. CASE /\ reading' = [at |-> "saving", time |-> Visited, allowed |-> allowed]
             /\ UNCHANGED lastPoll
    <3>1. allowed \in SUBSET Pages
      BY <2>1
    <3> HIDE DEF allowed
    <3>2. reading' \in [at: {"idle", "saving"}, time: 0 .. MaxVisits, allowed: SUBSET Pages]
          /\ reading'.time = Visited /\ reading'.allowed = allowed
      BY <2>2, <2>6, <3>1
    <3>3. BrowserTypeOK'
      BY <2>3, <2>4, <2>6, <3>2 DEF HistoryInv, BrowserTypeOK
    <3>4. Visited <= Visited
      BY <1>0
    <3>5. \A p \in Pages : /\ asked'[p] <= Visited
                           /\ asked'[p] # 0 => StillOpen(p, asked'[p])
      BY <1>0, <2>3 DEF HistoryInv
    <3> QED  BY <1>2, <2>1, <2>3, <3>2, <3>3, <3>4, <3>5
  <2> QED  BY <1>3, <2>5, <2>6, Zenon DEF ReadHistory
<1>4. ASSUME NEW p \in Pages, SaveHistoryTodo(p) PROVE HistoryInv'
  <2> USE <1>4 DEF SaveHistoryTodo
  <2>1. StillOpen(p, reading.time) /\ reading.time \in 0 .. MaxVisits
        /\ reading.time <= Visited
    BY DEF HistoryInv, BrowserTypeOK
  <2>2. /\ asked' \in [Pages -> 0 .. MaxVisits]
        /\ \A q \in Pages : asked'[q] = IF q = p THEN reading.time ELSE asked[q]
    BY <2>1 DEF HistoryInv, BrowserTypeOK
  <2>3. Visited' = Visited
    BY DEF Visited, Clock
  <2>4. BrowserTypeOK'
    BY <2>2, <2>3 DEF HistoryInv, BrowserTypeOK
  <2>5. \A q \in Pages : /\ asked'[q] <= Visited
                         /\ asked'[q] # 0 => StillOpen(q, asked'[q])
    BY <1>0, <2>1, <2>2 DEF HistoryInv
  <2> QED  BY <1>2, <2>4, <2>5 DEF HistoryInv
<1>5. ASSUME EndReading \/ ReadingFails PROVE HistoryInv'
  <2>1. reading' = idle /\ UNCHANGED <<visit, asked>> /\ lastPoll' \in {lastPoll, reading.time}
    BY <1>5 DEF EndReading, ReadingFails
  <2>2. Visited' = Visited
    BY <2>1 DEF Visited, Clock
  <2>3. reading' \in [at: {"idle", "saving"}, time: 0 .. MaxVisits, allowed: SUBSET Pages]
        /\ reading'.time = 0 /\ reading'.allowed = {}
    BY <2>1
  <2>4. BrowserTypeOK'
    BY <2>1, <2>2, <2>3 DEF HistoryInv, BrowserTypeOK
  <2> QED  BY <1>0, <1>2, <2>1, <2>3, <2>4 DEF HistoryInv
<1>6. CASE UNCHANGED browserVars
  <2>1. Visited' = Visited
    BY <1>6 DEF browserVars, Visited, Clock
  <2>2. BrowserTypeOK'
    BY <1>6, <2>1 DEF HistoryInv, BrowserTypeOK, browserVars
  <2> QED  BY <1>0, <1>2, <1>6, <2>2 DEF HistoryInv, browserVars
<1> QED  BY <1>1, <1>3, <1>4, <1>5, <1>6 DEF BrowserNext

\* Nobody is asked to do what they had finished, for any pages and visits
\* (src/pollers/browser/poller.py:63).
THEOREM HistoryInvariance == BrowserSpec => []HistoryInv
BY HistoryStarts, HistorySteps, PTL DEF BrowserSpec

---------------------------------------------------------------------------
(* The notices *)

\* What was drawn from a list, or is about to be, is of the list that is kept, as long as
\* the list was not asked for twice.
ListsAreKept ==
    \A t \in News \ refreshed :
        /\ \A l \in pushed[t] : l \in {0, options[t]}
        /\ banner[t] \in {0, options[t]}
        /\ notice.todo = t => notice.list \in {0, options[t]}
        /\ clicked[t][1] = clicked[t][2]

\* Then, too, a list is made only where there is none, and by one at a time.
OneInfers ==
    \A t \in News \ refreshed :
        /\ notice.at = "infer" /\ notice.todo = t
           => options[t] = 0 /\ ~(pane.at = "infer" /\ pane.todo = t)
        /\ pane.at = "infer" /\ pane.todo = t => options[t] = 0

\* A notice that is sent was added to the thread, and may have been written over.
SentIsAdded ==
    notice.at \in {"send", "template"} => notice.todo \in posted \cup unposted

NoticeInv ==
    NoticeTypeOK /\ ListsAreKept /\ OneInfers /\ SentIsAdded /\ AnswerFindsNotice

LEMMA NoticesAreOf == NoticeInv => NoticesAreUnderstood
BY DEF NoticeInv, NoticesAreUnderstood, ButtonRunsItsAction, ListsAreKept

LEMMA NoticeStarts == NoticeInit => NoticeInv
<1> SUFFICES ASSUME NoticeInit PROVE NoticeInv
  OBVIOUS
<1> USE ListsAreCounted DEF NoticeInit
<1>1. SomeTodo \in News
  BY DEF SomeTodo
<1>2. NoNotice \in Notice /\ NoPane \in Pane /\ NoNotice.at = "none" /\ NoNotice.list = 0
      /\ NoPane.at = "none" /\ 0 \in Lists
  BY <1>1 DEF NoNotice, NoPane, Notice, Pane, Lists
<1>3. NoticeTypeOK
  BY <1>2 DEF NoticeTypeOK, Turn
<1> QED
  BY <1>2, <1>3
     DEF NoticeInv, ListsAreKept, OneInfers, SentIsAdded, AnswerFindsNotice

LEMMA NoThings == NoNotice \in Notice /\ NoPane \in Pane /\ NoNotice.at = "none"
                  /\ NoNotice.list = 0 /\ NoPane.at = "none" /\ 0 \in Lists
<1>1. SomeTodo \in News
  BY ListsAreCounted DEF SomeTodo
<1> QED  BY <1>1, ListsAreCounted DEF NoNotice, NoPane, Notice, Pane, Lists

\* A new list for the todo of the one who asked: nothing was drawn from another before.
LEMMA InferringKeeps ==
    ASSUME NoticeInv, NEW t \in News, Infers(t),
           \/ notice.at = "infer" /\ notice.todo = t
           \/ pane.at = "infer" /\ pane.todo = t
    PROVE  /\ options' \in [News -> Lists] /\ inferred' \in Lists
           /\ options'[t] = inferred + 1
           /\ \A s \in News \ {t} : options'[s] = options[s]
           /\ t \notin refreshed => /\ options[t] = 0
                                    /\ \A l \in pushed[t] : l = 0
                                    /\ banner[t] = 0
                                    /\ notice.todo = t => notice.list = 0
<1> USE ListsAreCounted DEF NoticeInv, Infers, Lists
<1>1. inferred \in 0 .. MaxLists /\ options \in [News -> 0 .. MaxLists]
  BY DEF NoticeTypeOK
<1>2. t \notin refreshed => options[t] = 0
  BY DEF OneInfers
<1>3. t \notin refreshed => /\ \A l \in pushed[t] : l = 0
                            /\ banner[t] = 0
                            /\ notice.todo = t => notice.list = 0
  BY <1>2 DEF ListsAreKept
<1> QED  BY <1>1, <1>2, <1>3

LEMMA PollerKeepsNotices ==
    ASSUME NoticeInv,
           \/ \E t \in News, browser, phone \in BOOLEAN : NotifyNewTodo(t, browser, phone)
           \/ NoticeInfers \/ NoticeHasNone \/ Push
    PROVE  NoticeInv'
<1> USE ListsAreCounted DEF NoticeInv
<1>1. ASSUME NEW t \in News, NEW browser \in BOOLEAN, NEW phone \in BOOLEAN,
             NotifyNewTodo(t, browser, phone)
      PROVE  NoticeInv'
  <2> USE <1>1 DEF NotifyNewTodo
  <2> DEFINE n == [NoNotice EXCEPT !.todo = t, !.browser = browser, !.phone = phone]
  <2>1. n \in Notice /\ n.todo = t /\ n.list = 0
    BY NoThings DEF NoNotice, Notice
  <2>2. notice' = IF MustInfer(t, FALSE) THEN [n EXCEPT !.at = "infer"]
                  ELSE [n EXCEPT !.at = NextStop(n), !.list = options[t]]
    OBVIOUS
  <2> HIDE DEF n
  <2>3. NextStop(n) \in {"push", "append"} /\ options[t] \in Lists
    BY DEF NextStop, NoticeTypeOK
  <2>4. /\ notice' \in Notice /\ notice'.todo = t
        /\ IF options[t] = 0 THEN notice'.at = "infer" /\ notice'.list = 0
           ELSE notice'.at \in {"push", "append"} /\ notice'.list = options[t]
    BY <2>1, <2>2, <2>3 DEF MustInfer, Notice
  <2>5. /\ refreshed \subseteq refreshed' /\ refreshed' \subseteq News
        /\ t \notin refreshed' /\ options[t] = 0 => ~(pane.at = "infer" /\ pane.todo = t)
    BY DEF MustInfer, InferringFor, NoticeTypeOK
  <2>6. NoticeTypeOK'
    BY <2>4, <2>5 DEF NoticeTypeOK
  <2>7. ListsAreKept'
    <3>1. UNCHANGED <<options, pushed, banner, clicked>>
      OBVIOUS
    <3>2. ASSUME NEW s \in News \ refreshed
          PROVE  /\ \A l \in pushed[s] : l \in {0, options[s]}
                 /\ banner[s] \in {0, options[s]}
                 /\ notice'.todo = s => notice'.list \in {0, options[s]}
                 /\ clicked[s][1] = clicked[s][2]
      BY <2>4 DEF ListsAreKept
    <3> QED  BY <2>5, <3>1, <3>2 DEF ListsAreKept
  <2>8. OneInfers'
    BY <2>4, <2>5 DEF OneInfers
  <2> QED  BY <2>4, <2>6, <2>7, <2>8 DEF SentIsAdded, AnswerFindsNotice
<1>2. ASSUME NoticeInfers PROVE NoticeInv'
  <2> USE <1>2 DEF NoticeInfers
  <2> DEFINE t == notice.todo
  <2>1. t \in News /\ notice \in Notice
    BY DEF NoticeTypeOK, Notice
  <2>2. Infers(t)
    OBVIOUS
  <2>3. inferred + 1 \in Lists
    BY <2>2 DEF Infers, NoticeTypeOK, Lists
  <2>4. NextStop(notice) \in {"push", "append"}
    BY DEF NextStop
  <2>5. /\ notice' \in Notice /\ notice'.todo = t /\ notice'.list = inferred + 1
        /\ notice'.at \in {"push", "append"}
    BY <2>1, <2>3, <2>4 DEF Notice
  <2>6. /\ options' \in [News -> Lists] /\ inferred' \in Lists
        /\ options'[t] = inferred + 1
        /\ \A s \in News \ {t} : options'[s] = options[s]
        /\ t \notin refreshed => /\ options[t] = 0
                                 /\ \A l \in pushed[t] : l = 0
                                 /\ banner[t] = 0
    BY <2>1, <2>2, InferringKeeps
  <2>7. NoticeTypeOK'
    BY <2>5, <2>6 DEF NoticeTypeOK
  <2>8. ListsAreKept'
    <3>1. ASSUME NEW s \in News \ refreshed
          PROVE  /\ \A l \in pushed[s] : l \in {0, options'[s]}
                 /\ banner[s] \in {0, options'[s]}
                 /\ notice'.todo = s => notice'.list \in {0, options'[s]}
                 /\ clicked[s][1] = clicked[s][2]
      BY <2>5, <2>6 DEF ListsAreKept
    <3> QED  BY <3>1 DEF ListsAreKept
  <2>9. OneInfers'
    BY <2>1, <2>5, <2>6 DEF OneInfers
  <2> QED  BY <2>5, <2>7, <2>8, <2>9 DEF SentIsAdded, AnswerFindsNotice
<1>3. ASSUME NoticeHasNone PROVE NoticeInv'
  <2> USE <1>3 DEF NoticeHasNone
  <2>1. NextStop(notice) \in {"push", "append"}
    BY DEF NextStop
  <2>2. /\ notice' \in Notice /\ notice'.todo = notice.todo /\ notice'.list = notice.list
        /\ notice'.at \in {"push", "append"}
    BY <2>1 DEF Notice, NoticeTypeOK
  <2>3. NoticeTypeOK'
    BY <2>2 DEF NoticeTypeOK
  <2> QED
    BY <2>2, <2>3 DEF ListsAreKept, OneInfers, SentIsAdded, AnswerFindsNotice
<1>4. ASSUME Push PROVE NoticeInv'
  <2> USE <1>4 DEF Push
  <2>0. notice.todo \in News /\ notice.list \in Lists
    BY DEF NoticeTypeOK, Notice
  <2>1. /\ notice' \in Notice /\ notice'.at \in {"none", "append"}
        /\ notice'.at = "append" => notice'.todo = notice.todo /\ notice'.list = notice.list
        /\ notice'.at = "none" => notice'.list = 0
    BY NoThings DEF After, Notice, NoticeTypeOK
  <2>2. /\ pushed' \in [News -> SUBSET Lists]
        /\ \A s \in News : \A l \in pushed'[s] :
              l \in pushed[s] \/ (s = notice.todo /\ l = notice.list)
    BY <2>0 DEF NoticeTypeOK
  <2>3. NoticeTypeOK'
    BY <2>1, <2>2 DEF NoticeTypeOK
  <2>4. ListsAreKept'
    BY <2>1, <2>2 DEF ListsAreKept
  <2>5. OneInfers'
    BY <2>1 DEF OneInfers
  <2> QED  BY <2>1, <2>3, <2>4, <2>5 DEF SentIsAdded, AnswerFindsNotice
<1> QED  BY <1>1, <1>2, <1>3, <1>4

LEMMA SendingKeepsNotices ==
    ASSUME NoticeInv, AppendNotice \/ SendText \/ SendTemplate \/ NoticeDies
    PROVE  NoticeInv'
<1> USE DEF NoticeInv
<1>1. /\ notice' \in Notice
      /\ \/ notice' = NoNotice
         \/ notice'.todo = notice.todo /\ notice'.list = notice.list
      /\ notice'.at \in {"none", "send", "template"}
  BY NoThings DEF AppendNotice, SendText, SendTemplate, NoticeDies, After, Notice, NoticeTypeOK
<1>2. UNCHANGED <<options, inferred, told, pane, pushed, banner, clicked, chatTurn, refreshed>>
  BY DEF AppendNotice, SendText, SendTemplate, NoticeDies
<1>3. notice.todo \in News
  BY DEF Notice, NoticeTypeOK
<1>4. /\ posted' \subseteq News /\ received' \subseteq News /\ unposted' \subseteq News
      /\ SentIsAdded' /\ AnswerFindsNotice'
  <2>1. CASE AppendNotice
    <3>1. notice'.todo = notice.todo
      BY <2>1 DEF AppendNotice, After, NoticeTypeOK, Notice
    <3> QED  BY <1>3, <2>1, <3>1
             DEF AppendNotice, NoticeTypeOK, SentIsAdded, AnswerFindsNotice
  <2>2. CASE SendText
    <3>1. notice'.at \in {"send", "template"} => notice'.todo = notice.todo
      BY <1>1, NoThings
    <3> QED  BY <1>3, <2>2, <3>1
             DEF SendText, NoticeTypeOK, SentIsAdded, AnswerFindsNotice
  <2>3. CASE SendTemplate
    <3>1. notice'.at = "none"
      BY <2>3, NoThings DEF SendTemplate, After
    <3> QED  BY <1>3, <2>3, <3>1
             DEF SendTemplate, NoticeTypeOK, SentIsAdded, AnswerFindsNotice
  <2>4. CASE NoticeDies
    <3>1. notice'.at = "none"
      BY <2>4, NoThings DEF NoticeDies, After
    <3> QED  BY <2>4, <3>1 DEF NoticeDies, NoticeTypeOK, SentIsAdded, AnswerFindsNotice
  <2> QED  BY <2>1, <2>2, <2>3, <2>4
<1>5. NoticeTypeOK'
  BY <1>1, <1>2, <1>4 DEF NoticeTypeOK
<1>6. ListsAreKept'
  BY <1>1, <1>2, NoThings DEF ListsAreKept
<1>7. OneInfers'
  BY <1>1, <1>2 DEF OneInfers
<1> QED  BY <1>4, <1>5, <1>6, <1>7

LEMMA PaneKeepsNotices ==
    ASSUME NoticeInv,
           (\E t \in News, again \in BOOLEAN : OpenPane(t, again)) \/ PaneInfers \/ PaneFails
    PROVE  NoticeInv'
<1> USE DEF NoticeInv
<1>1. ASSUME NEW t \in News, NEW again \in BOOLEAN, OpenPane(t, again) PROVE NoticeInv'
  <2> USE <1>1 DEF OpenPane
  <2>1. pane' \in Pane /\ pane'.todo = t
    BY DEF Pane
  <2>2. /\ refreshed \subseteq refreshed' /\ refreshed' \subseteq News
        /\ t \notin refreshed' => /\ ~(notice.at = "infer" /\ notice.todo = t)
                                  /\ options[t] = 0
    BY DEF MustInfer, InferringFor, NoticeTypeOK
  <2>3. NoticeTypeOK'
    BY <2>1, <2>2 DEF NoticeTypeOK
  <2>4. ListsAreKept'
    BY <2>2 DEF ListsAreKept
  <2>5. OneInfers'
    BY <2>1, <2>2 DEF OneInfers
  <2> QED  BY <2>3, <2>4, <2>5 DEF SentIsAdded, AnswerFindsNotice
<1>2. ASSUME PaneInfers PROVE NoticeInv'
  <2> USE <1>2 DEF PaneInfers
  <2> DEFINE t == pane.todo
  <2>1. t \in News
    BY DEF NoticeTypeOK, Pane
  <2>2. Infers(t)
    OBVIOUS
  <2>3. /\ options' \in [News -> Lists] /\ inferred' \in Lists
        /\ \A s \in News \ {t} : options'[s] = options[s]
        /\ t \notin refreshed => /\ options[t] = 0
                                 /\ \A l \in pushed[t] : l = 0
                                 /\ banner[t] = 0
                                 /\ notice.todo = t => notice.list = 0
    BY <2>1, <2>2, InferringKeeps
  <2>4. NoticeTypeOK'
    BY <2>3, NoThings DEF NoticeTypeOK
  <2>5. ListsAreKept'
    <3>1. ASSUME NEW s \in News \ refreshed
          PROVE  /\ \A l \in pushed[s] : l \in {0, options'[s]}
                 /\ banner[s] \in {0, options'[s]}
                 /\ notice.todo = s => notice.list \in {0, options'[s]}
                 /\ clicked[s][1] = clicked[s][2]
      BY <2>3 DEF ListsAreKept
    <3> QED  BY <3>1 DEF ListsAreKept
  <2>6. OneInfers'
    BY <2>1, <2>3, NoThings DEF OneInfers
  <2> QED  BY <2>4, <2>5, <2>6 DEF SentIsAdded, AnswerFindsNotice
<1>3. ASSUME PaneFails PROVE NoticeInv'
  BY <1>3, NoThings
     DEF PaneFails, NoticeTypeOK, ListsAreKept, OneInfers, SentIsAdded, AnswerFindsNotice
<1> QED  BY <1>1, <1>2, <1>3

LEMMA PageKeepsNotices ==
    ASSUME NoticeInv,
           \/ \E t \in News : ShowBanner(t) \/ ClickButton(t)
           \/ ChatBegins \/ ChatEnds \/ ChatIsReset
    PROVE  NoticeInv'
<1> USE DEF NoticeInv
<1>1. ASSUME NEW t \in News, ShowBanner(t) PROVE NoticeInv'
  <2>1. PICK list \in pushed[t] :
            /\ pushed' = [pushed EXCEPT ![t] = @ \ {list}]
            /\ banner' = [banner EXCEPT ![t] = list]
    BY <1>1 DEF ShowBanner
  <2>2. UNCHANGED <<options, inferred, notice, told, pane, clicked, posted, received,
                    chatTurn, refreshed, unposted>>
    BY <1>1 DEF ShowBanner
  <2>3. list \in Lists
    BY DEF NoticeTypeOK
  <2>4. /\ pushed' \in [News -> SUBSET Lists] /\ banner' \in [News -> Lists]
        /\ \A s \in News : pushed'[s] \subseteq pushed[s]
        /\ \A s \in News : banner'[s] = IF s = t THEN list ELSE banner[s]
    BY <2>1, <2>3 DEF NoticeTypeOK
  <2>5. NoticeTypeOK'
    BY <2>2, <2>4 DEF NoticeTypeOK
  <2>6. ListsAreKept'
    BY <2>2, <2>4 DEF ListsAreKept
  <2> QED  BY <2>2, <2>5, <2>6 DEF OneInfers, SentIsAdded, AnswerFindsNotice
<1>2. ASSUME NEW t \in News, ClickButton(t) PROVE NoticeInv'
  <2> USE <1>2 DEF ClickButton
  <2>1. options[t] \in Lists /\ banner[t] \in Lists
    BY DEF NoticeTypeOK
  <2>2. /\ clicked' \in [News -> Lists \X Lists] /\ banner' \in [News -> Lists]
        /\ \A s \in News : banner'[s] \in {0, banner[s]}
        /\ \A s \in News \ {t} : clicked'[s] = clicked[s]
        /\ clicked'[t][1] = banner[t] /\ clicked'[t][2] = options[t]
    BY <2>1, NoThings DEF NoticeTypeOK
  <2>3. NoticeTypeOK'
    BY <2>2 DEF NoticeTypeOK
  <2>4. ListsAreKept'
    BY <2>2 DEF ListsAreKept
  <2> QED  BY <2>3, <2>4 DEF OneInfers, SentIsAdded, AnswerFindsNotice
<1>3. ASSUME ChatBegins \/ ChatEnds \/ ChatIsReset PROVE NoticeInv'
  <2>1. /\ UNCHANGED <<options, inferred, notice, told, pane, pushed, banner, clicked, received,
                       refreshed>>
        /\ chatTurn' \in Turn /\ posted' \subseteq News /\ unposted' \subseteq News
        /\ posted \cup unposted \subseteq posted' \cup unposted'
    <3>1. /\ posted \subseteq News /\ unposted \subseteq News
          /\ chatTurn \in Turn /\ chatTurn.base \subseteq News
          /\ [on |-> FALSE, base |-> {}] \in Turn /\ [on |-> TRUE, base |-> posted] \in Turn
      BY DEF NoticeTypeOK, Turn
    <3>2. CASE ChatBegins
      BY <3>1, <3>2 DEF ChatBegins
    <3>3. CASE ChatEnds
      BY <3>1, <3>3 DEF ChatEnds, ChatWrites
    <3>4. CASE ChatIsReset
      BY <3>1, <3>4 DEF ChatIsReset, ChatWrites
    <3> QED  BY <1>3, <3>2, <3>3, <3>4
  <2>2. NoticeTypeOK'
    BY <2>1 DEF NoticeTypeOK
  <2> QED  BY <2>1, <2>2 DEF ListsAreKept, OneInfers, SentIsAdded, AnswerFindsNotice
<1> QED  BY <1>1, <1>2, <1>3

LEMMA NoticeSteps == NoticeInv /\ [NoticeNext]_noticeVars => NoticeInv'
<1>1. ASSUME NoticeInv, UNCHANGED noticeVars PROVE NoticeInv'
  BY <1>1 DEF noticeVars, NoticeInv, NoticeTypeOK, ListsAreKept, OneInfers, SentIsAdded,
              AnswerFindsNotice
<1> QED
  BY <1>1, PollerKeepsNotices, SendingKeepsNotices, PaneKeepsNotices, PageKeepsNotices
     DEF NoticeNext

\* A number finds the notice it answers, and a button runs an action of its list, for any
\* news, lists and tabs (src/push_notify.py:195, src/app.py:1047).
THEOREM NoticeInvariance == NoticeSpec => []NoticeInv
BY NoticeStarts, NoticeSteps, PTL DEF NoticeSpec

---------------------------------------------------------------------------
(* The ways out *)

\* The webhook links a phone it has found; then a linked phone speaks for its person, and
\* the card keeps asking.  The codes do not matter.
PhoneInv ==
    /\ number \in [People -> Phones \cup {NoPhone}]
    /\ matched \in [on: BOOLEAN, person: People, phone: Phones \cup {NoPhone}]
    /\ matched.on => matched.phone \in Phones
    /\ proven \in [Phones -> SUBSET People]
    /\ me \in People /\ card \in Card /\ asking \in [By -> Asking]
    /\ PhoneIsOwned /\ CardKeepsAsking

LEMMA PhoneStarts == PhoneInit => PhoneInv
<1> SUFFICES ASSUME PhoneInit PROVE PhoneInv
  OBVIOUS
<1> USE NoPhoneIsNone DEF PhoneInit
<1>1. Anybody \in People
  BY DEF Anybody
<1> QED
  BY <1>1 DEF PhoneInv, Card, Views, Asking, NotAsking, PhoneIsOwned, CardKeepsAsking

LEMMA RoutesKeepPhone ==
    ASSUME PhoneInv,
           \/ \E u \in People : CodeExpires(u)
           \/ \E phone \in Phones, code \in Codes : PhoneSends(phone, code)
           \/ SetWhatsappNumber \/ WebhookFails
    PROVE  PhoneInv'
<1> USE NoPhoneIsNone DEF PhoneInv
<1>1. ASSUME NEW u \in People, CodeExpires(u) PROVE PhoneInv'
  BY <1>1 DEF CodeExpires, cardVars, PhoneIsOwned, CardKeepsAsking
<1>2. ASSUME NEW phone \in Phones, NEW code \in Codes, PhoneSends(phone, code) PROVE PhoneInv'
  <2>1. PICK u \in People : matched' = [on |-> TRUE, person |-> u, phone |-> phone]
    BY <1>2 DEF PhoneSends
  <2> QED  BY <1>2, <2>1 DEF PhoneSends, cardVars, PhoneIsOwned, CardKeepsAsking
<1>3. ASSUME SetWhatsappNumber PROVE PhoneInv'
  <2> USE <1>3 DEF SetWhatsappNumber
  <2> DEFINE u == matched.person
             n == matched.phone
  <2>1. u \in People /\ n \in Phones
    OBVIOUS
  <2>2. /\ number' \in [People -> Phones \cup {NoPhone}]
        /\ \A v \in People : number'[v] = IF v = u THEN n
                                          ELSE IF number[v] = n THEN NoPhone ELSE number[v]
    BY <2>1 DEF LinksAlone
  <2>3. /\ proven' \in [Phones -> SUBSET People]
        /\ \A m \in Phones : proven'[m] = IF m = n THEN {u} ELSE proven[m]
    BY <2>1
  <2>4. /\ matched' \in [on: BOOLEAN, person: People, phone: Phones \cup {NoPhone}]
        /\ ~matched'.on
    OBVIOUS
  <2>5. PhoneIsOwned'
    BY <2>1, <2>2, <2>3 DEF PhoneIsOwned
  <2> QED  BY <2>2, <2>3, <2>4, <2>5 DEF cardVars, CardKeepsAsking
<1>4. ASSUME WebhookFails PROVE PhoneInv'
  BY <1>4 DEF WebhookFails, cardVars, PhoneIsOwned, CardKeepsAsking
<1> QED  BY <1>1, <1>2, <1>3, <1>4

\* A row that stays, or loses its number, is owned as before.
LEMMA CardKeepsPhone ==
    ASSUME PhoneInv, UNCHANGED <<matched, proven, me>>,
           number' \in [People -> Phones \cup {NoPhone}],
           \A u \in People : number'[u] \in {number[u], NoPhone},
           card' \in Card, asking' \in [By -> Asking], CardKeepsAsking'
    PROVE  PhoneInv'
BY DEF PhoneInv, PhoneIsOwned

LEMMA SettingsKeepPhone ==
    ASSUME PhoneInv, OpenSettings \/ LeaveSettings \/ TimerFires PROVE PhoneInv'
<1> USE DEF PhoneInv
<1>1. UNCHANGED <<number, matched, proven, me>>
  BY DEF OpenSettings, LeaveSettings, TimerFires, linkVars
<1>2. card' \in Card /\ asking' \in [By -> Asking] /\ CardKeepsAsking'
  <2>1. CASE OpenSettings
    BY <2>1 DEF OpenSettings, Asks, Card, Asking, By, CardKeepsAsking
  <2>2. CASE LeaveSettings
    BY <2>2 DEF LeaveSettings, Card, CardKeepsAsking
  <2>3. CASE TimerFires
    <3>1. card' \in Card /\ card'.open = card.open
      BY <2>3 DEF TimerFires, Card
    <3>2. CASE card.open
      <4>1. asking' = [asking EXCEPT !["timer"].at = "sent"]
        BY <2>3, <3>2 DEF TimerFires, Asks
      <4>2. asking' \in [By -> Asking] /\ asking'["timer"].at = "sent"
        BY <4>1 DEF Asking, By
      <4> QED  BY <3>1, <4>2 DEF By, CardKeepsAsking
    <3>3. CASE ~card.open
      <4>1. UNCHANGED asking
        BY <2>3, <3>3 DEF TimerFires
      <4> QED  BY <3>1, <3>3, <4>1 DEF CardKeepsAsking
    <3> QED  BY <3>2, <3>3
  <2> QED  BY <2>1, <2>2, <2>3
<1> QED  BY <1>1, <1>2, CardKeepsPhone

LEMMA AnswersKeepPhone ==
    ASSUME PhoneInv, NEW by \in By,
           GetSettings(by) \/ CardIsAnswered(by) \/ CardIsNotAnswered(by)
    PROVE  PhoneInv'
<1> USE DEF PhoneInv
<1>1. UNCHANGED <<number, matched, proven, me>>
  BY DEF GetSettings, CardIsAnswered, CardIsNotAnswered, linkVars
<1>2. card' \in Card /\ asking' \in [By -> Asking] /\ CardKeepsAsking'
  <2>1. CASE GetSettings(by)
    <3>1. Told \in Views
      BY DEF Told, Views
    <3>2. PICK view \in Views : asking' = [asking EXCEPT ![by] = [at |-> "back", view |-> view]]
      BY <2>1, <3>1 DEF GetSettings
    <3> QED  BY <2>1, <3>2 DEF GetSettings, Asking, CardKeepsAsking
  <2>2. CASE CardIsAnswered(by)
    <3>1. asking[by].view \in Views
      BY DEF Asking
    <3>2. PICK view \in Views :
              card' = [card EXCEPT !.view = view, !.timer = view = "code", !.quiet = FALSE]
      BY <2>2, <3>1 DEF CardIsAnswered
    <3>3. card' \in Card /\ (card'.view = "code" => card'.timer)
      BY <3>2 DEF Card
    <3> QED  BY <2>2, <3>3 DEF CardIsAnswered, Asking, NotAsking, Views, CardKeepsAsking
  <2>3. CASE CardIsNotAnswered(by)
    BY <2>3 DEF CardIsNotAnswered, Card, Asking, NotAsking, Views, CardKeepsAsking
  <2> QED  BY <2>1, <2>2, <2>3
<1> QED  BY <1>1, <1>2, CardKeepsPhone

LEMMA ButtonsKeepPhone ==
    ASSUME PhoneInv, NEW u \in People, WhatsappLink(u) \/ WhatsappUnlink(u) PROVE PhoneInv'
<1> USE DEF PhoneInv
<1>1. UNCHANGED <<matched, proven, me, card>>
  BY DEF WhatsappLink, WhatsappUnlink
<1>2. /\ number' \in [People -> Phones \cup {NoPhone}]
      /\ \A v \in People : number'[v] \in {number[v], NoPhone}
  BY DEF WhatsappLink, WhatsappUnlink, ClearWhatsapp
<1>3. PICK view \in Views :
          asking' \in {asking, [asking EXCEPT !["button"] = [at |-> "back", view |-> view]]}
  <2>1. Told \in Views
    BY DEF Told, Views
  <2> QED  BY <2>1 DEF WhatsappLink, WhatsappUnlink, Presses
<1>4. asking' \in [By -> Asking] /\ CardKeepsAsking'
  BY <1>1, <1>3 DEF Asking, By, CardKeepsAsking
<1> QED  BY <1>1, <1>2, <1>4, CardKeepsPhone

LEMMA PhoneSteps == PhoneInv /\ [PhoneNext]_phoneVars => PhoneInv'
<1>1. ASSUME PhoneInv, UNCHANGED phoneVars PROVE PhoneInv'
  BY <1>1 DEF phoneVars, linkVars, cardVars, PhoneInv, PhoneIsOwned, CardKeepsAsking
<1> QED
  BY <1>1, RoutesKeepPhone, SettingsKeepPhone, AnswersKeepPhone, ButtonsKeepPhone DEF PhoneNext

\* What the browser tells the server it is told of the subscription it has, or had.
EnrolInv ==
    /\ sub \in 0 .. MaxSubs /\ subscribed \subseteq Subs /\ unheard \in BOOLEAN
    /\ enrol \in [at: {"none", "save", "delete"}, sub: 0 .. MaxSubs]
    /\ enrol.at = "save" => enrol.sub = sub /\ sub # 0
    /\ enrol.at = "delete" => sub = 0
    /\ EnrolledIsHeard

LEMMA EnrolStarts == EnrolInit => EnrolInv
<1>1. EnrolInit => unheard \in BOOLEAN
  BY Zenon DEF EnrolInit
<1>2. 0 \in 0 .. MaxSubs
  BY SubsAreCounted
<1> QED  BY <1>1, <1>2 DEF EnrolInit, EnrolInv, Subs, EnrolledIsHeard

LEMMA EnrolSteps == EnrolInv /\ [EnrolNext]_enrolVars => EnrolInv'
<1> SUFFICES ASSUME EnrolInv, [EnrolNext]_enrolVars PROVE EnrolInv'
  OBVIOUS
<1> USE SubsAreCounted DEF EnrolInv, Subs, EnrolledIsHeard
<1>0. unheard' \in BOOLEAN
  <2>1. CASE SaveSubscription
    BY <2>1, Zenon DEF SaveSubscription
  <2> QED  BY <2>1, Zenon DEF EnrolNext, Enable, Disable, DeleteSubscription, SendToUser, enrolVars
<1>1. CASE Enable
  BY <1>0, <1>1 DEF Enable
<1>2. CASE SaveSubscription
  BY <1>0, <1>2 DEF SaveSubscription
<1>3. CASE Disable
  BY <1>0, <1>3 DEF Disable
<1>4. CASE DeleteSubscription
  BY <1>0, <1>4 DEF DeleteSubscription
<1>5. CASE SendToUser
  BY <1>0, <1>5 DEF SendToUser
<1>6. CASE UNCHANGED enrolVars
  BY <1>6 DEF enrolVars
<1> QED  BY <1>1, <1>2, <1>3, <1>4, <1>5, <1>6 DEF EnrolNext

\* The ways out are as Settings says, for any people, phones and subscriptions.
THEOREM LinksInvariance == (PhoneSpec => []PhoneInv) /\ (EnrolSpec => []EnrolInv)
<1>1. PhoneSpec => []PhoneInv
  BY PhoneStarts, PhoneSteps, PTL DEF PhoneSpec
<1>2. EnrolSpec => []EnrolInv
  BY EnrolStarts, EnrolSteps, PTL DEF EnrolSpec
<1> QED  BY <1>1, <1>2

---------------------------------------------------------------------------
(* The numbers a phone answers with *)

\* What comes of joining, one sequence after another.
JoinStep(f, s, j) == IF j = 1 THEN s[j] ELSE f[j - 1] \o s[j]
Joins(f, s) == \A j \in 1 .. Len(s) : f[j] = JoinStep(f, s, j)

LEMMA JoinIsThere ==
    ASSUME NEW s
    PROVE  \A n \in Nat : \E f :
               f = [i \in 1 .. n |-> IF i = 1 THEN s[i] ELSE f[i - 1] \o s[i]]
<1> DEFINE Odd == {n \in Nat : ~ \E f :
                       f = [i \in 1 .. n |-> IF i = 1 THEN s[i] ELSE f[i - 1] \o s[i]]}
<1>1. SUFFICES ASSUME Odd # {} PROVE FALSE
  OBVIOUS
<1>2. PICK n \in Odd : \A m \in Odd : n <= m
  <2>1. Odd \subseteq Nat
    OBVIOUS
  <2> HIDE DEF Odd
  <2> QED  BY <1>1, <2>1, LeastIsThere
<1>3. n \in Nat /\ ~ \E f : f = [i \in 1 .. n |-> IF i = 1 THEN s[i] ELSE f[i - 1] \o s[i]]
  BY <1>2
<1>4. CASE n = 0
  <2> DEFINE f == [i \in 1 .. 0 |-> 0]
  <2>1. 1 .. 0 = {}
    OBVIOUS
  <2>2. f = [i \in 1 .. 0 |-> IF i = 1 THEN s[i] ELSE f[i - 1] \o s[i]]
    BY <2>1
  <2> HIDE DEF f
  <2> QED  BY <1>3, <1>4, <2>2
<1>5. CASE n # 0
  <2>1. PICK m \in Nat : n = m + 1
    BY <1>3, <1>5
  <2>2. m \notin Odd
    <3> HIDE DEF Odd
    <3> QED  BY <1>2, <1>3, <2>1
  <2>3. PICK g : g = [i \in 1 .. m |-> IF i = 1 THEN s[i] ELSE g[i - 1] \o s[i]]
    BY <2>2
  <2> DEFINE f == [i \in 1 .. n |-> IF i = 1 THEN s[i] ELSE g[i - 1] \o s[i]]
  <2>4. \A i \in 1 .. m : f[i] = g[i]
    <3>1. \A i \in 1 .. m : i \in 1 .. n
      BY <2>1
    <3>2. \A i \in 1 .. m : g[i] = IF i = 1 THEN s[i] ELSE g[i - 1] \o s[i]
      BY <2>3
    <3> QED  BY <3>1, <3>2
  <2>5. \A i \in 1 .. n : f[i] = IF i = 1 THEN s[i] ELSE f[i - 1] \o s[i]
    <3> SUFFICES ASSUME NEW i \in 1 .. n
                 PROVE  f[i] = IF i = 1 THEN s[i] ELSE f[i - 1] \o s[i]
      OBVIOUS
    <3>1. f[i] = IF i = 1 THEN s[i] ELSE g[i - 1] \o s[i]
      OBVIOUS
    <3>2. i # 1 => i - 1 \in 1 .. m
      BY <1>3, <2>1
    <3>3. i # 1 => f[i - 1] = g[i - 1]
      BY <2>4, <3>2, Zenon
    <3> HIDE DEF f
    <3> QED  BY <3>1, <3>3
  <2>6. f = [i \in 1 .. n |-> f[i]]
    OBVIOUS
  <2> HIDE DEF f
  <2>7. f = [i \in 1 .. n |-> IF i = 1 THEN s[i] ELSE f[i - 1] \o s[i]]
    BY <2>5, <2>6
  <2> QED  BY <1>3, <2>7
<1> QED  BY <1>4, <1>5

LEMMA FlattenJoins ==
    ASSUME NEW s, Len(s) \in Nat \ {0}
    PROVE  \E f : Joins(f, s) /\ Joining!FlattenSeq(s) = f[Len(s)]
<1> DEFINE f == CHOOSE f : f = [i \in 1 .. Len(s) |-> IF i = 1 THEN s[i] ELSE f[i - 1] \o s[i]]
<1>1. f = [i \in 1 .. Len(s) |-> IF i = 1 THEN s[i] ELSE f[i - 1] \o s[i]]
  <2>1. Len(s) \in Nat
    OBVIOUS
  <2> QED  BY <2>1, JoinIsThere, Zenon
<1>2. Joining!FlattenSeq(s) = f[Len(s)]
  BY Zenon DEF Joining!FlattenSeq
<1> HIDE DEF f
<1>3. Joins(f, s)
  BY <1>1 DEF Joins, JoinStep
<1> QED  BY <1>2, <1>3

LEMMA JoinsAreSequences ==
    ASSUME NEW X, NEW s \in Seq(Seq(X)), NEW f, Joins(f, s)
    PROVE  \A j \in 1 .. Len(s) : f[j] \in Seq(X)
<1> DEFINE Odd == {j \in 1 .. Len(s) : f[j] \notin Seq(X)}
<1>1. SUFFICES ASSUME Odd # {} PROVE FALSE
  OBVIOUS
<1>2. Len(s) \in Nat /\ \A j \in 1 .. Len(s) : s[j] \in Seq(X)
  BY LenProperties, ElementOfSeq
<1>3. PICK j \in Odd : \A m \in Odd : j <= m
  <2>1. Odd \subseteq Nat
    BY <1>2
  <2> HIDE DEF Odd
  <2> QED  BY <1>1, <2>1, LeastIsThere
<1>4. j \in 1 .. Len(s) /\ f[j] \notin Seq(X)
  BY <1>3
<1>5. j # 1
  BY <1>2, <1>4 DEF Joins, JoinStep
<1>6. j - 1 \in 1 .. Len(s) /\ j - 1 \notin Odd
  <2>1. j - 1 \in 1 .. Len(s)
    BY <1>2, <1>4, <1>5
  <2> HIDE DEF Odd
  <2>2. j - 1 \notin Odd
    BY <1>2, <1>3, <1>4
  <2> QED  BY <2>1, <2>2
<1>7. f[j - 1] \in Seq(X)
  BY <1>6
<1>8. f[j] = f[j - 1] \o s[j]
  BY <1>4, <1>5 DEF Joins, JoinStep
<1> QED  BY <1>2, <1>4, <1>7, <1>8, ConcatProperties

LEMMA ConcatKeeps ==
    ASSUME NEW X, NEW a \in Seq(X), NEW b \in Seq(X), NEW x \in DOMAIN a
    PROVE  x \in DOMAIN (a \o b) /\ (a \o b)[x] = a[x]
<1>1. /\ Len(a) \in Nat /\ DOMAIN a = 1 .. Len(a) /\ Len(b) \in Nat
      /\ a \o b \in Seq(X) /\ Len(a \o b) = Len(a) + Len(b)
      /\ \A i \in 1 .. Len(a) + Len(b) : (a \o b)[i] = IF i <= Len(a) THEN a[i] ELSE b[i - Len(a)]
  BY LenProperties, ConcatProperties
<1>2. DOMAIN (a \o b) = 1 .. Len(a) + Len(b)
  BY <1>1, LenProperties
<1>3. x \in 1 .. Len(a) + Len(b) /\ x <= Len(a)
  BY <1>1
<1> QED  BY <1>1, <1>2, <1>3

LEMMA ConcatAdds ==
    ASSUME NEW X, NEW a \in Seq(X), NEW b \in Seq(X), NEW x \in DOMAIN b
    PROVE  Len(a) + x \in DOMAIN (a \o b) /\ (a \o b)[Len(a) + x] = b[x]
<1>1. /\ Len(a) \in Nat /\ Len(b) \in Nat /\ DOMAIN b = 1 .. Len(b)
      /\ a \o b \in Seq(X) /\ Len(a \o b) = Len(a) + Len(b)
      /\ \A i \in 1 .. Len(a) + Len(b) : (a \o b)[i] = IF i <= Len(a) THEN a[i] ELSE b[i - Len(a)]
  BY LenProperties, ConcatProperties
<1>2. DOMAIN (a \o b) = 1 .. Len(a) + Len(b)
  BY <1>1, LenProperties
<1>3. Len(a) + x \in 1 .. Len(a) + Len(b) /\ ~(Len(a) + x <= Len(a)) /\ Len(a) + x - Len(a) = x
  BY <1>1
<1>4. (a \o b)[Len(a) + x] = b[Len(a) + x - Len(a)]
  BY <1>1, <1>3
<1> QED  BY <1>2, <1>3, <1>4

\* What was joined stays where it is.
LEMMA JoinsGrow ==
    ASSUME NEW X, NEW s \in Seq(Seq(X)), NEW f, Joins(f, s), NEW j \in 1 .. Len(s),
           NEW x \in DOMAIN f[j]
    PROVE  \A k \in j .. Len(s) : x \in DOMAIN f[k] /\ f[k][x] = f[j][x]
<1> DEFINE Odd == {k \in j .. Len(s) : ~(x \in DOMAIN f[k] /\ f[k][x] = f[j][x])}
<1>1. SUFFICES ASSUME Odd # {} PROVE FALSE
  OBVIOUS
<1>2. Len(s) \in Nat /\ j \in Nat /\ j >= 1 /\ \A k \in 1 .. Len(s) : s[k] \in Seq(X)
  BY LenProperties, ElementOfSeq
<1>3. PICK k \in Odd : \A m \in Odd : k <= m
  <2>1. Odd \subseteq Nat
    BY <1>2
  <2> HIDE DEF Odd
  <2> QED  BY <1>1, <2>1, LeastIsThere
<1>4. k \in j .. Len(s) /\ ~(x \in DOMAIN f[k] /\ f[k][x] = f[j][x])
  BY <1>3
<1>5. k # j
  BY <1>4
<1>6. k - 1 \in j .. Len(s) /\ k - 1 \in 1 .. Len(s) /\ k \in 1 .. Len(s) /\ k - 1 \notin Odd
  <2>1. k - 1 \in j .. Len(s) /\ k - 1 \in 1 .. Len(s) /\ k \in 1 .. Len(s) /\ k # 1
    BY <1>2, <1>4, <1>5
  <2> HIDE DEF Odd
  <2>2. k - 1 \notin Odd
    BY <1>2, <1>3, <1>4
  <2> QED  BY <2>1, <2>2
<1>7. x \in DOMAIN f[k - 1] /\ f[k - 1][x] = f[j][x]
  BY <1>6
<1>8. f[k] = f[k - 1] \o s[k]
  <2>1. k # 1
    BY <1>2, <1>4, <1>5
  <2> QED  BY <1>6, <2>1 DEF Joins, JoinStep
<1>9. f[k - 1] \in Seq(X) /\ s[k] \in Seq(X) /\ f[k] \in Seq(X)
  BY <1>2, <1>6, JoinsAreSequences
<1> HIDE DEF Odd
<1>10. x \in DOMAIN (f[k - 1] \o s[k]) /\ (f[k - 1] \o s[k])[x] = f[k - 1][x]
  BY <1>7, <1>9, ConcatKeeps
<1> QED  BY <1>4, <1>7, <1>8, <1>10, Zenon

\* Sequences of the same lengths are joined to the same lengths.
SameLengths(t, s) == Len(t) <= Len(s) /\ \A j \in 1 .. Len(t) : Len(t[j]) = Len(s[j])

LEMMA JoinsAlike ==
    ASSUME NEW X, NEW s \in Seq(Seq(X)), NEW f, Joins(f, s),
           NEW Y, NEW t \in Seq(Seq(Y)), NEW g, Joins(g, t), SameLengths(t, s)
    PROVE  \A j \in 1 .. Len(t) : Len(g[j]) = Len(f[j])
<1> DEFINE Odd == {j \in 1 .. Len(t) : Len(g[j]) # Len(f[j])}
<1>1. SUFFICES ASSUME Odd # {} PROVE FALSE
  OBVIOUS
<1>2. /\ Len(s) \in Nat /\ \A j \in 1 .. Len(s) : s[j] \in Seq(X)
      /\ Len(t) \in Nat /\ \A j \in 1 .. Len(t) : t[j] \in Seq(Y)
      /\ \A j \in 1 .. Len(t) : j \in 1 .. Len(s) /\ Len(t[j]) = Len(s[j])
  BY LenProperties, ElementOfSeq DEF SameLengths
<1>3. PICK j \in Odd : \A m \in Odd : j <= m
  <2>1. Odd \subseteq Nat
    BY <1>2
  <2> HIDE DEF Odd
  <2> QED  BY <1>1, <2>1, LeastIsThere
<1>4. j \in 1 .. Len(t) /\ j \in 1 .. Len(s) /\ Len(g[j]) # Len(f[j]) /\ Len(t[j]) = Len(s[j])
  BY <1>2, <1>3
<1>5. j # 1
  BY <1>4 DEF Joins, JoinStep
<1>6. j - 1 \in 1 .. Len(t) /\ j - 1 \in 1 .. Len(s) /\ j - 1 \notin Odd
  <2>1. j - 1 \in 1 .. Len(t) /\ j - 1 \in 1 .. Len(s)
    BY <1>2, <1>4, <1>5
  <2> HIDE DEF Odd
  <2>2. j - 1 \notin Odd
    BY <1>2, <1>3, <1>4
  <2> QED  BY <2>1, <2>2
<1>7. Len(g[j - 1]) = Len(f[j - 1])
  BY <1>6
<1>8. f[j] = f[j - 1] \o s[j] /\ g[j] = g[j - 1] \o t[j]
  BY <1>4, <1>5 DEF Joins, JoinStep
<1>9. /\ f[j - 1] \in Seq(X) /\ s[j] \in Seq(X) /\ g[j - 1] \in Seq(Y) /\ t[j] \in Seq(Y)
  BY <1>2, <1>4, <1>6, JoinsAreSequences
<1>10. Len(f[j]) = Len(f[j - 1]) + Len(s[j]) /\ Len(g[j]) = Len(g[j - 1]) + Len(t[j])
  BY <1>8, <1>9, ConcatProperties
<1> QED  BY <1>4, <1>7, <1>10

\* Before a question stand the options of the questions before it.
LEMMA EarlierAreJoined ==
    ASSUME NEW X, NEW s \in Seq(Seq(X)), NEW f, Joins(f, s),
           NEW questions \in Seq(Seq(Labels)), SameLengths(questions, s),
           NEW r \in Nat \ {0}, r + 1 \in 1 .. Len(questions)
    PROVE  Earlier(questions, r + 1) = Len(f[r])
<1> DEFINE head == SubSeq(questions, 1, r)
<1>1. /\ Len(questions) \in Nat /\ Len(s) \in Nat
      /\ \A j \in 1 .. Len(questions) : questions[j] \in Seq(Labels)
  BY LenProperties, ElementOfSeq
<1>2. head \in Seq(Seq(Labels)) /\ Len(head) = r /\ \A k \in 1 .. r : head[k] = questions[k]
  <2>1. 1 \in Int /\ r \in Int /\ \A k \in 1 .. r : questions[k] \in Seq(Labels)
    BY <1>1
  <2>2. /\ head \in Seq(Seq(Labels)) /\ Len(head) = IF 1 <= r THEN r - 1 + 1 ELSE 0
        /\ \A k \in 1 .. r - 1 + 1 : head[k] = questions[1 + k - 1]
    BY <2>1, SubSeqProperties
  <2>3. r - 1 + 1 = r /\ 1 <= r /\ \A k \in 1 .. r : 1 + k - 1 = k
    OBVIOUS
  <2> HIDE DEF head
  <2> QED  BY <2>2, <2>3
<1>3. Earlier(questions, r + 1) = Len(Joining!FlattenSeq(head))
  <2>1. r + 1 - 1 = r
    OBVIOUS
  <2> QED  BY <2>1 DEF Earlier
<1> HIDE DEF head
<1>4. PICK g : Joins(g, head) /\ Joining!FlattenSeq(head) = g[Len(head)]
  BY <1>2, FlattenJoins
<1>5. SameLengths(head, s)
  <2>1. r <= Len(s) /\ \A k \in 1 .. r : k \in 1 .. Len(questions)
    BY <1>1 DEF SameLengths
  <2>2. \A k \in 1 .. r : Len(head[k]) = Len(s[k])
    BY <1>2, <2>1 DEF SameLengths
  <2> QED  BY <1>2, <2>1, <2>2 DEF SameLengths
<1>6. \A k \in 1 .. Len(head) : Len(g[k]) = Len(f[k])
  BY <1>2, <1>4, <1>5, JoinsAlike
<1>7. Len(head) \in 1 .. Len(head)
  BY <1>2
<1> QED  BY <1>2, <1>3, <1>4, <1>6, <1>7

\* The number that format_reply gives to an option is its place among all options.
LEMMA NumberIsPlace ==
    ASSUME NEW questions \in Seq(Seq(Labels)), NEW q \in DOMAIN questions,
           NEW i \in DOMAIN questions[q],
           NEW tagged, tagged = [p \in DOMAIN questions |->
                                    [k \in DOMAIN questions[p] |-> <<p, questions[p][k]>>]],
           NEW flat, flat = Joining!FlattenSeq(tagged)
    PROVE  /\ Earlier(questions, q) + i \in DOMAIN flat
           /\ flat[Earlier(questions, q) + i] = <<q, questions[q][i]>>
<1> DEFINE P == Nat \X Labels
<1>1. /\ Len(questions) \in Nat /\ DOMAIN questions = 1 .. Len(questions)
      /\ \A p \in 1 .. Len(questions) :
             /\ questions[p] \in Seq(Labels) /\ Len(questions[p]) \in Nat
             /\ DOMAIN questions[p] = 1 .. Len(questions[p])
             /\ \A k \in 1 .. Len(questions[p]) : questions[p][k] \in Labels
  <2>1. Len(questions) \in Nat /\ DOMAIN questions = 1 .. Len(questions)
        /\ \A p \in 1 .. Len(questions) : questions[p] \in Seq(Labels)
    BY LenProperties, ElementOfSeq
  <2>2. \A s \in Seq(Labels) : /\ Len(s) \in Nat /\ DOMAIN s = 1 .. Len(s)
                               /\ \A k \in 1 .. Len(s) : s[k] \in Labels
    BY LenProperties, ElementOfSeq
  <2> QED  BY <2>1, <2>2
<1>2. \A p \in 1 .. Len(questions) :
          /\ tagged[p] = [k \in 1 .. Len(questions[p]) |-> <<p, questions[p][k]>>]
          /\ tagged[p] \in Seq(P) /\ Len(tagged[p]) = Len(questions[p])
  <2> SUFFICES ASSUME NEW p \in 1 .. Len(questions)
               PROVE  /\ tagged[p] = [k \in 1 .. Len(questions[p]) |-> <<p, questions[p][k]>>]
                      /\ tagged[p] \in Seq(P) /\ Len(tagged[p]) = Len(questions[p])
    OBVIOUS
  <2>1. tagged[p] = [k \in 1 .. Len(questions[p]) |-> <<p, questions[p][k]>>]
    BY <1>1
  <2>2. tagged[p] \in [1 .. Len(questions[p]) -> P]
    BY <1>1, <2>1
  <2>3. tagged[p] \in Seq(P) /\ Len(tagged[p]) \in Nat /\ DOMAIN tagged[p] = 1 .. Len(tagged[p])
    <3> HIDE DEF P
    <3>1. tagged[p] \in Seq(P)
      BY <1>1, <2>2, SequenceOfLength, Zenon
    <3> QED  BY <3>1, LenProperties
  <2>4. Len(tagged[p]) = Len(questions[p])
    <3>1. 1 .. Len(tagged[p]) = 1 .. Len(questions[p])
      BY <2>1, <2>3
    <3> QED  BY <1>1, <2>3, <3>1
  <2> QED  BY <2>1, <2>3, <2>4
<1> HIDE DEF P
<1>3. tagged \in Seq(Seq(P)) /\ Len(tagged) = Len(questions)
  <2>1. tagged = [p \in 1 .. Len(questions) |-> tagged[p]]
    BY <1>1
  <2>2. tagged \in [1 .. Len(questions) -> Seq(P)]
    BY <1>2, <2>1
  <2>3. tagged \in Seq(Seq(P))
    BY <1>1, <2>2, SequenceOfLength, Zenon
  <2>4. Len(tagged) \in Nat /\ DOMAIN tagged = 1 .. Len(tagged)
    BY <2>3, LenProperties
  <2>5. 1 .. Len(tagged) = 1 .. Len(questions)
    BY <2>1, <2>4
  <2> QED  BY <1>1, <2>3, <2>4, <2>5
<1>4. q \in 1 .. Len(questions) /\ i \in 1 .. Len(questions[q]) /\ i \in DOMAIN tagged[q]
      /\ tagged[q][i] = <<q, questions[q][i]>>
  BY <1>1, <1>2
<1>5. Len(tagged) \in Nat \ {0}
  BY <1>1, <1>3, <1>4
<1>6. PICK g : Joins(g, tagged) /\ flat = g[Len(tagged)]
  BY <1>5, FlattenJoins
<1>7. \A j \in 1 .. Len(tagged) : g[j] \in Seq(P)
  BY <1>3, <1>6, JoinsAreSequences
<1>8. Earlier(questions, q) + i \in DOMAIN g[q]
      /\ g[q][Earlier(questions, q) + i] = <<q, questions[q][i]>>
  <2>2. CASE q = 1
    <3> DEFINE head == SubSeq(questions, 1, q - 1)
    <3>0. Earlier(questions, q) = Len(Joining!FlattenSeq(head))
      BY DEF Earlier
    <3>1. head = <<>> /\ Len(head) = 0
      BY <2>2
    <3>2. Joining!FlattenSeq(head) = head
      BY <3>1 DEF Joining!FlattenSeq
    <3>3. Earlier(questions, q) = 0
      BY <3>0, <3>1, <3>2
    <3>4. g[q] = tagged[q]
      BY <1>3, <1>4, <1>6, <2>2 DEF Joins, JoinStep
    <3>5. 0 + i = i
      BY <1>1, <1>4
    <3> QED  BY <1>4, <3>3, <3>4, <3>5
  <2>3. CASE q # 1
    <3>1. PICK r \in Nat \ {0} : q = r + 1 /\ r \in 1 .. Len(questions)
      <4>1. q - 1 \in Nat \ {0} /\ q = (q - 1) + 1 /\ q - 1 \in 1 .. Len(questions)
        BY <1>1, <1>4, <2>3
      <4> QED  BY <4>1, Zenon
    <3>2. Earlier(questions, q) = Len(g[r])
      <4>1. SameLengths(questions, tagged) /\ r + 1 \in 1 .. Len(questions)
        BY <1>1, <1>2, <1>3, <1>4, <3>1 DEF SameLengths
      <4>2. Earlier(questions, r + 1) = Len(g[r])
        BY <1>3, <1>6, <4>1, EarlierAreJoined
      <4> QED  BY <3>1, <4>2
    <3>3. g[q] = g[r] \o tagged[q] /\ g[r] \in Seq(P) /\ tagged[q] \in Seq(P)
      <4>1. g[q] = g[q - 1] \o tagged[q]
        BY <1>3, <1>4, <1>6, <2>3 DEF Joins, JoinStep
      <4>2. q - 1 = r
        BY <3>1
      <4> QED  BY <1>2, <1>3, <1>4, <1>7, <3>1, <4>1, <4>2
    <3>4. /\ Len(g[r]) + i \in DOMAIN (g[r] \o tagged[q])
          /\ (g[r] \o tagged[q])[Len(g[r]) + i] = tagged[q][i]
      <4>1. PICK a \in Seq(P), b \in Seq(P) : a = g[r] /\ b = tagged[q]
        BY <3>3
      <4>2. i \in DOMAIN b
        BY <1>4, <4>1
      <4>3. Len(a) + i \in DOMAIN (a \o b) /\ (a \o b)[Len(a) + i] = b[i]
        BY <4>2, ConcatAdds
      <4> QED  BY <4>1, <4>3
    <3> QED  BY <1>4, <3>2, <3>3, <3>4
  <2> QED  BY <2>2, <2>3
<1>9. \A k \in q .. Len(tagged) : /\ Earlier(questions, q) + i \in DOMAIN g[k]
                                  /\ g[k][Earlier(questions, q) + i]
                                     = g[q][Earlier(questions, q) + i]
  <2>1. q \in 1 .. Len(tagged)
    BY <1>3, <1>4
  <2> QED  BY <1>3, <1>6, <1>8, <2>1, JoinsGrow
<1>10. Len(tagged) \in q .. Len(tagged)
  BY <1>1, <1>3, <1>4
<1> QED  BY <1>6, <1>8, <1>9, <1>10

LEMMA OrderIsThere ==
    ASSUME NEW n \in Nat, NEW S \in SUBSET (1 .. n)
    PROVE  Enumerates(InOrder(S), S) /\ Cardinality(S) \in Nat
<1>1. \E f : Enumerates(f, S)
  BY PlacesAreEnumerated
<1>2. Enumerates(InOrder(S), S)
  BY <1>1, Zenon DEF InOrder, Enumerates
<1>3. Cardinality(S) \in Nat
  <2>1. 1 \in Int /\ n \in Int
    OBVIOUS
  <2>2. IsFiniteSet(1 .. n)
    BY <2>1, FS_Interval, Zenon
  <2>3. IsFiniteSet(S)
    BY <2>2, FS_Subset, Zenon
  <2> QED  BY <2>3, FS_CardinalityType, Zenon
<1> QED  BY <1>2, <1>3

LEMMA OptionsAreParsed ==
    ASSUME NEW raw \in Seq(Labels \cup {NoLabel}) PROVE ParseOptions(raw) \in Seq(Labels)
<1> DEFINE fresh == {i \in DOMAIN raw :
                        raw[i] # NoLabel /\ \A j \in 1 .. i - 1 : raw[j] # raw[i]}
           order == InOrder(fresh)
           shown == Least(Len(order), OptionsCap)
<1>1. Len(raw) \in Nat /\ DOMAIN raw = 1 .. Len(raw)
      /\ \A i \in 1 .. Len(raw) : raw[i] \in Labels \cup {NoLabel}
  BY LenProperties, ElementOfSeq
<1>2. fresh \in SUBSET (1 .. Len(raw)) /\ \A i \in fresh : raw[i] \in Labels
  BY <1>1
<1>3. ParseOptions(raw) = [k \in 1 .. shown |-> raw[order[k]]]
  BY DEF ParseOptions
<1> HIDE DEF fresh
<1>4. order \in [1 .. Cardinality(fresh) -> fresh] /\ Cardinality(fresh) \in Nat
  BY <1>1, <1>2, OrderIsThere DEF Enumerates
<1> HIDE DEF order
<1>5. Len(order) = Cardinality(fresh)
  BY <1>4
<1>6. shown \in Nat /\ \A k \in 1 .. shown : k \in 1 .. Cardinality(fresh)
  BY <1>4, <1>5, RepliesAreKnown DEF Least
<1> HIDE DEF shown
<1>7. ParseOptions(raw) \in [1 .. shown -> Labels]
  BY <1>2, <1>3, <1>4, <1>6
<1> QED  BY <1>6, <1>7, SequenceOfLength, Zenon

LEMMA QuestionsAreSplit ==
    ASSUME NEW block \in Seq([asks: BOOLEAN, options: Seq(Labels \cup {NoLabel})])
    PROVE  SplitQuestions(block) \in Seq(Seq(Labels))
<1> DEFINE puts == {i \in 1 .. Least(Len(block), QuestionsCap) : block[i].asks}
           order == InOrder(puts)
<1>1. Len(block) \in Nat
      /\ \A i \in 1 .. Len(block) : block[i].options \in Seq(Labels \cup {NoLabel})
  <2>1. Len(block) \in Nat
    BY LenProperties, Zenon
  <2>2. \A i \in 1 .. Len(block) :
            block[i] \in [asks: BOOLEAN, options: Seq(Labels \cup {NoLabel})]
    BY ElementOfSeq, Zenon
  <2> QED  BY <2>1, <2>2
<1>2. puts \in SUBSET (1 .. Len(block))
  BY <1>1, RepliesAreKnown DEF Least
<1>3. SplitQuestions(block) = [q \in DOMAIN order |-> ParseOptions(block[order[q]].options)]
  BY DEF SplitQuestions
<1> HIDE DEF puts
<1>4. order \in [1 .. Cardinality(puts) -> puts] /\ Cardinality(puts) \in Nat
  BY <1>1, <1>2, OrderIsThere DEF Enumerates
<1> HIDE DEF order
<1>5. \A q \in 1 .. Cardinality(puts) : ParseOptions(block[order[q]].options) \in Seq(Labels)
  BY <1>1, <1>2, <1>4, OptionsAreParsed
<1>6. SplitQuestions(block) \in [1 .. Cardinality(puts) -> Seq(Labels)]
  BY <1>3, <1>4, <1>5
<1> QED  BY <1>4, <1>6, SequenceOfLength, Zenon

\* The list of a notice without twins is the list of its bubble.
LEMMA NoticeIsAsShown ==
    ASSUME NEW actions \in ActionLists, ~Twins(actions)
    PROVE  FormatReply(SplitQuestions(ChatNoticeBubble(actions))) = BuildWhatsappText(actions)
<1>1. PICK n \in {1, 2} : /\ DOMAIN actions = 1 .. n /\ Len(actions) = n
                          /\ \A i \in 1 .. n : actions[i] \in Labels
  BY DEF ActionLists
<1>2. ParseOptions(actions) = actions
  <2> DEFINE fresh == {i \in DOMAIN actions : /\ actions[i] # NoLabel
                                              /\ \A j \in 1 .. i - 1 : actions[j] # actions[i]}
             order == InOrder(fresh)
             shown == Least(Len(order), OptionsCap)
  <2>1. fresh = 1 .. n
    <3>1. \A i \in 1 .. n : actions[i] # NoLabel
      BY <1>1, RepliesAreKnown
    <3>2. \A i \in 1 .. n : \A j \in 1 .. i - 1 : j \in 1 .. n /\ j # i
      BY <1>1
    <3>3. \A i, j \in 1 .. n : i # j => actions[i] # actions[j]
      BY <1>1 DEF Twins
    <3> QED  BY <1>1, <3>1, <3>2, <3>3
  <2>2. ParseOptions(actions) = [k \in 1 .. shown |-> actions[order[k]]]
    BY DEF ParseOptions
  <2>3. /\ Enumerates(order, fresh) /\ Cardinality(fresh) = n
    <3>1. n \in Nat /\ fresh \in SUBSET (1 .. n)
      BY <1>1, <2>1
    <3>2. Cardinality(1 .. n) = n
      BY <1>1, FS_Interval
    <3> HIDE DEF fresh
    <3> QED  BY <2>1, <3>1, <3>2, OrderIsThere
  <2> HIDE DEF order, fresh
  <2>4. order \in [1 .. n -> 1 .. n] /\ \A j, k \in 1 .. n : j < k => order[j] < order[k]
    BY <2>1, <2>3 DEF Enumerates
  <2>5. \A k \in 1 .. n : order[k] = k
    BY <1>1, <2>4
  <2>6. Len(order) = n
    BY <1>1, <2>4
  <2>7. shown = n
    BY <1>1, <2>6, RepliesAreKnown DEF Least
  <2> HIDE DEF shown
  <2>8. ParseOptions(actions) = [k \in 1 .. n |-> actions[k]]
    BY <2>2, <2>5, <2>7
  <2> QED  BY <1>1, <2>8 DEF ActionLists
<1> DEFINE block == ChatNoticeBubble(actions)
<1>3. Len(block) = 1 /\ block[1].asks = TRUE /\ block[1].options = actions
  BY DEF ChatNoticeBubble
<1> HIDE DEF block
<1> DEFINE puts == {i \in 1 .. Least(Len(block), QuestionsCap) : block[i].asks}
           order == InOrder(puts)
<1>4. puts = 1 .. 1
  <2>1. Least(Len(block), QuestionsCap) = 1
    BY <1>3, RepliesAreKnown DEF Least
  <2> QED  BY <1>3, <2>1
<1>5. SplitQuestions(block) = [q \in DOMAIN order |-> ParseOptions(block[order[q]].options)]
  BY DEF SplitQuestions
<1>6. Enumerates(order, puts) /\ Cardinality(puts) = 1
  <2>1. 1 \in Nat /\ puts \in SUBSET (1 .. 1)
    BY <1>4
  <2>2. Cardinality(1 .. 1) = 1
    <3>1. 1 \in Int
      OBVIOUS
    <3>2. Cardinality(1 .. 1) = IF 1 > 1 THEN 0 ELSE 1 - 1 + 1
      BY <3>1, FS_Interval, Zenon
    <3> QED  BY <3>2
  <2> HIDE DEF puts
  <2> QED  BY <1>4, <2>1, <2>2, OrderIsThere
<1> HIDE DEF order, puts
<1>7. order \in [1 .. 1 -> 1 .. 1]
  BY <1>4, <1>6 DEF Enumerates
<1>8. DOMAIN order = {1} /\ order[1] = 1
  BY <1>7
<1> DEFINE questions == SplitQuestions(block)
<1>9. DOMAIN questions = {1} /\ questions[1] = actions
  BY <1>2, <1>3, <1>5, <1>8
<1>10. Earlier(questions, 1) = 0
  <2>1. SubSeq(questions, 1, 1 - 1) = <<>>
    BY SubSeqEmpty
  <2> HIDE DEF questions
  <2>2. SubSeq(questions, 1, 0) = <<>>
    BY <1>9, SubSeqEmpty
  <2>3. Earlier(questions, 1) = Len(Joining!FlattenSeq(<<>>))
    <3>1. SubSeq(questions, 1, 1 - 1) = <<>>
      BY <2>2
    <3> QED  BY <3>1, Zenon DEF Earlier
  <2>4. Joining!FlattenSeq(<<>>) = <<>>
    BY DEF Joining!FlattenSeq
  <2> QED  BY <2>3, <2>4
<1> HIDE DEF questions
<1>11. FormatReply(questions) = {<<0 + i, 1, actions[i]>> : i \in DOMAIN actions}
  BY <1>9, <1>10 DEF FormatReply
<1>12. \A i \in DOMAIN actions : 0 + i = i
  BY <1>1
<1>13. FormatReply(questions) = BuildWhatsappText(actions)
  BY <1>11, <1>12 DEF BuildWhatsappText
<1> QED  BY <1>13 DEF questions, block

\* What the person reads off a list is what the number is taken for.
LEMMA NumbersAreUnderstood ==
    ASSUME NEW questions \in Seq(Seq(Labels)), NEW digits,
           \A k \in DOMAIN digits : \E l \in FormatReply(questions) : l[1] = digits[k]
    PROVE  AnswerFromReply(digits, questions) = Meant(digits, FormatReply(questions))
<1> DEFINE list == FormatReply(questions)
           tagged == [q \in DOMAIN questions |->
                         [i \in DOMAIN questions[q] |-> <<q, questions[q][i]>>]]
           flat == Joining!FlattenSeq(tagged)
           line(n) == CHOOSE l \in list : l[1] = n
<1>1. ASSUME NEW l \in list PROVE l[1] \in DOMAIN flat /\ Tail(l) = flat[l[1]]
  <2>0. PICK q \in DOMAIN questions :
            l \in {<<Earlier(questions, q) + i, q, questions[q][i]>> : i \in DOMAIN questions[q]}
    BY DEF FormatReply, list
  <2>1. PICK i \in DOMAIN questions[q] :
            l = <<Earlier(questions, q) + i, q, questions[q][i]>>
    BY <2>0
  <2>2. /\ Earlier(questions, q) + i \in DOMAIN flat
        /\ flat[Earlier(questions, q) + i] = <<q, questions[q][i]>>
    <3>1. tagged = [p \in DOMAIN questions |->
                       [k \in DOMAIN questions[p] |-> <<p, questions[p][k]>>]]
      OBVIOUS
    <3>2. flat = Joining!FlattenSeq(tagged)
      OBVIOUS
    <3> HIDE DEF flat, tagged
    <3> QED  BY <3>1, <3>2, NumberIsPlace
  <2>3. l[1] = Earlier(questions, q) + i /\ Tail(l) = <<q, questions[q][i]>>
    BY <2>1
  <2> HIDE DEF flat
  <2> QED  BY <2>2, <2>3
<1> HIDE DEF flat, list
<1>2. ASSUME NEW k \in DOMAIN digits
      PROVE  digits[k] \in DOMAIN flat /\ Tail(line(digits[k])) = flat[digits[k]]
  <2>1. \E l \in list : l[1] = digits[k]
    BY DEF list
  <2>2. line(digits[k]) \in list /\ line(digits[k])[1] = digits[k]
    BY <2>1
  <2> HIDE DEF line
  <2> QED  BY <1>1, <2>2
<1>3. [k \in DOMAIN digits |-> flat[digits[k]]] = [k \in DOMAIN digits |-> Tail(line(digits[k]))]
  BY <1>2
<1>4. AnswerFromReply(digits, questions) = Picked([k \in DOMAIN digits |-> flat[digits[k]]])
  BY <1>2, Zenon DEF AnswerFromReply, flat
<1>5. Meant(digits, list) = Picked([k \in DOMAIN digits |-> Tail(line(digits[k]))])
  BY Zenon DEF Meant
<1> QED  BY <1>3, <1>4, <1>5, Zenon DEF list

\* The thread is of questions, and the phone has the numbers of the last ones or none, unless
\* it is known to be unlike.
RepliesInv ==
    /\ last \in Seq(Seq(Labels))
    /\ ~unlike => onPhone \in {{}, FormatReply(last)}
    /\ NumberIsUnderstood

LEMMA NothingIsAsked == <<>> \in Seq(Seq(Labels)) /\ FormatReply(<<>>) = {}
<1>1. <<>> \in Seq(Seq(Labels))
  BY EmptySeq, Zenon
<1>2. DOMAIN <<>> = {}
  OBVIOUS
<1> QED  BY <1>1, <1>2 DEF FormatReply

LEMMA RepliesStart == RepliesInit => RepliesInv
BY NothingIsAsked DEF RepliesInit, RepliesInv, NumberIsUnderstood, NoReply

LEMMA RepliesSteps == RepliesInv /\ [RepliesNext]_repliesVars => RepliesInv'
<1> SUFFICES ASSUME RepliesInv, [RepliesNext]_repliesVars PROVE RepliesInv'
  OBVIOUS
<1>0. NoReply.taken = NoReply.meant
  BY DEF NoReply
<1>1. ASSUME NEW m \in onPhone, NEW digits, PhoneAnswers(digits) PROVE RepliesInv'
  <2>1. UNCHANGED <<last, onPhone, unlike>>
    BY <1>1 DEF PhoneAnswers
  <2>2. /\ reply'.meant = Meant(digits, onPhone) /\ reply'.taken = AnswerFromReply(digits, last)
        /\ reply'.unlike = unlike
    BY <1>1 DEF PhoneAnswers
  <2>3. ASSUME ~unlike PROVE Meant(digits, onPhone) = AnswerFromReply(digits, last)
    <3>1. onPhone = FormatReply(last) /\ last \in Seq(Seq(Labels))
      BY <1>1, <2>3 DEF RepliesInv
    <3>2. \A k \in DOMAIN digits : \E l \in FormatReply(last) : l[1] = digits[k]
      BY <1>1, <3>1 DEF PhoneAnswers
    <3> QED  BY <3>1, <3>2, NumbersAreUnderstood
  <2>4. NumberIsUnderstood'
    BY <2>2, <2>3 DEF NumberIsUnderstood
  <2> QED  BY <2>1, <2>4 DEF RepliesInv
<1>2. ASSUME NEW who, WriteBegins(who) PROVE RepliesInv'
  BY <1>0, <1>2 DEF WriteBegins, RepliesInv, NumberIsUnderstood
<1>3. ASSUME NEW block \in Blocks, TurnAnswers(block) PROVE RepliesInv'
  <2>1. block \in Seq([asks: BOOLEAN, options: Seq(Labels \cup {NoLabel})])
    BY RepliesAreKnown
  <2>2. last' \in Seq(Seq(Labels))
    BY <1>3, <2>1, QuestionsAreSplit DEF TurnAnswers
  <2> QED  BY <1>0, <1>3, <2>2 DEF TurnAnswers, RepliesInv, NumberIsUnderstood
<1>4. CASE TurnDiscarded
  <2>1. UNCHANGED <<last, unlike>> /\ reply' = NoReply /\ onPhone' \in {onPhone, {}}
    BY <1>4 DEF TurnDiscarded
  <2> QED  BY <1>0, <2>1 DEF RepliesInv, NumberIsUnderstood
<1>5. ASSUME NEW actions \in ActionLists, NoticeAdded(actions) PROVE RepliesInv'
  <2>1. ChatNoticeBubble(actions) \in Seq([asks: BOOLEAN, options: Seq(Labels \cup {NoLabel})])
    <3> DEFINE B == [asks: BOOLEAN, options: Seq(Labels \cup {NoLabel})]
    <3>1. actions \in Seq(Labels \cup {NoLabel})
      <4> DEFINE L == Labels \cup {NoLabel}
      <4>1. ASSUME NEW a \in Labels, NEW b \in Labels PROVE <<a>> \in Seq(L) /\ <<a, b>> \in Seq(L)
        <5>1. a \in L /\ b \in L
          OBVIOUS
        <5> HIDE DEF L
        <5> QED  BY <5>1
      <4>2. \/ \E a \in Labels : actions = <<a>>
            \/ \E a, b \in Labels : actions = <<a, b>>
        BY DEF ActionLists
      <4> HIDE DEF L
      <4>3. actions \in Seq(L)
        BY <4>1, <4>2
      <4> QED  BY <4>3 DEF L
    <3>2. [asks |-> TRUE, options |-> actions] \in B
      BY <3>1
    <3> HIDE DEF B
    <3>3. <<[asks |-> TRUE, options |-> actions]>> \in Seq(B)
      BY <3>2
    <3> QED  BY <3>3 DEF ChatNoticeBubble, B
  <2>2. last' \in Seq(Seq(Labels))
    BY <1>5, <2>1, QuestionsAreSplit DEF NoticeAdded, RepliesInv
  <2> QED  BY <1>0, <1>5, <2>2 DEF NoticeAdded, RepliesInv, NumberIsUnderstood
<1>6. ASSUME NEW actions \in ActionLists, NoticeSent(actions) PROVE RepliesInv'
  <2>1. alert.list = BuildWhatsappText(actions) /\ UNCHANGED last
    BY <1>6 DEF NoticeSent
  <2>2. CASE UNCHANGED <<onPhone, unlike>>
    BY <1>0, <1>6, <2>1, <2>2 DEF NoticeSent, RepliesInv, NumberIsUnderstood
  <2>3. CASE /\ onPhone' = alert.list
             /\ unlike' = (Twins(actions) \/ last # SplitQuestions(ChatNoticeBubble(actions)))
    <3>1. ~unlike' => onPhone' = FormatReply(last)
      BY <2>1, <2>3, NoticeIsAsShown
    <3> QED  BY <1>0, <1>6, <2>1, <3>1 DEF NoticeSent, RepliesInv, NumberIsUnderstood
  <2> QED  BY <1>6, <2>2, <2>3 DEF NoticeSent
<1>7. CASE ThreadCleared
  BY <1>0, <1>7, NothingIsAsked DEF ThreadCleared, RepliesInv, NumberIsUnderstood
<1>8. CASE UNCHANGED repliesVars
  BY <1>8 DEF repliesVars, RepliesInv, NumberIsUnderstood
<1> QED
  BY <1>1, <1>2, <1>3, <1>4, <1>5, <1>6, <1>7, <1>8, Zenon DEF RepliesNext

\* A number is taken for the option it stands at on the phone, for any blocks and labels and
\* any number of questions and options.
THEOREM RepliesInvariance == RepliesSpec => []RepliesInv
BY RepliesStart, RepliesSteps, PTL DEF RepliesSpec

---------------------------------------------------------------------------
(* The steps of a turn *)

LEMMA HeadAndTail ==
    ASSUME NEW S, NEW s \in Seq(S), s # <<>>
    PROVE  /\ Head(s) \in S /\ Head(s) = s[1]
           /\ Tail(s) \in Seq(S) /\ Len(s) \in Nat \ {0}
           /\ Len(Tail(s)) = Len(s) - 1
           /\ \A i \in 1 .. Len(Tail(s)) : Tail(s)[i] = s[i + 1]
<1>1. Head(s) = s[1]
  OBVIOUS
<1>2. Len(s) \in Nat \ {0}
  BY EmptySeq
<1> QED  BY <1>1, <1>2, HeadTailProperties

\* The turns that are to come have done nothing; the last drain belongs to the turn that
\* is on, and has been made once the turn is over.
TurnsFollow ==
    /\ ~session => steps = 0
    /\ ongoing = 0 => stage = "over"
    /\ \A n \in TurnNos : n > ongoing => watcher[n] = NoWatcher /\ handed[n] = <<>>
    /\ \A n \in TurnNos : watcher[n].reader["end"].at \in {"idle", "tells"}
                          => n = ongoing /\ stage = "drains"
    /\ ongoing # 0 /\ stage \in {"runs", "stops"} => watcher[ongoing].reader["end"].at = "off"
    /\ ongoing # 0 /\ stage = "over" => watcher[ongoing].reader["end"].at = "out"

RowsAreThere ==
    \A n \in TurnNos, r \in Readers :
        watcher[n].reader[r].at = "tells" => watcher[n].reader[r].rows # <<>>

\* A sure turn has told what came after its beginning, as far as its last step; what a
\* reader still has to tell comes right behind, and for the last reader it is the rest.
\* The last reader is alone.
StepsAreInOrder ==
    \A n \in TurnNos \ unsure :
        /\ \A i \in DOMAIN handed[n] : handed[n][i] = before[n] + i
        /\ before[n] + Len(handed[n]) = watcher[n].last
        /\ watcher[n].last <= steps
        /\ watcher[n].reader["end"].at # "off" => watcher[n].reader["loop"].at = "out"
        /\ \A r \in Readers : watcher[n].reader[r].at = "tells" =>
              LET lines == watcher[n].reader[r].rows IN
              /\ \A i \in DOMAIN lines : lines[i] = watcher[n].last + i
              /\ watcher[n].last + Len(lines) <= steps
              /\ r = "end" => watcher[n].last + Len(lines) = steps
        /\ watcher[n].reader["end"].at = "out" /\ n = ongoing => watcher[n].last = steps

ActivityInv == ActivityTypeOK /\ TurnsFollow /\ RowsAreThere /\ StepsAreInOrder

LEMMA ActivityTells == ActivityInv => StepsAreTold
<1> SUFFICES ASSUME ActivityInv, NEW n \in TurnNos \ unsure
             PROVE  /\ \A i \in DOMAIN handed[n] : handed[n][i] = before[n] + i
                    /\ n = ongoing /\ stage = "over" => before[n] + Len(handed[n]) = steps
  BY DEF StepsAreTold
<1>1. /\ \A i \in DOMAIN handed[n] : handed[n][i] = before[n] + i
      /\ before[n] + Len(handed[n]) = watcher[n].last
  BY DEF ActivityInv, StepsAreInOrder
<1>2. ASSUME n = ongoing, stage = "over" PROVE watcher[n].last = steps
  <2>1. watcher[n].reader["end"].at = "out"
    BY <1>2, ActivityBounds DEF ActivityInv, TurnsFollow, TurnNos
  <2> QED  BY <1>2, <2>1 DEF ActivityInv, StepsAreInOrder
<1> QED  BY <1>1, <1>2

LEMMA NoWatcherIs ==
    /\ NoWatcher \in Watcher /\ NoWatcher.last = 0
    /\ \A r \in Readers : NoWatcher.reader[r] = NoReader
    /\ NoReader \in Reader /\ NoReader.at = "off" /\ NoReader.rows = <<>>
<1>1. NoReader \in Reader
  BY DEF NoReader, Reader
<1> QED  BY <1>1, ActivityBounds DEF NoWatcher, Watcher, NoReader

LEMMA ActivityStarts == ActivityInit => ActivityInv
<1> SUFFICES ASSUME ActivityInit PROVE ActivityInv
  OBVIOUS
<1> USE ActivityBounds, NoWatcherIs DEF ActivityInit, TurnNos
<1>1. ActivityTypeOK
  <2>1. session \in BOOLEAN
    BY Zenon
  <2>2. handed \in [TurnNos -> Seq(1 .. MaxSteps)] /\ before \in [TurnNos -> 0 .. MaxSteps]
    OBVIOUS
  <2>3. watcher \in [TurnNos -> Watcher]
    BY Zenon
  <2> QED  BY <2>1, <2>2, <2>3 DEF ActivityTypeOK
<1>2. TurnsFollow
  BY DEF TurnsFollow, Readers
<1>3. RowsAreThere
  BY DEF RowsAreThere
<1>4. StepsAreInOrder
  BY DEF StepsAreInOrder, Readers
<1> QED  BY <1>1, <1>2, <1>3, <1>4 DEF ActivityInv

\* One reader of one turn goes on, and nothing else.
Reads(n, r, reader) == watcher' = [watcher EXCEPT ![n].reader[r] = reader]

LEMMA ReaderAlone ==
    ASSUME watcher \in [TurnNos -> Watcher], NEW n \in TurnNos, NEW r \in Readers,
           NEW reader \in Reader, Reads(n, r, reader)
    PROVE  /\ watcher' \in [TurnNos -> Watcher]
           /\ \A m \in TurnNos \ {n} : watcher'[m] = watcher[m]
           /\ watcher'[n].last = watcher[n].last /\ watcher'[n].stop = watcher[n].stop
           /\ watcher'[n].reader[r] = reader
           /\ \A q \in Readers \ {r} : watcher'[n].reader[q] = watcher[n].reader[q]
<1>1. watcher[n] \in Watcher
  OBVIOUS
<1>2. [watcher[n].reader EXCEPT ![r] = reader] \in [Readers -> Reader]
  BY <1>1 DEF Watcher
<1>3. [watcher[n] EXCEPT !.reader = [watcher[n].reader EXCEPT ![r] = reader]] \in Watcher
  BY <1>1, <1>2 DEF Watcher
<1>4. watcher' = [watcher EXCEPT
          ![n] = [watcher[n] EXCEPT !.reader = [watcher[n].reader EXCEPT ![r] = reader]]]
  BY DEF Reads
<1> QED  BY <1>1, <1>2, <1>3, <1>4 DEF Watcher

\* A reader that was idle has read the store, failed to, or ended.
LEMMA ReaderMoves ==
    ASSUME ActivityInv, NEW n \in TurnNos, NEW r \in Readers, NEW reader \in Reader,
           Reads(n, r, reader), watcher[n].reader[r].at = "idle",
           UNCHANGED <<steps, session, ongoing, stage, before, handed>>,
           unsure \subseteq unsure', unsure' \subseteq TurnNos,
           reader.at # "off",
           reader.at = "tells" =>
               /\ reader.rows = [i \in 1 .. steps - watcher[n].last |-> watcher[n].last + i]
               /\ reader.rows # <<>>,
           r = "end" => reader.at \in {"tells", "out"},
           r = "end" /\ reader.at = "out" /\ n \notin unsure' => watcher[n].last = steps
    PROVE  ActivityInv'
<1> USE ActivityBounds DEF ActivityInv
<1>1. /\ watcher' \in [TurnNos -> Watcher]
      /\ \A m \in TurnNos \ {n} : watcher'[m] = watcher[m]
      /\ watcher'[n].last = watcher[n].last /\ watcher'[n].stop = watcher[n].stop
      /\ watcher'[n].reader[r] = reader
      /\ \A q \in Readers \ {r} : watcher'[n].reader[q] = watcher[n].reader[q]
  BY ReaderAlone DEF ActivityTypeOK
<1>2. ActivityTypeOK'
  BY <1>1 DEF ActivityTypeOK
<1>3. RowsAreThere'
  BY <1>1 DEF RowsAreThere
<1>4. ~(n > ongoing)
  BY NoWatcherIs DEF TurnsFollow
<1>5. TurnsFollow'
  <2>1. /\ ~session => steps = 0
        /\ ongoing = 0 => stage = "over"
        /\ \A m \in TurnNos : m > ongoing => watcher'[m] = NoWatcher /\ handed[m] = <<>>
    BY <1>1, <1>4 DEF TurnsFollow
  <2>2. CASE r = "end"
    <3>1. n = ongoing /\ stage = "drains"
      BY <2>2 DEF TurnsFollow
    <3>2. \A m \in TurnNos : watcher'[m].reader["end"].at \in {"idle", "tells"}
                             => m = ongoing /\ stage = "drains"
      BY <1>1, <3>1 DEF TurnsFollow
    <3> QED  BY <2>1, <3>1, <3>2 DEF TurnsFollow
  <2>3. CASE r = "loop"
    <3>1. \A m \in TurnNos : watcher'[m].reader["end"] = watcher[m].reader["end"]
      BY <1>1, <2>3 DEF Readers
    <3>2. ongoing # 0 => ongoing \in TurnNos
      BY DEF ActivityTypeOK, TurnNos
    <3> QED  BY <2>1, <3>1, <3>2 DEF TurnsFollow
  <2> QED  BY <2>2, <2>3 DEF Readers
<1>6. StepsAreInOrder'
  <2> DEFINE Sure(m) ==
        /\ \A i \in DOMAIN handed[m] : handed[m][i] = before[m] + i
        /\ before[m] + Len(handed[m]) = watcher'[m].last
        /\ watcher'[m].last <= steps
        /\ watcher'[m].reader["end"].at # "off" => watcher'[m].reader["loop"].at = "out"
        /\ \A q \in Readers : watcher'[m].reader[q].at = "tells" =>
              LET lines == watcher'[m].reader[q].rows IN
              /\ \A i \in DOMAIN lines : lines[i] = watcher'[m].last + i
              /\ watcher'[m].last + Len(lines) <= steps
              /\ q = "end" => watcher'[m].last + Len(lines) = steps
        /\ watcher'[m].reader["end"].at = "out" /\ m = ongoing => watcher'[m].last = steps
  <2>1. \A m \in TurnNos \ unsure' : m # n => Sure(m)
    BY <1>1 DEF StepsAreInOrder
  <2>2. n \notin unsure' => Sure(n)
    <3> SUFFICES ASSUME n \notin unsure' PROVE Sure(n)
      OBVIOUS
    <3>0. n \in TurnNos \ unsure
      OBVIOUS
    <3>1. watcher[n].last \in Nat /\ steps \in Nat /\ watcher[n].last <= steps
      BY <3>0 DEF ActivityTypeOK, Watcher, StepsAreInOrder
    <3>2. watcher'[n].reader["end"].at # "off" => watcher'[n].reader["loop"].at = "out"
      <4>1. CASE r = "end"
        BY <1>1, <3>0, <4>1 DEF StepsAreInOrder, Readers
      <4>2. CASE r = "loop"
        <5>1. watcher[n].reader["end"].at = "off"
          BY <3>0, <4>2 DEF StepsAreInOrder
        <5> QED  BY <1>1, <4>2, <5>1 DEF Readers
      <4> QED  BY <4>1, <4>2 DEF Readers
    <3>3. reader.at = "tells" =>
              /\ \A i \in DOMAIN reader.rows : reader.rows[i] = watcher[n].last + i
              /\ watcher[n].last + Len(reader.rows) = steps
      <4>1. ASSUME reader.at = "tells" PROVE Len(reader.rows) = steps - watcher[n].last
        <5>1. DOMAIN reader.rows = 1 .. steps - watcher[n].last
          BY <4>1
        <5>2. reader.rows \in Seq(1 .. MaxSteps)
          BY DEF Reader
        <5> QED  BY <3>1, <5>1, <5>2, LenProperties
      <4> QED  BY <3>1, <4>1
    <3>4. \A q \in Readers : watcher'[n].reader[q].at = "tells" =>
              LET lines == watcher'[n].reader[q].rows IN
              /\ \A i \in DOMAIN lines : lines[i] = watcher'[n].last + i
              /\ watcher'[n].last + Len(lines) <= steps
              /\ q = "end" => watcher'[n].last + Len(lines) = steps
      <4>1. CASE reader.at = "tells"
        <5>1. /\ \A i \in DOMAIN reader.rows : reader.rows[i] = watcher'[n].last + i
              /\ watcher'[n].last + Len(reader.rows) <= steps
              /\ watcher'[n].last + Len(reader.rows) = steps
          BY <1>1, <3>1, <3>3, <4>1
        <5>2. \A q \in Readers \ {r} : watcher'[n].reader[q].at = "tells" =>
                LET lines == watcher'[n].reader[q].rows IN
                /\ \A i \in DOMAIN lines : lines[i] = watcher'[n].last + i
                /\ watcher'[n].last + Len(lines) <= steps
                /\ q = "end" => watcher'[n].last + Len(lines) = steps
          BY <1>1, <3>0 DEF StepsAreInOrder
        <5> QED  BY <1>1, <5>1, <5>2
      <4>2. CASE reader.at # "tells"
        BY <1>1, <3>0, <4>2 DEF StepsAreInOrder
      <4> QED  BY <4>1, <4>2
    <3>5. watcher'[n].reader["end"].at = "out" /\ n = ongoing => watcher'[n].last = steps
      <4>1. CASE r = "end"
        BY <1>1, <4>1
      <4>2. CASE r = "loop"
        BY <1>1, <3>0, <4>2 DEF StepsAreInOrder, Readers
      <4> QED  BY <4>1, <4>2 DEF Readers
    <3> QED  BY <1>1, <3>0, <3>1, <3>2, <3>4, <3>5 DEF StepsAreInOrder
  <2> QED  BY <2>1, <2>2 DEF StepsAreInOrder
<1> QED  BY <1>2, <1>3, <1>5, <1>6

LEMMA DrainKeeps ==
    ASSUME ActivityInv, NEW n \in TurnNos, NEW r \in Readers,
           Drain(n, r) \/ DrainFails(n, r) \/ (r = "loop" /\ LoopEnds(n))
    PROVE  ActivityInv'
<1> USE ActivityBounds
<1>0. /\ watcher[n] \in Watcher /\ watcher[n].reader[r] \in Reader
      /\ watcher[n].last \in Nat /\ steps \in Nat /\ steps <= MaxSteps
  BY DEF ActivityInv, ActivityTypeOK, Watcher
<1>1. CASE Drain(n, r)
  <2> DEFINE lines == [i \in 1 .. steps - watcher[n].last |-> watcher[n].last + i]
             reader == IF session /\ lines # <<>> THEN [at |-> "tells", rows |-> lines]
                       ELSE [at |-> Done(r), rows |-> <<>>]
  <2>1. Reads(n, r, reader)
    BY <1>1 DEF Drain, Reads
  <2>2. lines \in Seq(1 .. MaxSteps)
    <3>1. steps - watcher[n].last \in Int
      BY <1>0
    <3>2. \A i \in 1 .. steps - watcher[n].last : watcher[n].last + i \in 1 .. MaxSteps
      BY <1>0
    <3>3. CASE steps - watcher[n].last \in Nat
      <4>1. lines \in [1 .. steps - watcher[n].last -> 1 .. MaxSteps]
        BY <3>2
      <4> QED  BY <3>3, <4>1, SequenceOfLength, Zenon
    <3>4. CASE steps - watcher[n].last \notin Nat
      <4>1. 1 .. steps - watcher[n].last = {}
        BY <3>1, <3>4
      <4>2. lines = <<>>
        BY <4>1
      <4> QED  BY <4>2, EmptySeq, Zenon
    <3> QED  BY <3>3, <3>4
  <2>3. reader \in Reader /\ reader.at # "off"
    BY <2>2 DEF Reader, Done
  <2>4. reader.at = "tells" => reader.rows = lines /\ reader.rows # <<>>
    BY DEF Done
  <2>5. r = "end" => reader.at \in {"tells", "out"}
    BY DEF Done
  <2>6. r = "end" /\ reader.at = "out" /\ n \notin unsure' => watcher[n].last = steps
    <3> SUFFICES ASSUME reader.at = "out", n \notin unsure' PROVE watcher[n].last = steps
      OBVIOUS
    <3>1. ~session \/ lines = <<>>
      OBVIOUS
    <3>2. watcher[n].last <= steps
      BY <1>1 DEF Drain, ActivityInv, StepsAreInOrder
    <3>3. CASE ~session
      BY <1>0, <3>2, <3>3 DEF ActivityInv, TurnsFollow
    <3>4. CASE lines = <<>>
      <4>1. DOMAIN lines = 1 .. steps - watcher[n].last /\ DOMAIN lines = {}
        BY <3>4
      <4> HIDE DEF lines
      <4>2. 1 \notin 1 .. steps - watcher[n].last
        BY <4>1
      <4> QED  BY <1>0, <3>2, <4>2
    <3> QED  BY <3>1, <3>3, <3>4
  <2>7. /\ UNCHANGED <<steps, session, ongoing, stage, before, handed, unsure>>
        /\ watcher[n].reader[r].at = "idle" /\ unsure \subseteq TurnNos
    BY <1>1 DEF Drain, ActivityInv, ActivityTypeOK
  <2> HIDE DEF reader
  <2> QED  BY <2>1, <2>3, <2>4, <2>5, <2>6, <2>7, ReaderMoves
<1>2. CASE DrainFails(n, r) \/ (r = "loop" /\ LoopEnds(n))
  <2>1. PICK at \in {"idle", "out"} :
            /\ watcher' = [watcher EXCEPT ![n].reader[r].at = at]
            /\ r = "end" => at = "out" /\ n \in unsure'
    BY <1>2 DEF DrainFails, LoopEnds, Done
  <2> DEFINE reader == [watcher[n].reader[r] EXCEPT !.at = at]
  <2>2. Reads(n, r, reader)
    BY <2>1 DEF Reads
  <2>3. reader \in Reader /\ reader.at = at
    BY <1>0 DEF Reader
  <2>4. /\ UNCHANGED <<steps, session, ongoing, stage, before, handed>>
        /\ watcher[n].reader[r].at = "idle"
        /\ unsure \subseteq unsure' /\ unsure' \subseteq TurnNos
    BY <1>2 DEF DrainFails, LoopEnds, ActivityInv, ActivityTypeOK
  <2> HIDE DEF reader
  <2> QED  BY <2>1, <2>2, <2>3, <2>4, ReaderMoves
<1> QED  BY <1>1, <1>2

LEMMA TellKeeps ==
    ASSUME ActivityInv, NEW n \in TurnNos, NEW r \in Readers, Tell(n, r)
    PROVE  ActivityInv'
<1> USE ActivityBounds DEF ActivityInv
<1> DEFINE lines == watcher[n].reader[r].rows
           newest == watcher[n].last
           reached == IF Head(lines) > newest THEN Head(lines) ELSE newest
           reader == [at |-> IF Len(lines) = 1 THEN Done(r) ELSE "tells", rows |-> Tail(lines)]
<1>0. /\ watcher[n] \in Watcher /\ watcher[n].reader[r] \in Reader
      /\ watcher[n].reader[r].at = "tells"
      /\ lines \in Seq(1 .. MaxSteps) /\ lines # <<>>
      /\ newest \in 0 .. MaxSteps /\ steps \in 0 .. MaxSteps
      /\ handed[n] \in Seq(1 .. MaxSteps)
      /\ UNCHANGED <<steps, session, ongoing, stage, before, unsure>>
  BY DEF Tell, ActivityTypeOK, Watcher, Reader, RowsAreThere
<1>1. /\ Head(lines) \in 1 .. MaxSteps /\ Head(lines) = lines[1]
      /\ Tail(lines) \in Seq(1 .. MaxSteps) /\ Len(lines) \in Nat \ {0}
      /\ Len(Tail(lines)) = Len(lines) - 1
      /\ \A i \in 1 .. Len(Tail(lines)) : Tail(lines)[i] = lines[i + 1]
  <2> HIDE DEF lines
  <2> QED  BY <1>0, HeadAndTail
<1>2. reached \in 0 .. MaxSteps /\ reader \in Reader
  BY <1>0, <1>1 DEF Reader, Done
<1>3. /\ watcher' = [watcher EXCEPT ![n].last = reached, ![n].reader[r] = reader]
      /\ handed' = [handed EXCEPT ![n] = Append(@, Head(lines))]
  BY DEF Tell
<1>11. reached = IF Head(lines) > newest THEN Head(lines) ELSE newest
  OBVIOUS
<1>6. /\ reader.rows = Tail(lines)
      /\ reader.at = IF Len(lines) = 1 THEN Done(r) ELSE "tells"
  OBVIOUS
<1> HIDE DEF reached, reader
<1>4. /\ watcher' \in [TurnNos -> Watcher]
      /\ \A m \in TurnNos \ {n} : watcher'[m] = watcher[m] /\ handed'[m] = handed[m]
      /\ watcher'[n].last = reached
      /\ watcher'[n].reader[r] = reader
      /\ \A q \in Readers \ {r} : watcher'[n].reader[q] = watcher[n].reader[q]
  <2>1. [watcher[n] EXCEPT !.last = reached, !.reader[r] = reader] \in Watcher
    BY <1>0, <1>2 DEF Watcher
  <2>2. watcher' = [watcher EXCEPT ![n] = [@ EXCEPT !.last = reached, !.reader[r] = reader]]
    BY <1>3
  <2> QED  BY <1>0, <1>2, <1>3, <2>1, <2>2 DEF ActivityTypeOK, Watcher
<1>5. /\ handed' \in [TurnNos -> Seq(1 .. MaxSteps)]
      /\ handed'[n] = Append(handed[n], Head(lines))
      /\ Len(handed'[n]) = Len(handed[n]) + 1
      /\ \A i \in 1 .. Len(handed[n]) : handed'[n][i] = handed[n][i]
      /\ handed'[n][Len(handed[n]) + 1] = Head(lines)
  BY <1>0, <1>1, <1>3, AppendProperties DEF ActivityTypeOK
<1>7. ActivityTypeOK'
  BY <1>0, <1>4, <1>5 DEF ActivityTypeOK
<1>8. RowsAreThere'
  <2>1. reader.at = "tells" => reader.rows # <<>>
    <3>1. Len(lines) # 1 => Len(Tail(lines)) # 0
      <4> HIDE DEF lines
      <4> QED  BY <1>1
    <3>2. Tail(lines) = <<>> => Len(Tail(lines)) = 0
      BY EmptySeq, Zenon
    <3> QED  BY <1>6, <3>1, <3>2 DEF Done
  <2> QED  BY <1>4, <2>1 DEF RowsAreThere
<1>9. TurnsFollow'
  <2>1. ~(n > ongoing)
    BY <1>0, NoWatcherIs DEF TurnsFollow
  <2>2. r = "end" => n = ongoing /\ stage = "drains"
    BY <1>0 DEF TurnsFollow
  <2>3. \A m \in TurnNos : m > ongoing => watcher'[m] = NoWatcher /\ handed'[m] = <<>>
    BY <1>0, <1>4, <2>1 DEF TurnsFollow
  <2>4. CASE r = "end"
    <3>1. \A m \in TurnNos : watcher'[m].reader["end"].at \in {"idle", "tells"}
                             => m = ongoing /\ stage = "drains"
      BY <1>4, <2>2, <2>4 DEF TurnsFollow
    <3> QED  BY <1>0, <2>2, <2>3, <2>4, <3>1 DEF TurnsFollow
  <2>5. CASE r = "loop"
    <3>1. \A m \in TurnNos : watcher'[m].reader["end"] = watcher[m].reader["end"]
      BY <1>4, <2>5 DEF Readers
    <3>2. ongoing # 0 => ongoing \in TurnNos
      BY DEF ActivityTypeOK, TurnNos
    <3> QED  BY <1>0, <2>3, <3>1, <3>2 DEF TurnsFollow
  <2> QED  BY <2>4, <2>5 DEF Readers
<1>10. StepsAreInOrder'
  <2> DEFINE Sure(m) ==
        /\ \A i \in DOMAIN handed'[m] : handed'[m][i] = before[m] + i
        /\ before[m] + Len(handed'[m]) = watcher'[m].last
        /\ watcher'[m].last <= steps
        /\ watcher'[m].reader["end"].at # "off" => watcher'[m].reader["loop"].at = "out"
        /\ \A q \in Readers : watcher'[m].reader[q].at = "tells" =>
              LET list == watcher'[m].reader[q].rows IN
              /\ \A i \in DOMAIN list : list[i] = watcher'[m].last + i
              /\ watcher'[m].last + Len(list) <= steps
              /\ q = "end" => watcher'[m].last + Len(list) = steps
        /\ watcher'[m].reader["end"].at = "out" /\ m = ongoing => watcher'[m].last = steps
  <2>1. \A m \in TurnNos \ unsure : m # n => Sure(m)
    BY <1>4 DEF StepsAreInOrder
  <2>2. n \notin unsure => Sure(n)
    <3> SUFFICES ASSUME n \in TurnNos \ unsure PROVE Sure(n)
      OBVIOUS
    <3>1. /\ \A i \in DOMAIN handed[n] : handed[n][i] = before[n] + i
          /\ before[n] + Len(handed[n]) = newest /\ before[n] \in Nat
          /\ watcher[n].reader["end"].at # "off" => watcher[n].reader["loop"].at = "out"
          /\ \A i \in DOMAIN lines : lines[i] = newest + i
          /\ newest + Len(lines) <= steps
          /\ r = "end" => newest + Len(lines) = steps
      BY <1>0 DEF StepsAreInOrder, ActivityTypeOK
    <3>2. Head(lines) = newest + 1 /\ reached = newest + 1
      <4>1. 1 \in DOMAIN lines
        BY <1>0, <1>1
      <4>2. Head(lines) = newest + 1
        BY <1>1, <3>1, <4>1
      <4> HIDE DEF lines, newest
      <4> QED  BY <1>0, <1>11, <4>2
    <3>3. \A i \in DOMAIN handed'[n] : handed'[n][i] = before[n] + i
      <4>1. Len(handed[n]) \in Nat /\ DOMAIN handed[n] = 1 .. Len(handed[n])
            /\ DOMAIN handed'[n] = 1 .. Len(handed[n]) + 1
        BY <1>0, <1>5 DEF ActivityTypeOK
      <4>2. \A i \in 1 .. Len(handed[n]) : handed'[n][i] = before[n] + i
        BY <1>5, <3>1, <4>1
      <4>3. handed'[n][Len(handed[n]) + 1] = before[n] + (Len(handed[n]) + 1)
        <5>1. handed'[n][Len(handed[n]) + 1] = Head(lines)
          BY <1>5
        <5>2. Head(lines) = newest + 1 /\ newest = before[n] + Len(handed[n])
          BY <3>1, <3>2
        <5>3. before[n] \in Nat /\ Len(handed[n]) \in Nat
          BY <3>1, <4>1
        <5> HIDE DEF lines, newest
        <5> QED  BY <5>1, <5>2, <5>3
      <4>4. \A i \in DOMAIN handed'[n] : i \in 1 .. Len(handed[n]) \/ i = Len(handed[n]) + 1
        BY <4>1
      <4> QED  BY <4>2, <4>3, <4>4, Zenon
    <3>4. before[n] + Len(handed'[n]) = reached /\ reached <= steps
      <4>1. Len(handed[n]) \in Nat
        BY <1>0
      <4>2. Len(handed'[n]) = Len(handed[n]) + 1 /\ Len(lines) \in Nat \ {0}
        BY <1>1, <1>5
      <4>3. before[n] + Len(handed[n]) = newest /\ before[n] \in Nat /\ newest + Len(lines) <= steps
        BY <3>1
      <4> HIDE DEF lines, newest
      <4>4. reached = newest + 1 /\ newest \in Nat /\ steps \in Nat
        BY <1>0, <3>2
      <4> QED  BY <4>1, <4>2, <4>3, <4>4
    <3>5. reader.at = "tells" =>
              /\ \A i \in DOMAIN reader.rows : reader.rows[i] = reached + i
              /\ reached + Len(reader.rows) <= steps
              /\ r = "end" => reached + Len(reader.rows) = steps
      <4>1. DOMAIN lines = 1 .. Len(lines) /\ DOMAIN Tail(lines) = 1 .. Len(lines) - 1
        BY <1>0, <1>1
      <4>2. Len(lines) \in Nat \ {0} /\ Len(Tail(lines)) = Len(lines) - 1
        BY <1>1
      <4>3. \A i \in 1 .. Len(lines) : lines[i] = newest + i
        BY <3>1, <4>1
      <4>4. \A i \in 1 .. Len(lines) - 1 : Tail(lines)[i] = lines[i + 1]
        BY <1>1, <4>2
      <4>5. newest + Len(lines) <= steps /\ (r = "end" => newest + Len(lines) = steps)
        BY <3>1
      <4> HIDE DEF lines, newest
      <4>6. \A i \in 1 .. Len(lines) - 1 : i + 1 \in 1 .. Len(lines)
        BY <4>2
      <4>7. \A i \in 1 .. Len(lines) - 1 : Tail(lines)[i] = newest + (i + 1)
        BY <4>3, <4>4, <4>6
      <4>8. \A i \in 1 .. Len(lines) - 1 : newest + (i + 1) = reached + i
        BY <1>0, <3>2
      <4>9. reached + Len(Tail(lines)) = newest + Len(lines)
        BY <1>0, <3>2, <4>2
      <4> QED  BY <1>6, <4>1, <4>5, <4>7, <4>8, <4>9
    <3>6. \A q \in Readers : watcher'[n].reader[q].at = "tells" =>
              LET list == watcher'[n].reader[q].rows IN
              /\ \A i \in DOMAIN list : list[i] = watcher'[n].last + i
              /\ watcher'[n].last + Len(list) <= steps
              /\ q = "end" => watcher'[n].last + Len(list) = steps
      <4>1. \A q \in Readers \ {r} : watcher'[n].reader[q].at # "tells"
        <5>1. \A q \in Readers \ {r} : watcher[n].reader[q].at # "tells"
          BY <1>0, <3>1 DEF Readers
        <5> QED  BY <1>4, <5>1
      <4> QED  BY <1>4, <3>5, <4>1
    <3>7. watcher'[n].reader["end"].at # "off" => watcher'[n].reader["loop"].at = "out"
      <4>1. CASE r = "end"
        BY <1>0, <1>4, <3>1, <4>1 DEF Readers
      <4>2. CASE r = "loop"
        <5>1. watcher[n].reader["end"].at = "off"
          BY <1>0, <3>1, <4>2
        <5> QED  BY <1>4, <4>2, <5>1 DEF Readers
      <4> QED  BY <4>1, <4>2 DEF Readers
    <3>8. watcher'[n].reader["end"].at = "out" /\ n = ongoing => watcher'[n].last = steps
      <4>1. CASE r = "end"
        <5>1. reader.at = "out" => Len(lines) = 1
          BY <1>6, <4>1
        <5> QED  BY <1>0, <1>1, <1>4, <3>1, <3>2, <4>1, <5>1
      <4>2. CASE r = "loop"
        <5>1. watcher[n].reader["end"].at = "off"
          BY <1>0, <3>1, <4>2
        <5> QED  BY <1>4, <4>2, <5>1 DEF Readers
      <4> QED  BY <4>1, <4>2 DEF Readers
    <3> QED  BY <1>4, <3>3, <3>4, <3>6, <3>7, <3>8
  <2> HIDE DEF Sure
  <2>3. \A m \in TurnNos \ unsure : Sure(m)
    BY <2>1, <2>2
  <2> QED  BY <1>0, <2>3 DEF StepsAreInOrder, Sure
<1> QED  BY <1>7, <1>8, <1>9, <1>10

LEMMA BeginKeeps == ASSUME ActivityInv, BeginWatching PROVE ActivityInv'
<1> USE ActivityBounds
<1> DEFINE n == ongoing + 1
<1>0. /\ ongoing \in Nat /\ n \in TurnNos /\ ongoing' = n /\ stage' = "runs"
      /\ steps \in 0 .. MaxSteps
      /\ UNCHANGED <<steps, session, handed>>
  BY DEF BeginWatching, ActivityInv, ActivityTypeOK, TurnNos
<1>1. PICK seen \in {Baseline(n), NoWatcher} :
          /\ watcher' = [watcher EXCEPT ![n] = [seen EXCEPT !.reader["loop"].at = "idle"]]
          /\ unsure' = IF seen # Baseline(n) THEN unsure \cup {n} ELSE unsure
  BY <1>0 DEF BeginWatching
<1>2. /\ seen \in Watcher /\ \A r \in Readers : seen.reader[r] = NoReader
      /\ seen = Baseline(n) => seen.last = steps
  BY <1>0, NoWatcherIs DEF Baseline, Watcher
<1>3. PICK made : made = [seen EXCEPT !.reader["loop"].at = "idle"]
  OBVIOUS
<1>4. /\ made \in Watcher /\ made.last = seen.last
      /\ made.reader["end"] = NoReader /\ made.reader["loop"].at = "idle"
  BY <1>2, <1>3, NoWatcherIs DEF Watcher, Readers, Reader
<1>5. /\ watcher' \in [TurnNos -> Watcher] /\ watcher'[n] = made
      /\ \A m \in TurnNos \ {n} : watcher'[m] = watcher[m]
  BY <1>0, <1>1, <1>3, <1>4 DEF ActivityInv, ActivityTypeOK
<1>6. /\ before' \in [TurnNos -> 0 .. MaxSteps] /\ before'[n] = steps
      /\ \A m \in TurnNos \ {n} : before'[m] = before[m]
  BY <1>0 DEF BeginWatching, ActivityInv, ActivityTypeOK
<1>7. handed[n] = <<>> /\ Len(handed[n]) = 0 /\ DOMAIN handed[n] = {}
  <2>1. handed[n] = <<>>
    BY <1>0 DEF ActivityInv, TurnsFollow
  <2> QED  BY <2>1
<1> HIDE DEF n
<1>8. ActivityTypeOK'
  <2>1. unsure' \subseteq TurnNos
    BY <1>0, <1>1 DEF ActivityInv, ActivityTypeOK
  <2> QED  BY <1>0, <1>5, <1>6, <2>1 DEF ActivityInv, ActivityTypeOK, TurnNos
<1>9. TurnsFollow'
  <2>1. \A m \in TurnNos : m > n => watcher'[m] = NoWatcher /\ handed'[m] = <<>>
    BY <1>0, <1>5 DEF ActivityInv, TurnsFollow, TurnNos, n
  <2>2. \A m \in TurnNos : watcher'[m].reader["end"].at \notin {"idle", "tells"}
    <3>1. \A m \in TurnNos \ {n} : watcher[m].reader["end"].at \notin {"idle", "tells"}
      BY DEF BeginWatching, ActivityInv, TurnsFollow
    <3> QED  BY <1>4, <1>5, <3>1, NoWatcherIs
  <2>3. ~session' => steps' = 0
    BY <1>0 DEF ActivityInv, TurnsFollow
  <2>4. n # 0 /\ watcher'[n].reader["end"].at = "off"
    BY <1>0, <1>4, <1>5, NoWatcherIs DEF TurnNos
  <2> QED  BY <1>0, <2>1, <2>2, <2>3, <2>4 DEF TurnsFollow
<1>10. RowsAreThere'
  BY <1>4, <1>5, NoWatcherIs DEF ActivityInv, RowsAreThere, Readers
<1>11. StepsAreInOrder'
  <2> DEFINE Sure(m) ==
        /\ \A i \in DOMAIN handed[m] : handed[m][i] = before'[m] + i
        /\ before'[m] + Len(handed[m]) = watcher'[m].last
        /\ watcher'[m].last <= steps
        /\ watcher'[m].reader["end"].at # "off" => watcher'[m].reader["loop"].at = "out"
        /\ \A q \in Readers : watcher'[m].reader[q].at = "tells" =>
              LET lines == watcher'[m].reader[q].rows IN
              /\ \A i \in DOMAIN lines : lines[i] = watcher'[m].last + i
              /\ watcher'[m].last + Len(lines) <= steps
              /\ q = "end" => watcher'[m].last + Len(lines) = steps
        /\ watcher'[m].reader["end"].at = "out" /\ m = n => watcher'[m].last = steps
  <2>1. \A m \in TurnNos \ unsure' : m # n => Sure(m)
    BY <1>1, <1>5, <1>6 DEF ActivityInv, StepsAreInOrder
  <2>2. n \notin unsure' => Sure(n)
    <3> SUFFICES ASSUME n \notin unsure' PROVE Sure(n)
      OBVIOUS
    <3>1. made.last = steps
      BY <1>1, <1>2, <1>4
    <3>2. \A q \in Readers : made.reader[q].at # "tells"
      BY <1>4, NoWatcherIs DEF Readers
    <3>3. before'[n] + 0 = steps /\ steps <= steps
      BY <1>0, <1>6
    <3>4. made.reader["end"].at = "off"
      BY <1>4, NoWatcherIs
    <3> QED  BY <1>5, <1>7, <3>1, <3>2, <3>3, <3>4
  <2> HIDE DEF Sure
  <2>3. \A m \in TurnNos \ unsure' : Sure(m)
    BY <2>1, <2>2
  <2> QED  BY <1>0, <2>3 DEF StepsAreInOrder, Sure
<1> QED  BY <1>8, <1>9, <1>10, <1>11 DEF ActivityInv

LEMMA WritesKeep == ASSUME ActivityInv, HermesWrites PROVE ActivityInv'
<1> USE ActivityBounds DEF ActivityInv, HermesWrites
<1>0. /\ UNCHANGED <<ongoing, stage, watcher, before, handed, unsure>> /\ stage = "runs"
      /\ session' = TRUE /\ steps' \in {steps, steps + 1} /\ steps' \in 0 .. MaxSteps
      /\ steps \in 0 .. MaxSteps
  BY DEF ActivityTypeOK
<1>1. ActivityTypeOK'
  <2>1. session' \in BOOLEAN
    BY <1>0, Zenon
  <2> QED  BY <1>0, <2>1 DEF ActivityTypeOK
<1>2. TurnsFollow'
  BY <1>0 DEF TurnsFollow
<1>3. RowsAreThere'
  BY <1>0 DEF RowsAreThere
<1>4. \A n \in TurnNos : /\ watcher[n].reader["end"].at # "tells"
                         /\ n = ongoing => watcher[n].reader["end"].at # "out"
  BY <1>0 DEF TurnsFollow, TurnNos
<1>5. StepsAreInOrder'
  <2> SUFFICES ASSUME NEW n \in TurnNos \ unsure
               PROVE
        /\ \A i \in DOMAIN handed[n] : handed[n][i] = before[n] + i
        /\ before[n] + Len(handed[n]) = watcher[n].last
        /\ watcher[n].last <= steps'
        /\ watcher[n].reader["end"].at # "off" => watcher[n].reader["loop"].at = "out"
        /\ \A q \in Readers : watcher[n].reader[q].at = "tells" =>
              LET lines == watcher[n].reader[q].rows IN
              /\ \A i \in DOMAIN lines : lines[i] = watcher[n].last + i
              /\ watcher[n].last + Len(lines) <= steps'
              /\ q = "end" => watcher[n].last + Len(lines) = steps'
        /\ watcher[n].reader["end"].at = "out" /\ n = ongoing => watcher[n].last = steps'
    BY <1>0 DEF StepsAreInOrder
  <2>1. watcher[n].last \in 0 .. MaxSteps
    BY DEF ActivityTypeOK, Watcher
  <2>2. \A q \in Readers : watcher[n].reader[q].at = "tells" =>
              /\ q # "end"
              /\ watcher[n].last + Len(watcher[n].reader[q].rows) <= steps'
    <3> SUFFICES ASSUME NEW q \in Readers, watcher[n].reader[q].at = "tells"
                 PROVE  q # "end" /\ watcher[n].last + Len(watcher[n].reader[q].rows) <= steps'
      OBVIOUS
    <3>1. watcher[n].last + Len(watcher[n].reader[q].rows) <= steps
      BY DEF StepsAreInOrder
    <3>2. watcher[n].reader[q].rows \in Seq(1 .. MaxSteps)
      BY DEF ActivityTypeOK, Watcher, Reader
    <3>3. Len(watcher[n].reader[q].rows) \in Nat
      BY <3>2, LenProperties
    <3> QED  BY <1>0, <1>4, <2>1, <3>1, <3>3
  <2> QED  BY <1>0, <1>4, <2>1, <2>2 DEF StepsAreInOrder
<1> QED  BY <1>1, <1>2, <1>3, <1>5

LEMMA EndsKeep ==
    ASSUME ActivityInv, StopWatching \/ JoinThread \/ TurnIsOver PROVE ActivityInv'
<1> USE ActivityBounds DEF ActivityInv
<1>0. ongoing \in TurnNos /\ ongoing # 0
  BY DEF StopWatching, JoinThread, TurnIsOver, ActivityTypeOK, TurnNos, TurnsFollow
<1>1. CASE StopWatching
  <2> USE <1>1 DEF StopWatching
  <2>1. /\ watcher' \in [TurnNos -> Watcher]
        /\ \A m \in TurnNos : /\ watcher'[m].last = watcher[m].last
                              /\ watcher'[m].reader = watcher[m].reader
        /\ \A m \in TurnNos \ {ongoing} : watcher'[m] = watcher[m]
    <3>1. [watcher[ongoing] EXCEPT !.stop = TRUE] \in Watcher
      BY <1>0 DEF ActivityTypeOK, Watcher
    <3> QED  BY <1>0, <3>1 DEF ActivityTypeOK
  <2>2. ActivityTypeOK'
    BY <2>1 DEF ActivityTypeOK
  <2>3. TurnsFollow'
    BY <1>0, <2>1 DEF TurnsFollow, ActivityTypeOK, TurnNos
  <2>4. RowsAreThere' /\ StepsAreInOrder'
    BY <2>1 DEF RowsAreThere, StepsAreInOrder
  <2> QED  BY <2>2, <2>3, <2>4
<1>2. CASE JoinThread
  <2> USE <1>2 DEF JoinThread
  <2> DEFINE n == ongoing
             reader == [watcher[n].reader["end"] EXCEPT !.at = "idle"]
  <2>0. n \in TurnNos /\ watcher[n].reader["end"] \in Reader /\ "end" \in Readers
    BY <1>0 DEF ActivityTypeOK, Watcher, Readers
  <2>1. reader \in Reader /\ reader.at = "idle"
    BY <2>0 DEF Reader
  <2>2. Reads(n, "end", reader)
    BY DEF Reads
  <2> HIDE DEF reader
  <2>3. /\ watcher' \in [TurnNos -> Watcher]
        /\ \A m \in TurnNos \ {n} : watcher'[m] = watcher[m]
        /\ watcher'[n].last = watcher[n].last
        /\ watcher'[n].reader["end"] = reader
        /\ watcher'[n].reader["loop"] = watcher[n].reader["loop"]
    BY <2>0, <2>1, <2>2, ReaderAlone DEF ActivityTypeOK, Readers
  <2>4. /\ unsure' \subseteq TurnNos /\ unsure \subseteq unsure'
        /\ n \notin unsure' => watcher[n].reader["loop"].at = "out"
    BY <2>0 DEF ActivityTypeOK
  <2>5. ActivityTypeOK'
    BY <2>3, <2>4 DEF ActivityTypeOK
  <2>6. TurnsFollow'
    BY <1>0, <2>1, <2>3 DEF TurnsFollow, ActivityTypeOK, TurnNos
  <2>7. RowsAreThere'
    BY <2>1, <2>3 DEF RowsAreThere, Readers
  <2>8. StepsAreInOrder'
    BY <2>1, <2>3, <2>4 DEF StepsAreInOrder, Readers
  <2> QED  BY <2>5, <2>6, <2>7, <2>8
<1>3. CASE TurnIsOver
  BY <1>0, <1>3 DEF TurnIsOver, ActivityTypeOK, TurnsFollow, RowsAreThere, StepsAreInOrder
<1> QED  BY <1>1, <1>2, <1>3

LEMMA ActivitySteps == ActivityInv /\ [ActivityNext]_activityVars => ActivityInv'
<1>1. ASSUME ActivityInv, UNCHANGED activityVars PROVE ActivityInv'
  BY <1>1 DEF activityVars, ActivityInv, ActivityTypeOK, TurnsFollow, RowsAreThere,
              StepsAreInOrder
<1>2. "loop" \in Readers
  BY DEF Readers
<1> QED
  BY <1>1, <1>2, BeginKeeps, WritesKeep, EndsKeep, DrainKeeps, TellKeeps DEF ActivityNext

\* The steps of a turn are handed on each once and in order, for any turns, steps and
\* readers (src/agent/hermes_activity.py).
THEOREM ActivityInvariance == ActivitySpec => []ActivityInv
BY ActivityStarts, ActivitySteps, PTL DEF ActivitySpec

---------------------------------------------------------------------------
(* The accounts *)

\* A consent of any number.
Held == [number: Nat, agent: BOOLEAN]

GoogleShape ==
    /\ credentials \in [Mailboxes -> Held] /\ listed \in Seq(Mailboxes)
    /\ google \in [Mailboxes -> [last: Held, dead: Nat]]
    /\ \A a \in Mailboxes : google[a].dead <= google[a].last.number
    /\ refresh \in [Callers -> [at: {"idle", "asked", "renewed", "refused"},
                                mailbox: Mailboxes \cup {NoMailbox}, held: Held,
                                late: BOOLEAN]]
    /\ \A c \in Callers : refresh[c].at # "idle" => refresh[c].mailbox \in Mailboxes
    /\ toolCall \in ToolCall
    /\ toolCall.at # "none" => toolCall.mailbox \in Mailboxes
    /\ wanted \subseteq Mailboxes /\ overtaken \subseteq Mailboxes

\* A row that is kept, and a token that is being renewed, is from a consent; one that is
\* refused is from a consent that is dead.
TokensAreGiven ==
    /\ \A a \in Connected : credentials[a].number > 0
    /\ \A c \in Callers : refresh[c].at # "idle" => refresh[c].held.number > 0
    /\ \A c \in Callers : refresh[c].at = "refused"
                          => google[refresh[c].mailbox].dead >= refresh[c].held.number

\* A refresh from after the person's last word has the last consent.
RefreshIsCurrent ==
    \A c \in Callers :
        refresh[c].at # "idle" /\ ~refresh[c].late /\ refresh[c].mailbox \notin overtaken
        => refresh[c].mailbox \in wanted /\ refresh[c].held = google[refresh[c].mailbox].last

\* A call is for a mailbox that was connected, and still is or went meanwhile.
CallIsConnected ==
    toolCall.at # "none" =>
        toolCall.mailbox \in Connected \/ toolCall.late \/ google[toolCall.mailbox].dead > 0

GoogleInv ==
    GoogleShape /\ TokensAreGiven /\ RefreshIsCurrent /\ CallIsConnected /\ RowFollowsPerson

LEMMA AccountsAreHeld == GoogleInv => AccountsHold
BY DEF GoogleInv, CallIsConnected, AccountsHold, ToolStaysConnected

LEMMA RowsOf ==
    ASSUME listed \in Seq(Mailboxes)
    PROVE  Connected \subseteq Mailboxes /\ (listed # <<>> => listed[1] \in Connected)
<1>1. Len(listed) \in Nat /\ DOMAIN listed = 1 .. Len(listed)
      /\ \A i \in DOMAIN listed : listed[i] \in Mailboxes
  OBVIOUS
<1>2. listed # <<>> => 1 \in DOMAIN listed
  BY <1>1, EmptySeq
<1> QED  BY <1>1, <1>2 DEF Connected

LEMMA RowIsSet ==
    ASSUME GoogleShape, NEW a \in Mailboxes, NEW consent \in Held,
           SetSourceCredentials(a, consent)
    PROVE  /\ listed' \in Seq(Mailboxes) /\ Connected' = Connected \cup {a}
           /\ credentials' \in [Mailboxes -> Held] /\ credentials'[a] = consent
           /\ \A b \in Mailboxes \ {a} : credentials'[b] = credentials[b]
<1> USE DEF GoogleShape, SetSourceCredentials
<1>1. /\ credentials' \in [Mailboxes -> Held] /\ credentials'[a] = consent
      /\ \A b \in Mailboxes \ {a} : credentials'[b] = credentials[b]
  OBVIOUS
<1>2. CASE a \in Connected
  BY <1>1, <1>2 DEF Connected
<1>3. CASE a \notin Connected
  <2>1. listed' = Append(listed, a) /\ listed \in Seq(Mailboxes)
    BY <1>3
  <2>2. /\ listed' \in Seq(Mailboxes) /\ Len(listed') = Len(listed) + 1
        /\ \A i \in 1 .. Len(listed) : listed'[i] = listed[i]
        /\ listed'[Len(listed) + 1] = a /\ Len(listed) \in Nat
        /\ DOMAIN listed = 1 .. Len(listed)
    BY <2>1, AppendProperties, LenProperties
  <2>3. DOMAIN listed' = 1 .. Len(listed) + 1
    BY <2>2, LenProperties
  <2>4. Connected' \subseteq Connected \cup {a}
    BY <2>2, <2>3 DEF Connected
  <2>5. Connected \cup {a} \subseteq Connected'
    <3>1. \A i \in 1 .. Len(listed) : i \in DOMAIN listed' /\ listed'[i] = listed[i]
      BY <2>2, <2>3
    <3>2. Len(listed) + 1 \in DOMAIN listed'
      BY <2>2, <2>3
    <3> QED  BY <2>2, <3>1, <3>2 DEF Connected
  <2> QED  BY <1>1, <2>2, <2>4, <2>5
<1> QED  BY <1>2, <1>3

LEMMA RowsAreCleared ==
    ASSUME GoogleShape, NEW as \in SUBSET Mailboxes, ClearSourceConnection(as)
    PROVE  /\ listed' \in Seq(Mailboxes) /\ Connected' = Connected \ as
           /\ credentials' \in [Mailboxes -> Held]
           /\ \A b \in Mailboxes \ as : credentials'[b] = credentials[b]
<1>1. NoConsent \in Held
  BY DEF NoConsent, Held
<1>2. /\ credentials' \in [Mailboxes -> Held]
      /\ \A b \in Mailboxes \ as : credentials'[b] = credentials[b]
  BY <1>1 DEF GoogleShape, ClearSourceConnection
<1> DEFINE stays == {i \in DOMAIN listed : listed[i] \notin as}
           places == CHOOSE f \in [1 .. Cardinality(stays) -> stays] :
                       /\ {f[k] : k \in DOMAIN f} = stays
                       /\ \A j, k \in DOMAIN f : j < k => f[j] < f[k]
<1>3. Len(listed) \in Nat /\ DOMAIN listed = 1 .. Len(listed)
      /\ \A i \in DOMAIN listed : listed[i] \in Mailboxes
  BY DEF GoogleShape
<1>4. listed' = [k \in DOMAIN places |-> listed[places[k]]]
  BY DEF Without, ClearSourceConnection
<1>5. stays \in SUBSET (1 .. Len(listed)) /\ \A i \in stays : listed[i] \in Mailboxes \ as
  BY <1>3
<1>6. Connected \ as = {listed[i] : i \in stays}
  <2>1. ASSUME NEW a \in Connected \ as PROVE \E i \in stays : a = listed[i]
    <3>1. PICK i \in DOMAIN listed : a = listed[i]
      BY DEF Connected
    <3>2. i \in stays
      BY <3>1
    <3> QED  BY <3>1, <3>2
  <2>2. ASSUME NEW i \in stays PROVE listed[i] \in Connected \ as
    BY DEF Connected
  <2> HIDE DEF stays
  <2> QED  BY <2>1, <2>2, Zenon
<1> HIDE DEF stays
<1>7. \E f : Enumerates(f, stays)
  BY <1>3, <1>5, PlacesAreEnumerated
<1>8. /\ places \in [1 .. Cardinality(stays) -> stays] /\ {places[k] : k \in DOMAIN places} = stays
  BY <1>7 DEF Enumerates
<1>9. Cardinality(stays) \in Nat
  <2>1. IsFiniteSet(1 .. Len(listed))
    BY <1>3, FS_Interval
  <2> QED  BY <1>5, <2>1, FS_Subset, FS_CardinalityType
<1> HIDE DEF places
<1>10. listed' \in [1 .. Cardinality(stays) -> Mailboxes]
  BY <1>4, <1>5, <1>8
<1>11. listed' \in Seq(Mailboxes)
  BY <1>9, <1>10, SequenceOfLength, Zenon
<1>12. Connected' = {listed[i] : i \in stays}
  <2>1. DOMAIN listed' = DOMAIN places /\ \A k \in DOMAIN places : listed'[k] = listed[places[k]]
    BY <1>4
  <2>2. Connected' = {listed'[k] : k \in DOMAIN places}
    BY <2>1 DEF Connected
  <2>3. ASSUME NEW k \in DOMAIN places PROVE \E i \in stays : listed'[k] = listed[i]
    BY <1>8, <2>1
  <2>4. ASSUME NEW i \in stays PROVE \E k \in DOMAIN places : listed'[k] = listed[i]
    <3>1. PICK k \in DOMAIN places : places[k] = i
      BY <1>8
    <3> QED  BY <2>1, <3>1
  <2>5. ASSUME NEW a PROVE a \in Connected' <=> a \in {listed[i] : i \in stays}
    <3>1. a \in Connected' <=> \E k \in DOMAIN places : a = listed'[k]
      BY <2>2
    <3> QED  BY <2>3, <2>4, <3>1, Zenon
  <2> QED  BY <2>5
<1> QED  BY <1>2, <1>6, <1>11, <1>12

LEMMA RestingIs ==
    /\ Resting.at = "idle" /\ Resting.held \in Held /\ Resting.mailbox = NoMailbox
    /\ Resting.late = FALSE /\ NoConsent \in Held
    /\ Resting \in [at: {"idle", "asked", "renewed", "refused"},
                    mailbox: Mailboxes \cup {NoMailbox}, held: Held, late: BOOLEAN]
    /\ NoToolCall \in ToolCall /\ NoToolCall.at = "none"
BY DEF Resting, NoConsent, Held, NoToolCall, ToolCall

LEMMA GoogleStarts == GoogleInit => GoogleInv
<1> SUFFICES ASSUME GoogleInit PROVE GoogleInv
  OBVIOUS
<1> USE RestingIs DEF GoogleInit
<1>1. Connected = {}
  BY DEF Connected
<1>2. GoogleShape
  <2>1. [last |-> NoConsent, dead |-> 0] \in [last: Held, dead: Nat] /\ NoConsent.number = 0
    BY DEF NoConsent
  <2> QED  BY <2>1 DEF GoogleShape
<1> QED
  BY <1>1, <1>2 DEF GoogleInv, TokensAreGiven, RefreshIsCurrent, CallIsConnected, RowFollowsPerson

\* What is under way for these mailboxes becomes late, and nothing else changes of it.
LEMMA LateStays ==
    ASSUME GoogleShape, NEW as \in SUBSET Mailboxes, IsOvertaken(as)
    PROVE  /\ refresh' \in [Callers -> [at: {"idle", "asked", "renewed", "refused"},
                                        mailbox: Mailboxes \cup {NoMailbox}, held: Held,
                                        late: BOOLEAN]]
           /\ \A c \in Callers :
                 /\ refresh'[c].at = refresh[c].at /\ refresh'[c].held = refresh[c].held
                 /\ refresh'[c].mailbox = refresh[c].mailbox
                 /\ refresh'[c].mailbox \in as => refresh'[c].late
                 /\ refresh'[c].mailbox \notin as => refresh'[c] = refresh[c]
           /\ toolCall' \in ToolCall /\ toolCall'.at = toolCall.at
           /\ toolCall'.mailbox = toolCall.mailbox
           /\ toolCall'.mailbox \in as => toolCall'.late
           /\ toolCall'.mailbox \notin as => toolCall' = toolCall
           /\ overtaken' = overtaken \ as /\ overtaken' \subseteq Mailboxes
<1> USE DEF GoogleShape, IsOvertaken
<1>1. ASSUME NEW c \in Callers
      PROVE  /\ refresh'[c] \in [at: {"idle", "asked", "renewed", "refused"},
                                 mailbox: Mailboxes \cup {NoMailbox}, held: Held, late: BOOLEAN]
             /\ refresh'[c].at = refresh[c].at /\ refresh'[c].held = refresh[c].held
             /\ refresh'[c].mailbox = refresh[c].mailbox
             /\ refresh'[c].mailbox \in as => refresh'[c].late
             /\ refresh'[c].mailbox \notin as => refresh'[c] = refresh[c]
  OBVIOUS
<1>2. refresh' \in [Callers -> [at: {"idle", "asked", "renewed", "refused"},
                                mailbox: Mailboxes \cup {NoMailbox}, held: Held,
                                late: BOOLEAN]]
  <2>1. refresh' = [c \in Callers |-> refresh'[c]]
    OBVIOUS
  <2> QED  BY <1>1, <2>1
<1>3. /\ toolCall' \in ToolCall /\ toolCall'.at = toolCall.at
      /\ toolCall'.mailbox = toolCall.mailbox
      /\ toolCall'.mailbox \in as => toolCall'.late
      /\ toolCall'.mailbox \notin as => toolCall' = toolCall
  BY DEF ToolCall
<1> QED  BY <1>1, <1>2, <1>3

LEMMA CallbackKeeps ==
    ASSUME GoogleInv, NEW a \in Mailboxes, NEW agent \in BOOLEAN, GmailCallback(a, agent)
    PROVE  GoogleInv'
<1> USE DEF GoogleInv
<1>1. PICK consent : /\ consent = [number |-> google[a].last.number + 1,
                                   agent |-> consent.agent]
                     /\ consent.agent \in BOOLEAN
                     /\ google' = [google EXCEPT ![a].last = consent]
                     /\ SetSourceCredentials(a, consent)
  <2> DEFINE given == google[a]
             more == agent \/ (given.last.agent /\ given.last.number > given.dead)
  <2>1. more \in BOOLEAN
    BY Zenon
  <2>2. /\ google' = [google EXCEPT ![a].last = [number |-> given.last.number + 1, agent |-> more]]
        /\ SetSourceCredentials(a, [number |-> given.last.number + 1, agent |-> more])
    BY Zenon DEF GmailCallback
  <2> HIDE DEF more
  <2> QED  BY <2>1, <2>2
<1>2. google[a].last.number \in Nat /\ google[a].dead \in Nat /\ google[a].last \in Held
  BY DEF GoogleShape, Held
<1>3. consent \in Held /\ consent.number = google[a].last.number + 1
  BY <1>1, <1>2 DEF Held
<1>4. /\ listed' \in Seq(Mailboxes) /\ Connected' = Connected \cup {a}
      /\ credentials' \in [Mailboxes -> Held] /\ credentials'[a] = consent
      /\ \A b \in Mailboxes \ {a} : credentials'[b] = credentials[b]
  BY <1>1, <1>3, RowIsSet
<1>5. /\ google' \in [Mailboxes -> [last: Held, dead: Nat]]
      /\ google'[a].last = consent
      /\ \A b \in Mailboxes \ {a} : google'[b] = google[b]
      /\ \A b \in Mailboxes : google'[b].dead = google[b].dead
  BY <1>1, <1>3 DEF GoogleShape
<1>6. /\ wanted' = wanted \cup {a} /\ IsOvertaken({a})
  BY DEF GmailCallback
<1>7. /\ refresh' \in [Callers -> [at: {"idle", "asked", "renewed", "refused"},
                                   mailbox: Mailboxes \cup {NoMailbox}, held: Held,
                                   late: BOOLEAN]]
      /\ \A c \in Callers :
            /\ refresh'[c].at = refresh[c].at /\ refresh'[c].held = refresh[c].held
            /\ refresh'[c].mailbox = refresh[c].mailbox
            /\ refresh'[c].mailbox = a => refresh'[c].late
            /\ refresh'[c].mailbox # a => refresh'[c] = refresh[c]
      /\ toolCall' \in ToolCall /\ toolCall'.at = toolCall.at
      /\ toolCall'.mailbox = toolCall.mailbox
      /\ toolCall'.mailbox = a => toolCall'.late
      /\ toolCall'.mailbox # a => toolCall' = toolCall
      /\ overtaken' = overtaken \ {a} /\ overtaken' \subseteq Mailboxes
  <2>1. {a} \in SUBSET Mailboxes
    OBVIOUS
  <2> QED  BY <1>6, <2>1, LateStays
<1>8. GoogleShape'
  <2>1. \A b \in Mailboxes : google'[b].dead <= google'[b].last.number
    <3>1. google'[a].dead <= google'[a].last.number
      <4>1. google[a].dead <= google[a].last.number
        BY DEF GoogleShape
      <4>2. google'[a].dead = google[a].dead /\ google'[a].last.number = google[a].last.number + 1
        BY <1>3, <1>5
      <4> QED  BY <1>2, <4>1, <4>2
    <3>2. \A b \in Mailboxes \ {a} : google'[b].dead <= google'[b].last.number
      BY <1>5 DEF GoogleShape
    <3> QED  BY <3>1, <3>2
  <2> QED  BY <1>4, <1>5, <1>6, <1>7, <2>1 DEF GoogleShape
<1>9. TokensAreGiven'
  <2>1. \A b \in Connected' : credentials'[b].number > 0
    <3>1. Connected \subseteq Mailboxes
      BY RowsOf DEF GoogleShape
    <3> QED  BY <1>2, <1>3, <1>4, <3>1 DEF TokensAreGiven
  <2>2. \A c \in Callers : refresh'[c].at # "idle" => refresh'[c].held.number > 0
    BY <1>7 DEF TokensAreGiven
  <2>3. \A c \in Callers : refresh'[c].at = "refused"
            => google'[refresh'[c].mailbox].dead >= refresh'[c].held.number
    BY <1>5, <1>7 DEF TokensAreGiven, GoogleShape
  <2> QED  BY <2>1, <2>2, <2>3 DEF TokensAreGiven
<1>10. RefreshIsCurrent'
  BY <1>5, <1>6, <1>7 DEF RefreshIsCurrent, GoogleShape
<1>11. CallIsConnected'
  BY <1>4, <1>5, <1>7 DEF CallIsConnected, GoogleShape
<1>12. RowFollowsPerson'
  BY <1>4, <1>5, <1>6, <1>7 DEF RowFollowsPerson
<1> QED  BY <1>8, <1>9, <1>10, <1>11, <1>12

LEMMA DisconnectKeeps ==
    ASSUME GoogleInv, NEW as \in SUBSET Mailboxes, DisconnectGmail(as) PROVE GoogleInv'
<1> USE DEF GoogleInv
<1>1. /\ wanted' = wanted \ as /\ IsOvertaken(as) /\ UNCHANGED google
      /\ ClearSourceConnection(as)
  BY DEF DisconnectGmail
<1>2. /\ listed' \in Seq(Mailboxes) /\ Connected' = Connected \ as
      /\ credentials' \in [Mailboxes -> Held]
      /\ \A b \in Mailboxes \ as : credentials'[b] = credentials[b]
  BY <1>1, RowsAreCleared
<1>3. /\ refresh' \in [Callers -> [at: {"idle", "asked", "renewed", "refused"},
                                   mailbox: Mailboxes \cup {NoMailbox}, held: Held,
                                   late: BOOLEAN]]
      /\ \A c \in Callers :
            /\ refresh'[c].at = refresh[c].at /\ refresh'[c].held = refresh[c].held
            /\ refresh'[c].mailbox = refresh[c].mailbox
            /\ refresh'[c].mailbox \in as => refresh'[c].late
            /\ refresh'[c].mailbox \notin as => refresh'[c] = refresh[c]
      /\ toolCall' \in ToolCall /\ toolCall'.at = toolCall.at
      /\ toolCall'.mailbox = toolCall.mailbox
      /\ toolCall'.mailbox \in as => toolCall'.late
      /\ toolCall'.mailbox \notin as => toolCall' = toolCall
      /\ overtaken' = overtaken \ as /\ overtaken' \subseteq Mailboxes
  BY <1>1, LateStays
<1>4. Connected \subseteq Mailboxes
  BY RowsOf DEF GoogleShape
<1>5. GoogleShape'
  BY <1>1, <1>2, <1>3 DEF GoogleShape
<1>6. TokensAreGiven'
  BY <1>1, <1>2, <1>3, <1>4 DEF TokensAreGiven
<1>7. RefreshIsCurrent'
  BY <1>1, <1>3 DEF RefreshIsCurrent
<1>8. CallIsConnected'
  BY <1>1, <1>2, <1>3 DEF CallIsConnected
<1>9. RowFollowsPerson'
  BY <1>1, <1>2, <1>3 DEF RowFollowsPerson
<1> QED  BY <1>5, <1>6, <1>7, <1>8, <1>9

LEMMA RevokeKeeps ==
    ASSUME GoogleInv, NEW a \in Mailboxes, GoogleRevokes(a) PROVE GoogleInv'
<1> USE DEF GoogleInv
<1>1. /\ google[a].dead < google[a].last.number
      /\ google' = [google EXCEPT ![a].dead = google[a].last.number]
      /\ UNCHANGED <<credentials, listed, refresh, toolCall, wanted, overtaken>>
  BY DEF GoogleRevokes, runVars
<1>2. UNCHANGED Connected
  BY <1>1 DEF Connected
<1>3. google[a].last.number \in Nat /\ google[a].dead \in Nat
  BY DEF GoogleShape, Held
<1>4. /\ google' \in [Mailboxes -> [last: Held, dead: Nat]]
      /\ \A b \in Mailboxes : google'[b].last = google[b].last
      /\ \A b \in Mailboxes : google'[b].dead = IF b = a THEN google[a].last.number ELSE google[b].dead
  BY <1>1, <1>3 DEF GoogleShape
<1>5. GoogleShape'
  BY <1>1, <1>3, <1>4 DEF GoogleShape
<1>6. TokensAreGiven'
  <2>1. \A c \in Callers : refresh[c].at = "refused"
            => google'[refresh[c].mailbox].dead >= refresh[c].held.number
    <3> SUFFICES ASSUME NEW c \in Callers, refresh[c].at = "refused"
                 PROVE  google'[refresh[c].mailbox].dead >= refresh[c].held.number
      OBVIOUS
    <3>1. /\ refresh[c].mailbox \in Mailboxes /\ refresh[c].held.number \in Nat
          /\ google[refresh[c].mailbox].dead >= refresh[c].held.number
          /\ google[refresh[c].mailbox].dead \in Nat
      BY DEF GoogleShape, TokensAreGiven, Held
    <3> QED  BY <1>1, <1>3, <1>4, <3>1
  <2> QED  BY <1>1, <1>2, <2>1 DEF TokensAreGiven
<1>7. RefreshIsCurrent'
  BY <1>1, <1>4 DEF RefreshIsCurrent, GoogleShape
<1>8. CallIsConnected'
  BY <1>1, <1>2, <1>3, <1>4 DEF CallIsConnected, GoogleShape
<1>9. RowFollowsPerson'
  BY <1>1, <1>2, <1>3, <1>4 DEF RowFollowsPerson
<1> QED  BY <1>5, <1>6, <1>7, <1>8, <1>9

\* A refresh that starts has the row of its mailbox.
LEMMA RefreshStarts ==
    ASSUME GoogleInv, NEW c \in Callers, NEW a \in Connected, StartRefresh(c, a),
           UNCHANGED <<credentials, listed, google, toolCall, wanted, overtaken>>
    PROVE  GoogleInv'
<1> USE DEF GoogleInv
<1>1. a \in Mailboxes
  BY RowsOf DEF GoogleShape
<1>2. UNCHANGED Connected
  BY DEF Connected
<1> DEFINE begun == [at |-> "asked", mailbox |-> a, held |-> credentials[a], late |-> FALSE]
<1>3. begun \in [at: {"idle", "asked", "renewed", "refused"},
                 mailbox: Mailboxes \cup {NoMailbox}, held: Held, late: BOOLEAN]
  BY <1>1 DEF GoogleShape
<1>4. /\ refresh' = [refresh EXCEPT ![c] = begun] /\ begun.at = "asked" /\ begun.mailbox = a
      /\ begun.held = credentials[a] /\ begun.late = FALSE
  BY DEF StartRefresh
<1> HIDE DEF begun
<1>5. GoogleShape'
  <2>1. refresh' \in [Callers -> [at: {"idle", "asked", "renewed", "refused"},
                                  mailbox: Mailboxes \cup {NoMailbox}, held: Held,
                                  late: BOOLEAN]]
    BY <1>3, <1>4 DEF GoogleShape
  <2>2. \A d \in Callers : refresh'[d].at # "idle" => refresh'[d].mailbox \in Mailboxes
    BY <1>1, <1>4 DEF GoogleShape
  <2> QED  BY <2>1, <2>2 DEF GoogleShape
<1>6. TokensAreGiven'
  BY <1>2, <1>4 DEF TokensAreGiven, GoogleShape
<1>7. RefreshIsCurrent'
  <2>1. a \notin overtaken => a \in wanted /\ credentials[a] = google[a].last
    BY <1>1 DEF RowFollowsPerson
  <2> QED  BY <1>4, <2>1 DEF RefreshIsCurrent, GoogleShape
<1>8. CallIsConnected'
  BY <1>2 DEF CallIsConnected
<1>9. RowFollowsPerson'
  BY <1>2 DEF RowFollowsPerson
<1> QED  BY <1>5, <1>6, <1>7, <1>8, <1>9

LEMMA PollKeeps ==
    ASSUME GoogleInv, NEW a \in Mailboxes, PollMailbox(a) PROVE GoogleInv'
BY RefreshStarts DEF PollMailbox, runVars, Callers

LEMMA AnswerKeeps ==
    ASSUME GoogleInv, NEW c \in Callers, GoogleAnswers(c) PROVE GoogleInv'
<1> USE DEF GoogleInv
<1>1. /\ refresh[c].at = "asked"
      /\ refresh' = [refresh EXCEPT ![c].at =
                        IF refresh[c].held.number > google[refresh[c].mailbox].dead
                        THEN "renewed" ELSE "refused"]
      /\ UNCHANGED <<credentials, listed, google, toolCall, wanted, overtaken>>
  BY DEF GoogleAnswers, runVars
<1>2. UNCHANGED Connected
  BY <1>1 DEF Connected
<1>3. /\ refresh'[c].at \in {"renewed", "refused"}
      /\ \A d \in Callers \ {c} : refresh'[d] = refresh[d]
      /\ \A d \in Callers : /\ refresh'[d].mailbox = refresh[d].mailbox
                            /\ refresh'[d].held = refresh[d].held
                            /\ refresh'[d].late = refresh[d].late
      /\ refresh'[c].at = "refused"
         => ~(refresh[c].held.number > google[refresh[c].mailbox].dead)
      /\ refresh' \in [Callers -> [at: {"idle", "asked", "renewed", "refused"},
                                   mailbox: Mailboxes \cup {NoMailbox}, held: Held,
                                   late: BOOLEAN]]
  BY <1>1 DEF GoogleShape
<1>4. refresh[c].mailbox \in Mailboxes
  BY <1>1 DEF GoogleShape
<1>5. GoogleShape'
  <2>1. \A d \in Callers : refresh'[d].at # "idle" => refresh'[d].mailbox \in Mailboxes
    BY <1>3, <1>4 DEF GoogleShape
  <2> QED  BY <1>1, <1>3, <2>1 DEF GoogleShape
<1>6. TokensAreGiven'
  <2>1. \A d \in Callers : refresh'[d].at # "idle" => refresh'[d].held.number > 0
    BY <1>1, <1>3 DEF TokensAreGiven
  <2>2. \A d \in Callers \ {c} : refresh'[d].at = "refused"
            => google[refresh'[d].mailbox].dead >= refresh'[d].held.number
    BY <1>3 DEF TokensAreGiven
  <2>3. refresh'[c].at = "refused"
            => google[refresh'[c].mailbox].dead >= refresh'[c].held.number
    <3>1. refresh[c].held.number \in Nat /\ google[refresh[c].mailbox].dead \in Nat
      BY <1>4 DEF GoogleShape, Held
    <3> QED  BY <1>3, <3>1
  <2> QED  BY <1>1, <1>2, <2>1, <2>2, <2>3 DEF TokensAreGiven
<1>7. RefreshIsCurrent'
  BY <1>1, <1>3 DEF RefreshIsCurrent
<1>8. CallIsConnected'
  BY <1>1, <1>2 DEF CallIsConnected
<1>9. RowFollowsPerson'
  BY <1>1, <1>2 DEF RowFollowsPerson
<1> QED  BY <1>5, <1>6, <1>7, <1>8, <1>9

\* A refresh is over, and the call that waited for it may be.
LEMMA RefreshIsOver ==
    ASSUME GoogleShape, NEW c \in Callers, refresh' = [refresh EXCEPT ![c] = Resting],
           toolCall' = toolCall \/ toolCall' = NoToolCall
    PROVE  /\ refresh' \in [Callers -> [at: {"idle", "asked", "renewed", "refused"},
                                        mailbox: Mailboxes \cup {NoMailbox}, held: Held,
                                        late: BOOLEAN]]
           /\ refresh'[c].at = "idle" /\ \A d \in Callers \ {c} : refresh'[d] = refresh[d]
           /\ \A d \in Callers : refresh'[d].at # "idle"
                 => d # c /\ refresh'[d] = refresh[d] /\ refresh'[d].mailbox \in Mailboxes
           /\ toolCall' \in ToolCall
           /\ toolCall'.at # "none" => toolCall' = toolCall /\ toolCall'.mailbox \in Mailboxes
BY RestingIs DEF GoogleShape

LEMMA FailureKeeps ==
    ASSUME GoogleInv, NEW c \in Callers, RefreshFails(c) PROVE GoogleInv'
<1> USE DEF GoogleInv
<1>1. /\ refresh' = [refresh EXCEPT ![c] = Resting]
      /\ toolCall' = toolCall \/ toolCall' = NoToolCall
      /\ UNCHANGED <<credentials, listed, google, wanted, overtaken>>
  BY DEF RefreshFails
<1>2. UNCHANGED Connected
  BY <1>1 DEF Connected
<1>3. /\ refresh' \in [Callers -> [at: {"idle", "asked", "renewed", "refused"},
                                   mailbox: Mailboxes \cup {NoMailbox}, held: Held,
                                   late: BOOLEAN]]
      /\ \A d \in Callers : refresh'[d].at # "idle"
            => d # c /\ refresh'[d] = refresh[d] /\ refresh'[d].mailbox \in Mailboxes
      /\ toolCall' \in ToolCall
      /\ toolCall'.at # "none" => toolCall' = toolCall /\ toolCall'.mailbox \in Mailboxes
  BY <1>1, RefreshIsOver
<1>4. GoogleShape'
  BY <1>1, <1>3 DEF GoogleShape
<1>5. TokensAreGiven'
  BY <1>1, <1>2, <1>3 DEF TokensAreGiven
<1>6. RefreshIsCurrent'
  BY <1>1, <1>3 DEF RefreshIsCurrent
<1>7. CallIsConnected'
  BY <1>1, <1>2, <1>3 DEF CallIsConnected
<1>8. RowFollowsPerson'
  BY <1>1, <1>2 DEF RowFollowsPerson
<1> QED  BY <1>4, <1>5, <1>6, <1>7, <1>8

\* What is written late counts as overtaken; what is written in time is what the person
\* has last said.
LEMMA LateIsOvertaken ==
    ASSUME GoogleInv, NEW c \in Callers, refresh[c].at # "idle", Overtakes(c)
    PROVE  /\ overtaken' \subseteq Mailboxes /\ overtaken \subseteq overtaken'
           /\ refresh[c].mailbox \in Mailboxes \ overtaken'
              => /\ refresh[c].mailbox \in wanted
                 /\ refresh[c].held = google[refresh[c].mailbox].last
BY DEF GoogleInv, GoogleShape, Overtakes, RefreshIsCurrent

LEMMA RenewalKeeps ==
    ASSUME GoogleInv, NEW c \in Callers, Renewed(c) PROVE GoogleInv'
<1> USE DEF GoogleInv
<1>1. PICK m \in Mailboxes, held \in Held :
          /\ m = refresh[c].mailbox /\ held = refresh[c].held /\ held.number > 0
          /\ SetSourceCredentials(m, held)
  BY DEF Renewed, GoogleShape, TokensAreGiven
<1>2. /\ refresh' = [refresh EXCEPT ![c] = Resting] /\ Overtakes(c)
      /\ refresh[c].at # "idle" /\ toolCall' = toolCall /\ UNCHANGED <<google, wanted>>
  BY DEF Renewed
<1>3. /\ refresh' \in [Callers -> [at: {"idle", "asked", "renewed", "refused"},
                                   mailbox: Mailboxes \cup {NoMailbox}, held: Held,
                                   late: BOOLEAN]]
      /\ \A d \in Callers : refresh'[d].at # "idle"
            => d # c /\ refresh'[d] = refresh[d] /\ refresh'[d].mailbox \in Mailboxes
      /\ toolCall' \in ToolCall
      /\ toolCall'.at # "none" => toolCall' = toolCall /\ toolCall'.mailbox \in Mailboxes
  BY <1>2, RefreshIsOver
<1>4. /\ listed' \in Seq(Mailboxes) /\ Connected' = Connected \cup {m}
      /\ credentials' \in [Mailboxes -> Held] /\ credentials'[m] = held
      /\ \A b \in Mailboxes \ {m} : credentials'[b] = credentials[b]
  BY <1>1, RowIsSet
<1>5. /\ overtaken' \subseteq Mailboxes /\ overtaken \subseteq overtaken'
      /\ m \in Mailboxes \ overtaken' => m \in wanted /\ held = google[m].last
  <2>1. GoogleInv /\ refresh[c].at # "idle" /\ Overtakes(c)
    BY <1>2
  <2>2. /\ overtaken' \subseteq Mailboxes /\ overtaken \subseteq overtaken'
        /\ refresh[c].mailbox \in Mailboxes \ overtaken'
           => /\ refresh[c].mailbox \in wanted
              /\ refresh[c].held = google[refresh[c].mailbox].last
    BY <2>1, LateIsOvertaken, Zenon
  <2> QED  BY <1>1, <2>2
<1>6. Connected \subseteq Mailboxes
  BY RowsOf DEF GoogleShape
<1>7. GoogleShape'
  BY <1>2, <1>3, <1>4, <1>5 DEF GoogleShape
<1>8. TokensAreGiven'
  BY <1>1, <1>2, <1>3, <1>4, <1>6 DEF TokensAreGiven
<1>9. RefreshIsCurrent'
  BY <1>2, <1>3, <1>5 DEF RefreshIsCurrent
<1>10. CallIsConnected'
  BY <1>2, <1>4 DEF CallIsConnected
<1>11. RowFollowsPerson'
  BY <1>2, <1>4, <1>5 DEF RowFollowsPerson
<1> QED  BY <1>7, <1>8, <1>9, <1>10, <1>11

LEMMA RefusalKeeps ==
    ASSUME GoogleInv, NEW c \in Callers, Refused(c) PROVE GoogleInv'
<1> USE DEF GoogleInv
<1>1. PICK m \in Mailboxes, held \in Held :
          /\ m = refresh[c].mailbox /\ held = refresh[c].held /\ held.number > 0
          /\ google[m].dead >= held.number /\ ClearSourceConnection({m})
  BY DEF Refused, Revoked, GoogleShape, TokensAreGiven
<1>2. /\ refresh' = [refresh EXCEPT ![c] = Resting] /\ Overtakes(c)
      /\ refresh[c].at # "idle"
      /\ toolCall' = toolCall \/ toolCall' = NoToolCall
      /\ UNCHANGED <<google, wanted>>
  BY DEF Refused
<1>3. /\ refresh' \in [Callers -> [at: {"idle", "asked", "renewed", "refused"},
                                   mailbox: Mailboxes \cup {NoMailbox}, held: Held,
                                   late: BOOLEAN]]
      /\ \A d \in Callers : refresh'[d].at # "idle"
            => d # c /\ refresh'[d] = refresh[d] /\ refresh'[d].mailbox \in Mailboxes
      /\ toolCall' \in ToolCall
      /\ toolCall'.at # "none" => toolCall' = toolCall /\ toolCall'.mailbox \in Mailboxes
  BY <1>2, RefreshIsOver
<1>4. /\ listed' \in Seq(Mailboxes) /\ Connected' = Connected \ {m}
      /\ credentials' \in [Mailboxes -> Held]
      /\ \A b \in Mailboxes \ {m} : credentials'[b] = credentials[b]
  BY <1>1, RowsAreCleared
<1>5. /\ overtaken' \subseteq Mailboxes /\ overtaken \subseteq overtaken'
      /\ m \in Mailboxes \ overtaken' => m \in wanted /\ held = google[m].last
  <2>1. GoogleInv /\ refresh[c].at # "idle" /\ Overtakes(c)
    BY <1>2
  <2>2. /\ overtaken' \subseteq Mailboxes /\ overtaken \subseteq overtaken'
        /\ refresh[c].mailbox \in Mailboxes \ overtaken'
           => /\ refresh[c].mailbox \in wanted
              /\ refresh[c].held = google[refresh[c].mailbox].last
    BY <2>1, LateIsOvertaken, Zenon
  <2> QED  BY <1>1, <2>2
<1>6. /\ google[m].dead \in Nat /\ google[m].last.number \in Nat /\ held.number \in Nat
      /\ google[m].dead <= google[m].last.number
  BY DEF GoogleShape, Held
<1>7. google[m].dead > 0 /\ (held = google[m].last => google[m].last.number = google[m].dead)
  BY <1>1, <1>6
<1>8. Connected \subseteq Mailboxes
  BY RowsOf DEF GoogleShape
<1>9. GoogleShape'
  BY <1>2, <1>3, <1>4, <1>5 DEF GoogleShape
<1>10. TokensAreGiven'
  BY <1>2, <1>3, <1>4, <1>8 DEF TokensAreGiven
<1>11. RefreshIsCurrent'
  BY <1>2, <1>3, <1>5 DEF RefreshIsCurrent
<1>12. CallIsConnected'
  BY <1>2, <1>3, <1>4, <1>7 DEF CallIsConnected
<1>13. RowFollowsPerson'
  BY <1>2, <1>4, <1>5, <1>7 DEF RowFollowsPerson
<1> QED  BY <1>9, <1>10, <1>11, <1>12, <1>13

\* A call that starts, goes on or returns: the rows are left alone.
LEMMA CallKeeps ==
    ASSUME GoogleInv, toolCall' \in ToolCall,
           toolCall'.at # "none" => \/ toolCall'.mailbox \in Connected
                                    \/ /\ toolCall.at # "none"
                                       /\ toolCall'.mailbox = toolCall.mailbox
                                       /\ toolCall'.late = toolCall.late,
           UNCHANGED <<credentials, listed, google, refresh, wanted, overtaken>>
    PROVE  GoogleInv'
<1> USE DEF GoogleInv
<1>1. UNCHANGED Connected
  BY DEF Connected
<1>2. Connected \subseteq Mailboxes
  BY RowsOf DEF GoogleShape
<1>3. GoogleShape'
  BY <1>2 DEF GoogleShape
<1>4. TokensAreGiven' /\ RefreshIsCurrent' /\ RowFollowsPerson'
  BY <1>1 DEF TokensAreGiven, RefreshIsCurrent, RowFollowsPerson
<1>5. CallIsConnected'
  BY <1>1 DEF CallIsConnected
<1> QED  BY <1>3, <1>4, <1>5

LEMMA ToolKeeps ==
    ASSUME GoogleInv,
           \/ \E account \in Mailboxes \cup {NoMailbox}, acting \in BOOLEAN : CallTool(account, acting)
           \/ RunStarts \/ Load \/ Require \/ ToolReturns
    PROVE  GoogleInv'
<1>1. GoogleShape
  BY DEF GoogleInv
<1>2. ASSUME NEW account \in Mailboxes \cup {NoMailbox}, NEW acting \in BOOLEAN,
             CallTool(account, acting)
      PROVE  GoogleInv'
  <2>1. Connected \subseteq Mailboxes /\ (listed # <<>> => listed[1] \in Connected)
    BY <1>1, RowsOf DEF GoogleShape
  <2>2. Resolved(account) \in Connected
    BY <1>2, <2>1 DEF CallTool, Resolved
  <2>3. toolCall' = [at |-> "resolved", mailbox |-> Resolved(account), acting |-> acting,
                     late |-> FALSE]
    BY <1>2 DEF CallTool
  <2>4. toolCall' \in ToolCall /\ toolCall'.mailbox \in Connected
    BY <2>1, <2>2, <2>3 DEF ToolCall
  <2> QED  BY <1>2, <2>4, CallKeeps DEF CallTool
<1>3. CASE RunStarts
  BY <1>1, <1>3, CallKeeps DEF RunStarts, GoogleShape
<1>4. CASE Load
  <2>1. CASE toolCall' = NoToolCall /\ UNCHANGED refresh
    BY <1>4, <2>1, CallKeeps, RestingIs DEF Load
  <2>2. CASE UNCHANGED <<toolCall, refresh>>
    BY <1>1, <1>4, <2>2, CallKeeps DEF Load, GoogleShape
  <2>3. CASE toolCall.mailbox \in Connected /\ StartRefresh("tool", toolCall.mailbox)
             /\ UNCHANGED toolCall
    BY <1>4, <2>3, RefreshStarts DEF Load, Callers
  <2> QED  BY <1>4, <2>1, <2>2, <2>3 DEF Load
<1>5. CASE Require
  <2>1. CASE toolCall' = NoToolCall
    BY <1>5, <2>1, CallKeeps, RestingIs DEF Require
  <2>2. CASE toolCall' = [toolCall EXCEPT !.at = "acts"]
    <3>1. /\ toolCall' \in ToolCall /\ toolCall'.mailbox = toolCall.mailbox
          /\ toolCall'.late = toolCall.late
      BY <1>1, <2>2 DEF GoogleShape, ToolCall
    <3> QED  BY <1>5, <3>1, CallKeeps DEF Require
  <2> QED  BY <1>5, <2>1, <2>2 DEF Require
<1>6. CASE ToolReturns
  BY <1>6, CallKeeps, RestingIs DEF ToolReturns
<1> QED  BY <1>2, <1>3, <1>4, <1>5, <1>6

LEMMA GoogleSteps ==
    ASSUME GoogleInv, [GoogleNext]_googleVars PROVE GoogleInv'
<1>1. CASE UNCHANGED googleVars
  <2>1. UNCHANGED Connected
    BY <1>1 DEF googleVars, Connected
  <2> QED  BY <1>1, <2>1 DEF googleVars, GoogleInv, GoogleShape, TokensAreGiven,
               RefreshIsCurrent, CallIsConnected, RowFollowsPerson
<1>2. ASSUME NEW a \in Mailboxes, NEW agent \in BOOLEAN, GmailCallback(a, agent)
      PROVE  GoogleInv'
  BY <1>2, CallbackKeeps
<1>3. ASSUME NEW a \in Mailboxes, DisconnectGmail({a}) PROVE GoogleInv'
  <2>1. {a} \in SUBSET Mailboxes
    OBVIOUS
  <2> QED  BY <1>3, <2>1, DisconnectKeeps
<1>4. CASE DisconnectGmail(Mailboxes)
  <2>1. Mailboxes \in SUBSET Mailboxes
    OBVIOUS
  <2> QED  BY <1>4, <2>1, DisconnectKeeps
<1>5. ASSUME NEW a \in Mailboxes, GoogleRevokes(a) \/ PollMailbox(a) PROVE GoogleInv'
  BY <1>5, RevokeKeeps, PollKeeps
<1>6. ASSUME NEW c \in Callers, GoogleAnswers(c) \/ RefreshFails(c) \/ Renewed(c) \/ Refused(c)
      PROVE  GoogleInv'
  BY <1>6, AnswerKeeps, FailureKeeps, RenewalKeeps, RefusalKeeps
<1>7. CASE \/ \E account \in Mailboxes \cup {NoMailbox}, acting \in BOOLEAN :
                  CallTool(account, acting)
           \/ RunStarts \/ Load \/ Require \/ ToolReturns
  BY <1>7, ToolKeeps
<1> QED  BY <1>1, <1>2, <1>3, <1>4, <1>5, <1>6, <1>7 DEF GoogleNext

\* A row is there, with the last consent, exactly when the person has connected the mailbox
\* and Google has not taken the access back, and a tool acts on a connected mailbox: for any
\* mailboxes and any number of consents.
THEOREM GoogleInvariance == GoogleSpec => []GoogleInv
BY GoogleStarts, GoogleSteps, PTL DEF GoogleSpec

---------------------------------------------------------------------------
(* The database *)

\* b is what has become of a: what was changed for the new version stays changed.
Later(a, b) ==
    /\ b.todo = a.todo
    /\ a.keyed => b.keyed
    /\ a.owner # "nobody" => b.owner # "nobody"
    /\ a.state = 0 => b.state = 0
    /\ b.conns \in {a.conns, "by account"}
    /\ b.check \in {a.check, "current"}
    /\ a.conns # "missing" => /\ a.cols \cap Current \subseteq b.cols
                              /\ b.cols \subseteq a.cols \cup Current

\* The todo has its table, its message and its source's cursor; the columns that were added
\* are there when the old ones are gone; rows that are not of a person are of none.
Whole(db) ==
    /\ db.todo => "event_id" \in db.cols \/ db.keyed
    /\ db.todo => db.state + db.cursor \in 1 .. 2 /\ db.conns # "missing"
    /\ db.conns # "missing" => "event_id" \in db.cols \/ Added \subseteq db.cols
    /\ db.conns = "by source" => \A c \in db.rows : c.owner = "nobody"

\* What a run of init_db may count on, from what it has read and done.
Widened == {"look", "user", "create", "copy", "swap", "owners", "cursors", "check",
            "rebuild", "finish", "ready"}
Rebuilt == {"owners", "cursors", "check", "rebuild", "finish", "ready"}
InStage(o, db) ==
    /\ o.at \notin {"off", "tables", "raised"} => db.conns # "missing"
    /\ o.at = "alter" =>
           /\ db.cols \cap Left \subseteq o.alters /\ o.alters \subseteq Left \cup Added
           /\ IF o.migrates THEN Added \subseteq db.cols \cup o.alters
              ELSE o.alters \subseteq Left
    /\ o.at \in {"alter", "backfill", "drop"} =>
           /\ o.migrates <=> o.drops
           /\ ~o.drops => "event_id" \notin db.cols
    /\ o.at \in {"backfill", "drop", "columns again", "widen"} =>
           db.cols \cap Left = {} /\ Added \subseteq db.cols
    /\ o.at = "drop" /\ o.drops /\ db.todo => db.keyed
    /\ o.at \in {"columns again", "widen"} => "event_id" \notin db.cols
    /\ o.at = "widen" => Second \subseteq db.cols \cup o.alters /\ o.alters \subseteq Second
    /\ o.at \in Widened => db.cols = Current
    /\ o.at \in Widened \ {"look"} =>
           /\ ~o.cursor => db.state = 0
           /\ ~o.orphans /\ db.todo => db.owner # "nobody"
           /\ db.conns \in {o.conns, "by account"}
    /\ o.at \in {"create", "copy", "swap"} => Narrow(o)
    /\ o.at \in Rebuilt => db.conns = "by account"
    /\ o.at \in Rebuilt \ {"owners"} /\ db.todo => db.owner # "nobody"
    /\ o.at \in Rebuilt \ {"owners", "cursors"} => db.state = 0
    /\ o.at \in {"finish", "ready"} => db.check # "stale"

\* What it has read is still so, if it is alone.
AsRead(o, db) ==
    /\ o.at = "alter" => \A c \in o.alters : c \in Left <=> c \in db.cols
    /\ o.at = "widen" => \A c \in o.alters : c \notin db.cols
    /\ o.at \in {"alter", "backfill", "drop"} /\ o.drops => "event_id" \in db.cols
    /\ o.at \in {"user", "create", "copy"} => o.conns = db.conns

LEMMA ColumnsApart ==
    /\ Left \cap Current = {} /\ "event_id" \notin Current \cup Left
    /\ Added \subseteq Current /\ Second \subseteq Current /\ Current \subseteq Added \cup Second
    /\ Added \cap Second = {}
    /\ Columns = Left \cup Current \cup {"event_id"} /\ "dedup_key" \in Added
    /\ "urgency" \in Left
<1>1. Second = {"user_id", "account_id", "executor_state", "action_options"}
  <2>1. 6 .. 9 = {6, 7, 8, 9}
    OBVIOUS
  <2> QED  BY <2>1 DEF Second, Altering
<1> QED  BY <1>1 DEF Left, Added, Current, Columns

LEMMA LaterIsOrder ==
    /\ \A a \in Database : Later(a, a)
    /\ \A a, b, c \in Database : Later(a, b) /\ Later(b, c) => Later(a, c)
<1>1. \A a \in Database : Later(a, a)
  BY DEF Later
<1>2. ASSUME NEW a \in Database, NEW b \in Database, NEW c \in Database, Later(a, b), Later(b, c)
      PROVE  Later(a, c)
  <2>1. a.conns # "missing" => b.conns # "missing"
    BY <1>2 DEF Later
  <2>2. a.conns # "missing" => /\ a.cols \cap Current \subseteq c.cols
                               /\ c.cols \subseteq a.cols \cup Current
    BY <1>2, <2>1, Zenon DEF Later
  <2>3. (a.keyed => c.keyed) /\ c.todo = a.todo
    BY <1>2, Zenon DEF Later
  <2>4. /\ a.owner # "nobody" => c.owner # "nobody"
        /\ a.state = 0 => c.state = 0
        /\ c.conns \in {a.conns, "by account"}
        /\ c.check \in {a.check, "current"}
    BY <1>2 DEF Later
  <2> QED  BY <2>2, <2>3, <2>4, Zenon DEF Later
<1> QED  BY <1>1, <1>2

LEMMA StageKeeps ==
    ASSUME NEW o \in Opening, NEW a \in Database, NEW b \in Database, Later(a, b), InStage(o, a)
    PROVE  InStage(o, b)
<1> USE DEF InStage
<1>1. o.at \notin {"off", "tables", "raised"} =>
          /\ a.conns # "missing" /\ b.conns # "missing"
          /\ a.cols \cap Current \subseteq b.cols /\ b.cols \subseteq a.cols \cup Current
  BY DEF Later
<1>2. o.at = "alter" =>
           /\ b.cols \cap Left \subseteq o.alters /\ o.alters \subseteq Left \cup Added
           /\ IF o.migrates THEN Added \subseteq b.cols \cup o.alters
              ELSE o.alters \subseteq Left
  <2> SUFFICES ASSUME o.at = "alter"
               PROVE  /\ b.cols \cap Left \subseteq o.alters /\ o.alters \subseteq Left \cup Added
                      /\ IF o.migrates THEN Added \subseteq b.cols \cup o.alters
                         ELSE o.alters \subseteq Left
    BY Zenon
  <2>1. a.cols \cap Current \subseteq b.cols /\ b.cols \subseteq a.cols \cup Current
    BY <1>1
  <2>2. a.cols \cap Left \subseteq o.alters /\ o.alters \subseteq Left \cup Added
    OBVIOUS
  <2>3. b.cols \cap Left \subseteq o.alters
    BY <2>1, <2>2, ColumnsApart
  <2>4. ASSUME o.migrates PROVE Added \subseteq b.cols \cup o.alters
    <3>1. Added \subseteq a.cols \cup o.alters
      BY <2>4, Zenon
    <3> QED  BY <2>1, <3>1, ColumnsApart
  <2>5. ASSUME ~o.migrates PROVE o.alters \subseteq Left
    BY <2>5, Zenon
  <2> QED  BY <2>2, <2>3, <2>4, <2>5, Zenon
<1>3. o.at \in {"alter", "backfill", "drop"} =>
           /\ o.migrates <=> o.drops
           /\ ~o.drops => "event_id" \notin b.cols
  BY <1>1, ColumnsApart
<1>4. o.at \in {"backfill", "drop", "columns again", "widen"} =>
           b.cols \cap Left = {} /\ Added \subseteq b.cols
  BY <1>1, ColumnsApart
<1>5. o.at = "drop" /\ o.drops /\ b.todo => b.keyed
  BY DEF Later
<1>6. o.at \in {"columns again", "widen"} => "event_id" \notin b.cols
  BY <1>1, ColumnsApart
<1>7. o.at = "widen" => Second \subseteq b.cols \cup o.alters /\ o.alters \subseteq Second
  BY <1>1, ColumnsApart
<1>8. o.at \in Widened => b.cols = Current
  BY <1>1, ColumnsApart DEF Widened
<1>9. o.at \in Widened \ {"look"} =>
           /\ ~o.cursor => b.state = 0
           /\ ~o.orphans /\ b.todo => b.owner # "nobody"
           /\ b.conns \in {o.conns, "by account"}
  BY DEF Later
<1>10. /\ o.at \in Rebuilt => b.conns = "by account"
       /\ o.at \in Rebuilt \ {"owners"} /\ b.todo => b.owner # "nobody"
       /\ o.at \in Rebuilt \ {"owners", "cursors"} => b.state = 0
       /\ o.at \in {"finish", "ready"} => b.check # "stale"
  BY DEF Later
<1> QED
  BY <1>1, <1>2, <1>3, <1>4, <1>5, <1>6, <1>7, <1>8, <1>9, <1>10, Zenon

---------------------------------------------------------------------------
(* The invariant of the upgrade *)

FilesAreWhole ==
    /\ file \in Database /\ work \in Database
    /\ Whole(file) /\ Whole(work) /\ Later(file, work)
    /\ writer = NoStarter => work = file

\* The connections are in a database, under the key it has.
Keyed(db, c) == [owner |-> IF db.conns = "by source" THEN "nobody" ELSE c.owner,
                 source |-> c.source]
Holds(db) == \A c \in stored : Keyed(db, c) \in db.rows

\* Until the table is renewed only what came with the database is in it.
RowsAreHeld ==
    /\ ~outpaced => Holds(file) /\ Holds(work)
    /\ file.conns # "by account" => stored \subseteq {[owner |-> "legacy", source |-> "fathom"]}

\* The spare table is filled and put in its place in one transaction.
SpareIsOwn ==
    /\ file.copy = {}
    /\ work.copy # {} => \E p \in Starters : At(p, "swap")
    /\ \A p \in Starters :
          /\ writer = p => Busy(p)
          /\ writer = p /\ opening[p].at \notin Rebuilt \cup {"copy", "swap"} =>
                 (work.spare <=> file.spare)
          /\ At(p, "swap") => /\ writer = p
                              /\ ~outpaced => /\ work.conns # "by account"
                                              /\ stored \subseteq work.copy

StagesHold == \A p \in Starters : InStage(opening[p], View(p))

NobodyCopies == \A q \in Starters : ~At(q, "copy") /\ ~At(q, "swap")
LoneIsAlone ==
    \A p \in Starters : opening[p].lone =>
        /\ Busy(p) => AsRead(opening[p], View(p)) /\ \A q \in Starters \ {p} : ~Busy(q)
        /\ At(p, "raised") => file.spare /\ work.spare /\ NobodyCopies

SchemaInv ==
    SchemaTypeOK /\ FilesAreWhole /\ RowsAreHeld /\ SpareIsOwn /\ StagesHold /\ LoneIsAlone

LEMMA SchemaShows == SchemaInv => UpgradeLosesNothing
<1> SUFFICES ASSUME SchemaInv PROVE UpgradeLosesNothing
  OBVIOUS
<1>1. MessageIsKept
  BY Zenon DEF SchemaInv, FilesAreWhole, Whole, MessageIsKept
<1>2. ConnectionsAreKept
  <2> SUFFICES ASSUME ~outpaced, NEW c \in stored
               PROVE  [c EXCEPT !.owner = Under(c.owner)] \in file.rows
    BY Zenon DEF ConnectionsAreKept
  <2>1. Keyed(file, c) \in file.rows
    BY Zenon DEF SchemaInv, RowsAreHeld, Holds
  <2>2. c \in [owner: Owners, source: {"gmail", "fathom"}]
    BY DEF SchemaInv, SchemaTypeOK
  <2>3. [c EXCEPT !.owner = Under(c.owner)] = Keyed(file, c)
    <3> DEFINE u == Under(c.owner)
    <3>1. u = IF file.conns = "by source" THEN "nobody" ELSE c.owner
      BY DEF Under
    <3>2. Keyed(file, c) = [owner |-> u, source |-> c.source]
      BY <3>1, Zenon DEF Keyed
    <3> HIDE DEF u
    <3>3. [c EXCEPT !.owner = u] = [owner |-> u, source |-> c.source]
      BY <2>2
    <3> QED  BY <3>2, <3>3, Zenon DEF u
  <2> QED  BY <2>1, <2>3
<1>3. CursorIsKept
  BY DEF SchemaInv, FilesAreWhole, Whole, CursorIsKept
<1>4. LoneRunWorks
  <2> SUFFICES ASSUME NEW p \in Starters, At(p, "raised"), opening[p].lone
               PROVE  file.spare /\ file.copy = {}
    BY Zenon DEF LoneRunWorks
  <2> QED  BY Zenon DEF SchemaInv, LoneIsAlone, SpareIsOwn
<1>5. ReadyIsCurrent
  <2> SUFFICES ASSUME NEW p \in Starters, At(p, "ready")
               PROVE  /\ file.conns = "by account" /\ file.check # "stale"
                      /\ file.cols = Current
                      /\ file.todo => file.owner # "nobody"
    BY DEF ReadyIsCurrent
  <2>1. writer # p
    BY DEF SchemaInv, SpareIsOwn, Busy, At
  <2>2. InStage(opening[p], file) /\ opening[p].at = "ready"
    BY <2>1 DEF SchemaInv, StagesHold, View, At
  <2>3. file.conns = "by account" /\ file.check # "stale" /\ file.cols = Current
    BY <2>2 DEF InStage, Widened, Rebuilt
  <2>4. file.todo => file.owner # "nobody"
    BY <2>2 DEF InStage, Rebuilt
  <2> QED  BY <2>3, <2>4
<1> QED  BY <1>1, <1>2, <1>3, <1>4, <1>5, Zenon DEF UpgradeLosesNothing

LEMMA VersionsAreWhole ==
    ASSUME NEW h \in Histories
    PROVE  /\ Version(h) \in Database /\ Whole(Version(h)) /\ Version(h).copy = {}
           /\ Version(h).conns # "by account"
           /\ h # "fresh" => /\ Version(h).conns = "by source" =>
                                    [owner |-> "nobody", source |-> "fathom"] \in Version(h).rows
                             /\ Version(h).conns # "by source" =>
                                    [owner |-> "legacy", source |-> "fathom"] \in Version(h).rows
<1>0. h \in {"fresh", "single_user", "single_account"}
  BY SchemaConstants
<1> USE ColumnsApart
<1>1. CASE h = "fresh"
  <2> DEFINE db == [cols |-> {}, check |-> "none", conns |-> "missing", rows |-> {},
            spare |-> FALSE, copy |-> {}, state |-> 0, cursor |-> 0, todo |-> FALSE,
            keyed |-> FALSE, owner |-> "nobody"]
  <2>1. Version(h) = db
    BY <1>1 DEF Version
  <2>2. db \in Database
    BY DEF Database
  <2>3. Whole(db) /\ db.copy = {} /\ db.conns # "by account"
    BY DEF Whole
  <2> HIDE DEF db
  <2> QED  BY <1>1, <2>1, <2>2, <2>3
<1>2. CASE h = "single_user"
  <2> DEFINE db == [cols |-> {"urgency", "draft", "event_id"}, check |-> "stale",
            conns |-> "by source",
            rows |-> {[owner |-> "nobody", source |-> s] : s \in {"gmail", "fathom"}},
            spare |-> FALSE, copy |-> {}, state |-> 1, cursor |-> 0, todo |-> TRUE,
            keyed |-> FALSE, owner |-> "nobody"]
  <2>1. Version(h) = db
    BY <1>2 DEF Version
  <2>2. db \in Database
    BY DEF Database, Connection, Owners, Columns, Left
  <2>3. Whole(db) /\ db.copy = {} /\ db.conns = "by source"
        /\ [owner |-> "nobody", source |-> "fathom"] \in db.rows
    BY DEF Whole
  <2> HIDE DEF db
  <2> QED  BY <2>1, <2>2, <2>3
<1>3. CASE h = "single_account"
  <2> DEFINE db == [cols |-> Added \cup {"user_id"}, check |-> "stale", conns |-> "by user",
            rows |-> {[owner |-> "legacy", source |-> s] : s \in {"gmail", "fathom"}},
            spare |-> FALSE, copy |-> {}, state |-> 0, cursor |-> 1, todo |-> TRUE,
            keyed |-> TRUE, owner |-> "legacy"]
  <2>1. Version(h) = db
    BY <1>3 DEF Version
  <2>0. "user_id" \in Columns
    BY DEF Columns, Second, Altering
  <2>2. db \in Database
    BY <2>0 DEF Database, Connection, Owners
  <2>3. Whole(db) /\ db.copy = {} /\ db.conns = "by user"
        /\ [owner |-> "legacy", source |-> "fathom"] \in db.rows
    BY DEF Whole
  <2> HIDE DEF db
  <2> QED  BY <2>1, <2>2, <2>3
<1> QED  BY <1>0, <1>1, <1>2, <1>3

LEMMA SchemaStarts == SchemaInit => SchemaInv
<1> SUFFICES ASSUME SchemaInit PROVE SchemaInv
  OBVIOUS
<1>1. PICK h \in Histories :
          /\ file = Version(h)
          /\ stored = IF h = "fresh" THEN {} ELSE {[owner |-> "legacy", source |-> "fathom"]}
  BY DEF SchemaInit
<1>2. /\ work = file /\ writer = NoStarter /\ starts = 0 /\ outpaced = FALSE
      /\ opening = [p \in Starters |-> Off]
  BY DEF SchemaInit
<1>3. /\ file \in Database /\ Whole(file) /\ file.copy = {} /\ file.conns # "by account"
  BY <1>1, VersionsAreWhole
<1>4. Off \in Opening /\ Off.at = "off" /\ Off.lone = FALSE
  BY DEF Off, Opening, Stages
<1>5. SchemaTypeOK
  <2>1. outpaced \in BOOLEAN
    BY <1>2, Zenon
  <2>2. stored \subseteq [owner: Owners, source: {"gmail", "fathom"}]
    BY <1>1 DEF Owners
  <2>3. /\ file \in Database /\ work \in Database /\ writer \in Starters \cup {NoStarter}
        /\ opening \in [Starters -> Opening] /\ starts \in 0 .. MaxStarts
    <3>1. opening \in [Starters -> Opening]
      BY <1>2, <1>4, Zenon
    <3>2. starts \in 0 .. MaxStarts
      BY <1>2, SchemaConstants
    <3> QED  BY <1>2, <1>3, <3>1, <3>2, Zenon
  <2> QED  BY <2>1, <2>2, <2>3, Zenon DEF SchemaTypeOK
<1>6. FilesAreWhole
  BY <1>2, <1>3, LaterIsOrder DEF FilesAreWhole
<1>7. RowsAreHeld
  <2>1. Holds(file)
    <3> SUFFICES ASSUME NEW c \in stored PROVE Keyed(file, c) \in file.rows
      BY Zenon DEF Holds
    <3>1. h # "fresh" /\ c = [owner |-> "legacy", source |-> "fathom"]
      BY <1>1
    <3>2. CASE file.conns = "by source"
      <4>1. Keyed(file, c) = [owner |-> "nobody", source |-> "fathom"]
        BY <3>1, <3>2 DEF Keyed
      <4> QED  BY <1>1, <3>1, <3>2, <4>1, VersionsAreWhole
    <3>3. CASE file.conns # "by source"
      <4>1. Keyed(file, c) = [owner |-> "legacy", source |-> "fathom"]
        BY <3>1, <3>3 DEF Keyed
      <4> QED  BY <1>1, <3>1, <3>3, <4>1, VersionsAreWhole
    <3> QED  BY <3>2, <3>3
  <2> QED  BY <1>1, <1>2, <2>1 DEF RowsAreHeld
<1>8. SpareIsOwn
  BY <1>2, <1>3, <1>4, SchemaConstants DEF SpareIsOwn, At
<1>9. StagesHold
  BY <1>2, <1>4 DEF StagesHold, InStage, Widened, Rebuilt
<1>10. LoneIsAlone
  BY <1>2, <1>4 DEF LoneIsAlone
<1> QED  BY <1>5, <1>6, <1>7, <1>8, <1>9, <1>10, Zenon DEF SchemaInv

\* What a statement of p does, if it makes `new' of what p sees.
Outcome(p, new) ==
    \/ new = View(p) /\ Idles
    \/ /\ writer \in {p, NoStarter} /\ work' = new
       /\ \/ file' = file /\ writer' = p
          \/ file' = new /\ writer' = NoStarter

LEMMA OutcomesAre ==
    ASSUME SchemaInv, NEW p \in Starters
    PROVE  /\ \A new : Changes(p, new) \/ Alters(p, new) => Outcome(p, new)
           /\ Idles \/ Commits(p) => Outcome(p, View(p))
           /\ MayWrite(p) /\ file' = View(p) /\ work' = View(p) /\ writer' = NoStarter
                  => Outcome(p, View(p))
<1> USE SchemaConstants
<1>1. p # NoStarter /\ (writer = NoStarter => work = file)
  BY DEF SchemaInv, FilesAreWhole
<1>2. \A new : Changes(p, new) => Outcome(p, new)
  BY <1>1 DEF Changes, MayWrite, Outcome
<1>3. \A new : Alters(p, new) => Outcome(p, new)
  BY <1>1 DEF Alters, MayWrite, Outcome
<1>4. Idles => Outcome(p, View(p))
  BY DEF Outcome
<1>5. Commits(p) => Outcome(p, View(p))
  BY <1>1 DEF Commits, Outcome, View, Idles
<1>6. MayWrite(p) /\ file' = View(p) /\ work' = View(p) /\ writer' = NoStarter
          => Outcome(p, View(p))
  BY <1>1 DEF MayWrite, Outcome
<1> QED  BY <1>2, <1>3, <1>4, <1>5, <1>6, Zenon

\* What p sees.
LEMMA ViewsAre ==
    ASSUME SchemaInv, NEW p \in Starters
    PROVE  /\ View(p) \in Database /\ Whole(View(p)) /\ Later(file, View(p))
           /\ InStage(opening[p], View(p)) /\ opening[p] \in Opening
           /\ ~outpaced => Holds(View(p))
           /\ ~At(p, "swap") => View(p).copy = {}
<1>1. /\ View(p) \in Database /\ Whole(View(p)) /\ Later(file, View(p))
  BY LaterIsOrder DEF SchemaInv, FilesAreWhole, View
<1>2. InStage(opening[p], View(p)) /\ opening[p] \in Opening
  BY DEF SchemaInv, StagesHold, SchemaTypeOK
<1>3. ~outpaced => Holds(View(p))
  BY DEF SchemaInv, RowsAreHeld, View
<1>4. ASSUME ~At(p, "swap") PROVE View(p).copy = {}
  <2>1. writer = p /\ work.copy # {} => At(p, "swap")
    BY DEF SchemaInv, SpareIsOwn
  <2> QED  BY <1>4, <2>1 DEF SchemaInv, SpareIsOwn, View
<1> QED  BY <1>1, <1>2, <1>3, <1>4

\* What the others see is what has become of it, or the same while one of them writes.
LEMMA OthersSee ==
    ASSUME SchemaInv, NEW p \in Starters, NEW new \in Database, Whole(new),
           Later(View(p), new), Outcome(p, new)
    PROVE  /\ FilesAreWhole' /\ View(p)' = new /\ Later(file, file')
           /\ \A q \in Starters \ {p} : Later(View(q), View(q)')
           /\ \A q \in Starters \ {p} : writer = q \/ writer' = q => Idles
<1> USE SchemaConstants
<1>0. /\ file \in Database /\ work \in Database /\ Whole(file) /\ Whole(work)
      /\ Later(file, work) /\ (writer = NoStarter => work = file)
      /\ Later(file, file) /\ Later(work, work) /\ Later(new, new)
      /\ p # NoStarter
  BY LaterIsOrder DEF SchemaInv, FilesAreWhole
<1>1. CASE new = View(p) /\ Idles
  BY <1>0, <1>1 DEF Idles, View, FilesAreWhole
<1>2. CASE /\ writer \in {p, NoStarter} /\ work' = new
           /\ \/ file' = file /\ writer' = p
              \/ file' = new /\ writer' = NoStarter
  <2>1. View(p) = work /\ Later(file, new)
    <3>1. View(p) = work
      BY <1>0, <1>2 DEF View
    <3> QED  BY <1>0, <3>1, LaterIsOrder
  <2>2. View(p)' = new
    BY <1>0, <1>2 DEF View
  <2>3. \A q \in Starters \ {p} : View(q) = file /\ View(q)' = file' /\ writer # q /\ writer' # q
    BY <1>0, <1>2 DEF View
  <2>4. Later(file, file')
    BY <1>0, <1>2, <2>1
  <2>5. FilesAreWhole'
    BY <1>0, <1>2, <2>1 DEF FilesAreWhole
  <2> QED  BY <2>2, <2>3, <2>4, <2>5
<1> QED  BY <1>1, <1>2 DEF Outcome

\* A step of init_db after which it goes on to another one but those around the spare table.
Moves(p, o2) ==
    /\ Quiet /\ opening' = [opening EXCEPT ![p] = o2]
    /\ Busy(p) /\ opening[p].at \notin {"copy", "swap"}
    /\ o2.at \notin {"off", "raised", "copy", "swap"} /\ (o2.lone <=> opening[p].lone)
    /\ writer' = p => o2.at # "ready"
    /\ opening[p].at \in Rebuilt => o2.at \in Rebuilt
Leaves(p, o2, new) ==
    /\ Outcome(p, new) /\ Whole(new) /\ Later(View(p), new)
    /\ InStage(o2, new) /\ (o2.lone => AsRead(o2, new))
    /\ (new.spare <=> View(p).spare) /\ new.copy = View(p).copy /\ new.rows = View(p).rows
    /\ (new.conns = "by source" <=> View(p).conns = "by source")

LEMMA RunGoesOn ==
    ASSUME SchemaInv, NEW p \in Starters, NEW o2 \in Opening, NEW new \in Database,
           Moves(p, o2), Leaves(p, o2, new)
    PROVE  SchemaInv'
<1>00. /\ Outcome(p, new) /\ Quiet /\ opening' = [opening EXCEPT ![p] = o2]
       /\ Busy(p) /\ opening[p].at \notin {"copy", "swap"}
       /\ o2.at \notin {"off", "raised", "copy", "swap"} /\ (o2.lone <=> opening[p].lone)
       /\ writer' = p => o2.at # "ready"
       /\ opening[p].at \in Rebuilt => o2.at \in Rebuilt
       /\ Whole(new) /\ Later(View(p), new) /\ InStage(o2, new) /\ (o2.lone => AsRead(o2, new))
       /\ (new.spare <=> View(p).spare) /\ new.copy = View(p).copy /\ new.rows = View(p).rows
       /\ (new.conns = "by source" <=> View(p).conns = "by source")
  BY Zenon DEF Moves, Leaves
<1> USE <1>00
<1> USE SchemaConstants
<1>0. /\ FilesAreWhole' /\ View(p)' = new /\ Later(file, file')
      /\ \A q \in Starters \ {p} : Later(View(q), View(q)')
      /\ \A q \in Starters \ {p} : writer = q \/ writer' = q => Idles
  BY OthersSee
<1>1. /\ View(p).copy = {} /\ (~outpaced => Holds(View(p))) /\ p # NoStarter
  BY ViewsAre DEF At
<1>2. /\ opening \in [Starters -> Opening] /\ opening'[p] = o2
      /\ opening' \in [Starters -> Opening]
      /\ \A q \in Starters \ {p} : opening'[q] = opening[q]
  BY DEF SchemaInv, SchemaTypeOK
<1>3. UNCHANGED <<starts, stored, outpaced>>
  BY DEF Quiet
<1>4. SchemaTypeOK'
  <2>1. writer' \in Starters \cup {NoStarter}
    BY DEF Outcome, Idles, SchemaInv, SchemaTypeOK
  <2>2. outpaced' \in BOOLEAN /\ starts' \in 0 .. MaxStarts
        /\ stored' \subseteq [owner: Owners, source: {"gmail", "fathom"}]
    BY <1>3, Zenon DEF SchemaInv, SchemaTypeOK
  <2>3. file' \in Database /\ work' \in Database
    BY <1>0, Zenon DEF FilesAreWhole
  <2> QED  BY <1>2, <2>1, <2>2, <2>3, Zenon DEF SchemaTypeOK
<1>5. RowsAreHeld'
  <2>1. ASSUME ~outpaced PROVE Holds(new)
    <3>1. \A c : Keyed(new, c) = Keyed(View(p), c)
      BY DEF Keyed
    <3> QED  BY <1>1, <2>1, <3>1, Zenon DEF Holds
  <2>2. file' \in {file, new} /\ work' \in {work, new}
    BY DEF Outcome, Idles
  <2>3. \A db : Holds(db)' <=> Holds(db')
    BY <1>3, Zenon DEF Holds, Keyed
  <2>4. ~outpaced' => Holds(file') /\ Holds(work')
    BY <1>3, <2>1, <2>2 DEF SchemaInv, RowsAreHeld
  <2>5. file'.conns # "by account" => file.conns # "by account"
    BY <1>0 DEF Later
  <2>6. (~outpaced => Holds(file) /\ Holds(work))'
    BY <1>3, <2>4, Zenon DEF Holds, Keyed
  <2> QED  BY <1>3, <2>5, <2>6, Zenon DEF SchemaInv, RowsAreHeld
<1>6. SpareIsOwn'
  <2>1. file'.copy = {}
    BY <1>1 DEF Outcome, Idles, SchemaInv, SpareIsOwn
  <2>2. work'.copy # {} => \E q \in Starters : At(q, "swap")'
    <3>1. work'.copy # {} => work' = work
      BY <1>1 DEF Outcome, Idles
    <3>2. \A q \in Starters : At(q, "swap") => At(q, "swap")'
      BY <1>2 DEF At
    <3> QED  BY <3>1, <3>2 DEF SchemaInv, SpareIsOwn
  <2>3. ASSUME NEW q \in Starters
        PROVE  (/\ writer = q => Busy(q)
                /\ writer = q /\ opening[q].at \notin Rebuilt \cup {"copy", "swap"} =>
                       (work.spare <=> file.spare)
                /\ At(q, "swap") => /\ writer = q
                                    /\ ~outpaced => /\ work.conns # "by account"
                                                    /\ stored \subseteq work.copy)'
    <3>0. /\ writer = q => Busy(q)
          /\ writer = q /\ opening[q].at \notin Rebuilt \cup {"copy", "swap"} =>
                 (work.spare <=> file.spare)
          /\ At(q, "swap") => /\ writer = q
                              /\ ~outpaced => /\ work.conns # "by account"
                                              /\ stored \subseteq work.copy
      BY Zenon DEF SchemaInv, SpareIsOwn
    <3>1. CASE q # p
      <4>1. writer = q \/ writer' = q => UNCHANGED <<file, work, writer>>
        BY <1>0, <3>1 DEF Idles
      <4>2. opening'[q] = opening[q]
        BY <1>2, <3>1
      <4> QED  BY <1>3, <3>0, <4>1, <4>2 DEF At, Busy
    <3>2. CASE q = p
      <4>1. writer' = p => Busy(p)'
        BY <1>2 DEF Busy
      <4>2. ~At(p, "swap")'
        BY <1>2 DEF At
      <4>3. ASSUME writer' = p, o2.at \notin Rebuilt PROVE work'.spare <=> file'.spare
        <5>1. CASE Idles
          BY <3>0, <3>2, <4>3, <5>1 DEF Idles
        <5>2. CASE /\ writer \in {p, NoStarter} /\ work' = new /\ file' = file
          <6>1. CASE writer = p
            <7>1. View(p) = work /\ (work.spare <=> file.spare)
              BY <3>0, <3>2, <4>3, <6>1 DEF View
            <7> QED  BY <5>2, <7>1, Zenon
          <6>2. CASE writer = NoStarter
            <7>1. View(p) = file
              BY <1>1, <6>2 DEF View
            <7> QED  BY <5>2, <7>1, Zenon
          <6> QED  BY <5>2, <6>1, <6>2
        <5> QED  BY <1>1, <4>3, <5>1, <5>2 DEF Outcome
      <4> QED  BY <1>2, <3>2, <4>1, <4>2, <4>3
    <3> QED  BY <3>1, <3>2
  <2> QED  BY <2>1, <2>2, <2>3, Zenon DEF SpareIsOwn
<1>7. StagesHold'
  <2> SUFFICES ASSUME NEW q \in Starters PROVE InStage(opening'[q], View(q)')
    BY Zenon DEF StagesHold
  <2>1. CASE q # p
    <3>1. /\ View(q) \in Database /\ InStage(opening[q], View(q)) /\ opening[q] \in Opening
      BY ViewsAre
    <3>2. View(q)' \in Database
      BY <1>0 DEF FilesAreWhole, View
    <3> QED  BY <1>0, <1>2, <2>1, <3>1, <3>2, StageKeeps
  <2>2. CASE q = p
    BY <1>0, <1>2, <2>2
  <2> QED  BY <2>1, <2>2
<1>8. LoneIsAlone'
  <2> SUFFICES ASSUME NEW q \in Starters, opening'[q].lone
               PROVE  /\ Busy(q)' => /\ AsRead(opening'[q], View(q)')
                                     /\ \A r \in Starters \ {q} : ~Busy(r)'
                      /\ At(q, "raised")' => file'.spare /\ work'.spare /\ NobodyCopies'
    BY Zenon DEF LoneIsAlone
  <2>1. CASE q # p
    <3>1. opening'[q] = opening[q] /\ opening[q].lone
      BY <1>2, <2>1
    <3>2. ~Busy(q)
      BY <2>1, <3>1 DEF SchemaInv, LoneIsAlone
    <3>3. ASSUME At(q, "raised")' PROVE file'.spare /\ work'.spare /\ NobodyCopies'
      <4>1. file.spare /\ work.spare /\ NobodyCopies
        BY <3>1, <3>3, Zenon DEF SchemaInv, LoneIsAlone, At
      <4>2. NobodyCopies'
        BY <1>2, <4>1 DEF NobodyCopies, At
      <4>3. new.spare
        BY <4>1, Zenon DEF View
      <4>4. file' \in {file, new} /\ work' \in {work, new}
        BY DEF Outcome, Idles
      <4> QED  BY <4>1, <4>2, <4>3, <4>4
    <3> QED  BY <3>1, <3>2, <3>3 DEF Busy
  <2>2. CASE q = p
    <3>1. o2.lone /\ opening[p].lone /\ ~At(p, "raised")'
      BY <1>2, <2>2 DEF At
    <3>2. \A r \in Starters \ {p} : ~Busy(r)
      BY <3>1, Zenon DEF SchemaInv, LoneIsAlone
    <3>3. \A r \in Starters \ {p} : ~Busy(r)'
      BY <1>2, <3>2 DEF Busy
    <3> QED  BY <1>0, <1>2, <2>2, <3>1, <3>3
  <2> QED  BY <2>1, <2>2
<1> QED  BY <1>0, <1>4, <1>5, <1>6, <1>7, <1>8, Zenon DEF SchemaInv

\* What a move to another place leaves of a run.
LEMMA MovesKeep ==
    ASSUME NEW o \in Opening, NEW to \in Stages
    PROVE  /\ [o EXCEPT !.at = to] \in Opening
           /\ [o EXCEPT !.at = to].at = to
           /\ [o EXCEPT !.at = to].alters = o.alters
           /\ [o EXCEPT !.at = to].conns = o.conns
           /\ [o EXCEPT !.at = to].migrates = o.migrates
           /\ [o EXCEPT !.at = to].drops = o.drops
           /\ [o EXCEPT !.at = to].orphans = o.orphans
           /\ [o EXCEPT !.at = to].cursor = o.cursor
           /\ [o EXCEPT !.at = to].lone = o.lone
BY DEF Opening

\* A run under way that is alone has read what is so.
LEMMA LoneHasRead ==
    ASSUME SchemaInv, NEW p \in Starters, Busy(p), opening[p].lone
    PROVE  AsRead(opening[p], View(p))
BY Zenon DEF SchemaInv, LoneIsAlone

\* A step that writes nothing, or only commits.
LEMMA Looks ==
    ASSUME SchemaInv, NEW p \in Starters, NEW o2 \in Opening, Moves(p, o2),
           Outcome(p, View(p)), InStage(o2, View(p)), o2.lone => AsRead(o2, View(p))
    PROVE  SchemaInv'
<1>1. View(p) \in Database /\ Whole(View(p)) /\ Later(View(p), View(p))
  BY ViewsAre, LaterIsOrder
<1>2. Leaves(p, o2, View(p))
  BY <1>1, Zenon DEF Leaves
<1> QED  BY <1>1, <1>2, RunGoesOn, Zenon

LEMMA TablesKeepSchema ==
    ASSUME SchemaInv, NEW p \in Starters, CreateTables(p) PROVE SchemaInv'
<1> DEFINE o == opening[p]
           o2 == [o EXCEPT !.at = "columns"]
<1>1. o \in Opening /\ View(p) \in Database /\ Whole(View(p)) /\ InStage(o, View(p))
  BY ViewsAre
<1>2. /\ o2 \in Opening /\ o2.at = "columns" /\ (o2.lone <=> o.lone)
  <2>1. "columns" \in Stages
    BY DEF Stages
  <2> HIDE DEF o
  <2> QED  BY <1>1, <2>1, MovesKeep, Zenon
<1>3. opening' = [opening EXCEPT ![p] = o2] /\ Quiet /\ o.at = "tables"
  BY DEF CreateTables, Goes, At
<1>4. Busy(p)
  BY <1>3 DEF Busy
<1>41. Moves(p, o2)
  <2> HIDE DEF o2
  <2> QED  BY <1>2, <1>3, <1>4 DEF Moves, Rebuilt
<1>5. \A db : AsRead(o2, db)
  BY <1>2 DEF AsRead
<1>6. \A db : db.conns # "missing" => InStage(o2, db)
  BY <1>2 DEF InStage, Widened, Rebuilt
<1>7. CASE View(p).conns # "missing"
  <2>1. Outcome(p, View(p))
    BY <1>7, OutcomesAre DEF CreateTables
  <2>2. InStage(o2, View(p)) /\ AsRead(o2, View(p))
    BY <1>5, <1>6, <1>7
  <2> HIDE DEF o2
  <2> QED  BY <1>2, <1>41, <2>1, <2>2, Looks, Zenon
<1>8. CASE View(p).conns = "missing"
  <2> DEFINE new == [View(p) EXCEPT !.cols = Current, !.check = "current", !.conns = "by account"]
  <2>1. Outcome(p, new)
    BY <1>8, OutcomesAre DEF CreateTables
  <2>2. new \in Database /\ Whole(new) /\ Later(View(p), new) /\ new.conns = "by account"
    <3> DEFINE v == View(p)
    <3>1. v \in Database /\ v.conns = "missing" /\ Whole(v)
      BY <1>1, <1>8
    <3>2. Current \in SUBSET Columns /\ Added \subseteq Current
      BY ColumnsApart
    <3> HIDE DEF v
    <3>3. /\ new \in Database /\ new.cols = Current /\ new.check = "current"
          /\ new.conns = "by account" /\ new.todo = v.todo /\ new.keyed = v.keyed
          /\ new.owner = v.owner /\ new.state = v.state /\ new.cursor = v.cursor
      BY <3>1, <3>2 DEF Database, v
    <3> HIDE DEF new
    <3>4. ~v.todo
      BY <3>1 DEF Whole
    <3>5. ~new.todo
      BY <3>3, <3>4, Zenon
    <3>6. Whole(new)
      BY <3>2, <3>3, <3>5 DEF Whole
    <3>7. (v.keyed => new.keyed) /\ new.todo = v.todo
      BY <3>3, Zenon
    <3>8. /\ v.owner # "nobody" => new.owner # "nobody"
          /\ v.state = 0 => new.state = 0
          /\ new.conns \in {v.conns, "by account"}
          /\ new.check \in {v.check, "current"}
      BY <3>3
    <3>9. Later(v, new)
      BY <3>1, <3>7, <3>8, Zenon DEF Later
    <3> QED  BY <3>3, <3>6, <3>9, Zenon DEF v
  <2>3. /\ (new.spare <=> View(p).spare) /\ new.copy = View(p).copy
        /\ new.rows = View(p).rows
        /\ (new.conns = "by source" <=> View(p).conns = "by source")
    <3>1. new.spare = View(p).spare /\ new.copy = View(p).copy /\ new.rows = View(p).rows
          /\ new.conns = "by account"
      BY <1>1 DEF Database
    <3> HIDE DEF new
    <3>2. new.conns = "by source" <=> View(p).conns = "by source"
      BY <1>8, <3>1
    <3> QED  BY <3>1, <3>2, Zenon
  <2>4. InStage(o2, new) /\ AsRead(o2, new)
    BY <1>5, <1>6, <2>2
  <2> HIDE DEF new, o2
  <2>5. Leaves(p, o2, new)
    BY <2>1, <2>2, <2>3, <2>4, Zenon DEF Leaves
  <2> QED  BY <1>2, <1>41, <2>2, <2>5, RunGoesOn, Zenon
<1> QED  BY <1>7, <1>8

LEMMA ReadingKeepsSchema ==
    ASSUME SchemaInv, NEW p \in Starters, ReadColumns(p) \/ ReadAgain(p) PROVE SchemaInv'
<1> DEFINE o == opening[p]
           db == View(p)
<1>1. o \in Opening /\ db \in Database /\ Whole(db) /\ InStage(o, db)
  BY ViewsAre
<1>2. Outcome(p, View(p)) /\ Quiet
  BY OutcomesAre DEF ReadColumns, ReadAgain
<1>3. CASE ReadColumns(p)
  <2> DEFINE migrates == "event_id" \in db.cols \/ "dedup_key" \notin db.cols
             alters == (Left \cap db.cols) \cup IF migrates THEN Added \ db.cols ELSE {}
             o2 == [o EXCEPT !.at = "alter", !.migrates = migrates,
                             !.drops = "event_id" \in db.cols, !.alters = alters]
  <2>1. opening' = [opening EXCEPT ![p] = o2] /\ o.at = "columns"
    BY <1>3 DEF ReadColumns, At
  <2>2. migrates \in BOOLEAN /\ ("event_id" \in db.cols) \in BOOLEAN
    OBVIOUS
  <2>3. alters \subseteq Left \cup Added /\ alters \in SUBSET Columns
    BY ColumnsApart
  <2>4. db.conns # "missing" /\ ("event_id" \in db.cols \/ Added \subseteq db.cols)
    BY <1>1, <2>1 DEF InStage, Whole
  <2>5. migrates <=> "event_id" \in db.cols
    BY <2>4, ColumnsApart
  <2>6. /\ ~migrates => alters \subseteq Left
        /\ migrates => Added \subseteq db.cols \cup alters
        /\ db.cols \cap Left \subseteq alters
        /\ \A c \in alters : c \in Left <=> c \in db.cols
    BY ColumnsApart
  <2> HIDE DEF migrates, alters
  <2>7. /\ o2 \in Opening /\ o2.at = "alter" /\ o2.alters = alters /\ o2.migrates = migrates
        /\ o2.drops = ("event_id" \in db.cols) /\ o2.lone = o.lone
    <3> DEFINE gone == "event_id" \in db.cols
               r == [o EXCEPT !.at = "alter", !.migrates = migrates, !.drops = gone,
                              !.alters = alters]
    <3>1. gone \in BOOLEAN /\ o2 = r
      OBVIOUS
    <3> HIDE DEF gone
    <3>2. /\ r \in Opening /\ r.at = "alter" /\ r.alters = alters /\ r.migrates = migrates
          /\ r.drops = gone /\ r.lone = o.lone
      BY <1>1, <2>2, <2>3, <3>1 DEF Opening, Stages
    <3> HIDE DEF r, o2
    <3> QED  BY <3>1, <3>2, Zenon DEF gone
  <2> HIDE DEF o2
  <2>8. InStage(o2, db)
    BY <2>3, <2>4, <2>5, <2>6, <2>7 DEF InStage, Widened, Rebuilt
  <2>9. AsRead(o2, db)
    BY <2>5, <2>6, <2>7 DEF AsRead
  <2>10. Busy(p)
    BY <2>1 DEF Busy
  <2>11. Moves(p, o2)
    BY <1>2, <2>1, <2>7, <2>10 DEF Moves, Rebuilt
  <2> QED  BY <1>2, <2>7, <2>8, <2>9, <2>11, Looks, Zenon
<1>4. CASE ReadAgain(p)
  <2> DEFINE alters == Second \ db.cols
             o2 == [o EXCEPT !.at = "widen", !.alters = alters]
  <2>1. opening' = [opening EXCEPT ![p] = o2] /\ o.at = "columns again"
    BY <1>4 DEF ReadAgain, At
  <2>3. /\ alters \subseteq Second /\ Second \subseteq db.cols \cup alters
        /\ \A c \in alters : c \notin db.cols
        /\ alters \in SUBSET Columns
    BY ColumnsApart
  <2> HIDE DEF alters
  <2>7. o2 \in Opening /\ o2.at = "widen" /\ o2.alters = alters /\ o2.lone = o.lone
    BY <1>1, <2>3 DEF Opening, Stages
  <2>8. /\ db.conns # "missing" /\ db.cols \cap Left = {} /\ Added \subseteq db.cols
        /\ "event_id" \notin db.cols
    BY <1>1, <2>1 DEF InStage
  <2> HIDE DEF o2, db
  <2>9. InStage(o2, db) /\ AsRead(o2, db)
    BY <2>3, <2>7, <2>8 DEF InStage, Widened, Rebuilt, AsRead
  <2>10. Busy(p)
    BY <2>1 DEF Busy
  <2>11. Moves(p, o2)
    BY <1>2, <2>1, <2>7, <2>10 DEF Moves, Rebuilt
  <2> QED  BY <1>2, <2>7, <2>9, <2>11, Looks, Zenon DEF db
<1> QED  BY <1>3, <1>4

\* The ways from one step to the next, those around the spare table apart.
Way(p, to) ==
    /\ Goes(p, to) /\ Quiet /\ Busy(p) /\ opening[p].at \notin {"copy", "swap"}
    /\ to \notin {"off", "raised", "copy", "swap"}
    /\ opening[p].at \in Rebuilt => to \in Rebuilt
    /\ writer' = p => to # "ready"
\* The rows of the connections are left alone.
SameRows(v, new) ==
    /\ (new.spare <=> v.spare) /\ new.copy = v.copy /\ new.rows = v.rows
    /\ new.conns = v.conns

LEMMA WayMoves ==
    ASSUME SchemaInv, NEW p \in Starters, NEW to \in Stages, Way(p, to),
           NEW new \in Database, Outcome(p, new), Whole(new), Later(View(p), new),
           SameRows(View(p), new), InStage([opening[p] EXCEPT !.at = to], new),
           opening[p].lone => AsRead([opening[p] EXCEPT !.at = to], new)
    PROVE  SchemaInv'
<1> DEFINE o2 == [opening[p] EXCEPT !.at = to]
<1>1. o2 \in Opening /\ o2.at = to /\ (o2.lone <=> opening[p].lone)
  <2>1. opening[p] \in Opening
    BY ViewsAre
  <2> QED  BY <2>1, MovesKeep, Zenon
<1>2. opening' = [opening EXCEPT ![p] = o2]
  BY DEF Way, Goes
<1>3. InStage(o2, new) /\ (o2.lone => AsRead(o2, new))
  BY <1>1, Zenon
<1> HIDE DEF o2
<1>4. Moves(p, o2)
  BY <1>1, <1>2, Zenon DEF Way, Moves
<1>5. Leaves(p, o2, new)
  BY <1>3, Zenon DEF Leaves, SameRows
<1> QED  BY <1>1, <1>4, <1>5, RunGoesOn, Zenon

\* A run that ends, by an error or with its connection.
Ends(p, o2) ==
    /\ opening' = [opening EXCEPT ![p] = o2] /\ o2.at \in {"off", "raised"}
    /\ writer' = (IF writer = p THEN NoStarter ELSE writer)
    /\ work' = (IF writer = p THEN file ELSE work)
    /\ UNCHANGED file /\ Quiet

LEMMA EndKeepsSchema ==
    ASSUME SchemaInv, NEW p \in Starters, NEW o2 \in Opening, Ends(p, o2),
           o2.at = "raised" /\ o2.lone => file.spare /\ opening[p].lone /\ Busy(p)
    PROVE  SchemaInv'
<1> USE SchemaConstants DEF Ends
<1>0. /\ file \in Database /\ work \in Database /\ Whole(file) /\ Whole(work)
      /\ Later(file, work) /\ (writer = NoStarter => work = file) /\ Later(file, file)
      /\ p # NoStarter /\ NoStarter \notin Starters
  BY LaterIsOrder DEF SchemaInv, FilesAreWhole
<1>1. /\ opening'[p] = o2 /\ opening' \in [Starters -> Opening]
      /\ \A q \in Starters \ {p} : opening'[q] = opening[q]
  BY DEF SchemaInv, SchemaTypeOK
<1>2. UNCHANGED <<starts, stored, outpaced, file>>
  BY DEF Quiet
<1>3. \A q \in Starters \ {p} : View(q)' = View(q)
  BY <1>0 DEF View
<1>4. View(p)' = file
  BY <1>0 DEF View
<1>5. SchemaTypeOK'
  <2>1. outpaced' \in BOOLEAN
    BY <1>2, Zenon DEF SchemaInv, SchemaTypeOK
  <2> QED  BY <1>0, <1>1, <1>2, <2>1 DEF SchemaInv, SchemaTypeOK
<1>6. FilesAreWhole'
  BY <1>0 DEF FilesAreWhole
<1>7. RowsAreHeld'
  <2>1. Holds(file)' <=> Holds(file)
    BY <1>2, Zenon DEF Holds, Keyed
  <2>2. work' \in {work, file}
    OBVIOUS
  <2>3. (work' = work => (Holds(work)' <=> Holds(work))) /\ (work' = file => (Holds(work)' <=> Holds(file)))
    BY <1>2, Zenon DEF Holds, Keyed
  <2>4. ~outpaced' => Holds(file)' /\ Holds(work)'
    <3>1. ~outpaced => Holds(file) /\ Holds(work)
      BY Zenon DEF SchemaInv, RowsAreHeld
    <3> QED  BY <1>2, <2>1, <2>2, <2>3, <3>1
  <2>5. (file.conns # "by account" => stored \subseteq {[owner |-> "legacy", source |-> "fathom"]})'
    BY <1>2, Zenon DEF SchemaInv, RowsAreHeld
  <2> QED  BY <2>4, <2>5, Zenon DEF RowsAreHeld
<1>8. SpareIsOwn'
  <2>0. /\ file.copy = {} /\ (work.copy # {} => \E q \in Starters : At(q, "swap"))
        /\ \A q \in Starters :
              /\ writer = q => Busy(q)
              /\ writer = q /\ opening[q].at \notin Rebuilt \cup {"copy", "swap"} =>
                     (work.spare <=> file.spare)
              /\ At(q, "swap") => /\ writer = q
                                  /\ ~outpaced => /\ work.conns # "by account"
                                                  /\ stored \subseteq work.copy
    BY Zenon DEF SchemaInv, SpareIsOwn
  <2>1. work'.copy # {} => \E q \in Starters : At(q, "swap")'
    <3>1. ASSUME work'.copy # {} PROVE \E q \in Starters : At(q, "swap")'
      <4>1. work' = work /\ writer # p
        BY <2>0, <3>1
      <4>2. PICK q \in Starters : At(q, "swap") /\ writer = q
        BY <2>0, <3>1, <4>1
      <4>3. q # p /\ opening'[q] = opening[q]
        BY <1>1, <4>1, <4>2
      <4> QED  BY <4>2, <4>3 DEF At
    <3> QED  BY <3>1
  <2>2. ASSUME NEW q \in Starters
        PROVE  (/\ writer = q => Busy(q)
                /\ writer = q /\ opening[q].at \notin Rebuilt \cup {"copy", "swap"} =>
                       (work.spare <=> file.spare)
                /\ At(q, "swap") => /\ writer = q
                                    /\ ~outpaced => /\ work.conns # "by account"
                                                    /\ stored \subseteq work.copy)'
    <3>1. CASE q # p
      <4>1. opening'[q] = opening[q]
        BY <1>1, <3>1
      <4>2. CASE writer = p
        <5>1. writer' # q /\ ~At(q, "swap")
          BY <1>0, <2>0, <3>1, <4>2
        <5> QED  BY <4>1, <5>1 DEF At
      <4>3. CASE writer # p
        <5>1. writer' = writer /\ work' = work
          BY <4>3
        <5>2. /\ (Busy(q)' <=> Busy(q)) /\ (At(q, "swap")' <=> At(q, "swap"))
          BY <4>1 DEF Busy, At
        <5> QED  BY <1>2, <2>0, <4>1, <5>1, <5>2
      <4> QED  BY <4>2, <4>3
    <3>2. CASE q = p
      BY <1>0, <1>1, <3>2 DEF At
    <3> QED  BY <3>1, <3>2
  <2> QED  BY <1>2, <2>0, <2>1, <2>2, Zenon DEF SpareIsOwn
<1>9. StagesHold'
  <2> SUFFICES ASSUME NEW q \in Starters PROVE InStage(opening'[q], View(q)')
    BY Zenon DEF StagesHold
  <2>1. CASE q # p
    BY <1>1, <1>3, <2>1, ViewsAre
  <2>2. CASE q = p
    BY <1>1, <2>2 DEF InStage, Widened, Rebuilt
  <2> QED  BY <2>1, <2>2
<1>10. LoneIsAlone'
  <2> SUFFICES ASSUME NEW q \in Starters, opening'[q].lone
               PROVE  /\ Busy(q)' => /\ AsRead(opening'[q], View(q)')
                                     /\ \A r \in Starters \ {q} : ~Busy(r)'
                      /\ At(q, "raised")' => file'.spare /\ work'.spare /\ NobodyCopies'
    BY Zenon DEF LoneIsAlone
  <2>0. \A r \in Starters : /\ r # p => (Busy(r)' <=> Busy(r))
                            /\ ~Busy(p)'
    BY <1>1 DEF Busy
  <2>1. CASE q # p
    <3>1. opening'[q] = opening[q] /\ opening[q].lone
      BY <1>1, <2>1
    <3>2. ASSUME Busy(q)'
          PROVE  AsRead(opening'[q], View(q)') /\ \A r \in Starters \ {q} : ~Busy(r)'
      <4>1. Busy(q)
        BY <2>0, <2>1, <3>2
      <4>2. AsRead(opening[q], View(q)) /\ \A r \in Starters \ {q} : ~Busy(r)
        BY <3>1, <4>1, Zenon DEF SchemaInv, LoneIsAlone
      <4> QED  BY <1>3, <2>0, <2>1, <3>1, <4>2
    <3>3. ASSUME At(q, "raised")' PROVE file'.spare /\ work'.spare /\ NobodyCopies'
      <4>1. file.spare /\ work.spare /\ NobodyCopies
        BY <3>1, <3>3, Zenon DEF SchemaInv, LoneIsAlone, At
      <4>2. NobodyCopies'
        BY <1>1, <4>1 DEF NobodyCopies, At
      <4>3. work' \in {work, file}
        OBVIOUS
      <4> QED  BY <1>2, <4>1, <4>2, <4>3
    <3> QED  BY <3>2, <3>3
  <2>2. CASE q = p
    <3>1. ASSUME At(p, "raised")' PROVE file'.spare /\ work'.spare /\ NobodyCopies'
      <4>1. file.spare /\ opening[p].lone /\ Busy(p)
        BY <1>1, <2>2, <3>1, Zenon DEF At
      <4>2. \A r \in Starters \ {p} : ~Busy(r)
        BY <4>1, Zenon DEF SchemaInv, LoneIsAlone
      <4>3. \A r \in Starters : opening'[r].at \notin {"copy", "swap"}
        BY <1>1, <4>2 DEF Busy
      <4>4. NobodyCopies'
        BY <4>3 DEF NobodyCopies, At
      <4>5. writer \in Starters => Busy(writer)
        BY Zenon DEF SchemaInv, SpareIsOwn
      <4>6. writer \in {p, NoStarter}
        BY <4>2, <4>5 DEF SchemaInv, SchemaTypeOK
      <4>7. work' = file
        BY <1>0, <4>6
      <4> QED  BY <1>2, <4>1, <4>4, <4>7
    <3> QED  BY <2>0, <2>2, <3>1
  <2> QED  BY <2>1, <2>2
<1> QED  BY <1>5, <1>6, <1>7, <1>8, <1>9, <1>10, Zenon DEF SchemaInv

LEMMA RaiseKeepsSchema ==
    ASSUME SchemaInv, NEW p \in Starters, Raises(p), Quiet, Busy(p), opening[p].lone => file.spare
    PROVE  SchemaInv'
<1> DEFINE o2 == [opening[p] EXCEPT !.at = "raised"]
<1>1. o2 \in Opening /\ o2.at = "raised" /\ (o2.lone <=> opening[p].lone)
  <2>1. opening[p] \in Opening /\ "raised" \in Stages
    BY ViewsAre DEF Stages
  <2> QED  BY <2>1, MovesKeep, Zenon
<1>2. opening' = [opening EXCEPT ![p] = o2]
  BY DEF Raises, Goes
<1> HIDE DEF o2
<1>3. Ends(p, o2)
  BY <1>1, <1>2 DEF Ends, Raises
<1> QED  BY <1>1, <1>3, EndKeepsSchema, Zenon

LEMMA ClosesKeepsSchema ==
    ASSUME SchemaInv, NEW p \in Starters, Closes(p) PROVE SchemaInv'
<1>1. Off \in Opening /\ Off.at = "off"
  BY DEF Off, Opening, Stages
<1>2. Ends(p, Off)
  BY <1>1 DEF Ends, Closes
<1> QED  BY <1>1, <1>2, EndKeepsSchema

\* A step that leaves the database as it is.
LEMMA Passes ==
    ASSUME SchemaInv, NEW p \in Starters, NEW to \in Stages, Way(p, to),
           Outcome(p, View(p)), InStage([opening[p] EXCEPT !.at = to], View(p)),
           opening[p].lone => AsRead([opening[p] EXCEPT !.at = to], View(p))
    PROVE  SchemaInv'
<1>1. View(p) \in Database /\ Whole(View(p)) /\ Later(View(p), View(p))
  BY ViewsAre, LaterIsOrder
<1>2. SameRows(View(p), View(p))
  BY Zenon DEF SameRows
<1> QED  BY <1>1, <1>2, WayMoves, Zenon

\* What a step that is not an ALTER reads of a run.
LEMMA Marks ==
    ASSUME SchemaInv, NEW p \in Starters, NEW to \in Stages
    PROVE  /\ [opening[p] EXCEPT !.at = to].at = to
           /\ [opening[p] EXCEPT !.at = to].alters = opening[p].alters
           /\ [opening[p] EXCEPT !.at = to].conns = opening[p].conns
           /\ [opening[p] EXCEPT !.at = to].migrates = opening[p].migrates
           /\ [opening[p] EXCEPT !.at = to].drops = opening[p].drops
           /\ [opening[p] EXCEPT !.at = to].orphans = opening[p].orphans
           /\ [opening[p] EXCEPT !.at = to].cursor = opening[p].cursor
           /\ [opening[p] EXCEPT !.at = to].lone = opening[p].lone
BY ViewsAre, MovesKeep, Zenon

LEMMA AlteredKeepsSchema ==
    ASSUME SchemaInv, NEW p \in Starters, Altered(p) PROVE SchemaInv'
<1> DEFINE o == opening[p]
           db == View(p)
<1>1. o \in Opening /\ db \in Database /\ InStage(o, db) /\ Outcome(p, View(p))
  BY ViewsAre, OutcomesAre DEF Altered
<1>2. ASSUME NEW to \in {"backfill", "columns again", "look"}, Goes(p, to),
             \/ o.at = "alter" /\ to = (IF o.migrates THEN "backfill" ELSE "columns again")
             \/ o.at = "widen" /\ to = "look"
      PROVE  SchemaInv'
  <2> DEFINE o2 == [opening[p] EXCEPT !.at = to]
  <2>1. to \in Stages
    BY DEF Stages
  <2>2. Way(p, to)
    BY <1>2, <1>1 DEF Way, Altered, Busy, Rebuilt
  <2>3. o2.at = to /\ o2.migrates = o.migrates /\ o2.drops = o.drops
    BY <2>1, Marks, Zenon
  <2>4. o.lone => AsRead(o, db)
    BY <2>2, LoneHasRead DEF Way
  <2>5. o.alters = {}
    BY DEF Altered
  <2> HIDE DEF o2
  <2>6. CASE o.at = "alter"
    <3>1. /\ db.cols \cap Left = {} /\ db.conns # "missing" /\ (o.migrates <=> o.drops)
          /\ (~o.drops => "event_id" \notin db.cols)
      BY <1>1, <2>5, <2>6 DEF InStage
    <3>2. Added \subseteq db.cols
      <4>1. CASE o.migrates
        BY <1>1, <2>5, <2>6, <4>1 DEF InStage
      <4>2. CASE ~o.migrates
        BY <3>1, <4>2, ViewsAre DEF Whole
      <4> QED  BY <4>1, <4>2, Zenon
    <3>3. CASE o.migrates
      <4>1. to = "backfill" /\ o.drops
        BY <1>2, <2>6, <3>1, <3>3
      <4>2. InStage(o2, db)
        BY <2>3, <3>1, <3>2, <3>3, <4>1 DEF InStage, Widened, Rebuilt
      <4>3. o.lone => AsRead(o2, db)
        BY <2>3, <2>4, <2>6, <4>1 DEF AsRead
      <4> QED  BY <1>1, <2>1, <2>2, <4>2, <4>3, Passes, Zenon DEF o2, db
    <3>4. CASE ~o.migrates
      <4>1. to = "columns again" /\ ~o.drops
        BY <1>2, <2>6, <3>1, <3>4
      <4>2. InStage(o2, db)
        BY <2>3, <3>1, <3>2, <3>4, <4>1 DEF InStage, Widened, Rebuilt
      <4>3. o.lone => AsRead(o2, db)
        BY <2>3, <4>1 DEF AsRead
      <4> QED  BY <1>1, <2>1, <2>2, <4>2, <4>3, Passes, Zenon DEF o2, db
    <3> QED  BY <3>3, <3>4, Zenon
  <2>7. CASE o.at = "widen"
    <3>1. to = "look"
      BY <1>2, <2>7
    <3>2. db.cols = Current /\ db.conns # "missing"
      <4>1. /\ db.cols \cap Left = {} /\ Added \subseteq db.cols /\ "event_id" \notin db.cols
            /\ Second \subseteq db.cols \cup o.alters /\ db.conns # "missing"
        BY <1>1, <2>7 DEF InStage
      <4>2. db.cols \subseteq Columns
        BY <1>1 DEF Database
      <4> HIDE DEF db
      <4>3. Second \subseteq db.cols
        BY <2>5, <4>1
      <4> QED  BY <4>1, <4>2, <4>3, ColumnsApart
    <3>3. InStage(o2, db) /\ AsRead(o2, db)
      BY <2>3, <3>1, <3>2 DEF InStage, AsRead, Widened, Rebuilt
    <3> QED  BY <1>1, <2>1, <2>2, <3>3, Passes, Zenon DEF o2, db
  <2> QED  BY <1>2, <2>6, <2>7
<1>3. CASE At(p, "alter") /\ Goes(p, IF opening[p].migrates THEN "backfill" ELSE "columns again")
  BY <1>2, <1>3 DEF At
<1>4. CASE At(p, "widen") /\ Goes(p, "look")
  BY <1>2, <1>4 DEF At
<1> QED  BY <1>3, <1>4 DEF Altered

LEMMA LookKeepsSchema ==
    ASSUME SchemaInv, NEW p \in Starters, Look(p) PROVE SchemaInv'
<1> DEFINE o == opening[p]
           db == View(p)
           orphans == db.todo /\ db.owner = "nobody"
           left == (db.state = 1)
           to == IF orphans \/ left \/ (db.conns = "by source" /\ db.rows # {})
                 THEN "user" ELSE IF db.conns # "by account" THEN "create" ELSE "owners"
           o2 == [o EXCEPT !.conns = db.conns, !.orphans = orphans, !.cursor = left, !.at = to]
<1>1. o \in Opening /\ db \in Database /\ InStage(o, db) /\ Outcome(p, View(p)) /\ Quiet
  BY ViewsAre, OutcomesAre DEF Look
<1>2. o.at = "look"
  BY DEF Look, At
<1>3. db.cols = Current /\ db.conns # "missing"
  BY <1>1, <1>2 DEF InStage, Widened
<1>4. opening' = [opening EXCEPT ![p] = o2]
  BY <1>1 DEF Look, Narrow, Opening
<1>5. orphans \in BOOLEAN /\ left \in BOOLEAN /\ to \in {"user", "create", "owners"}
      /\ db.conns \in {"by source", "by user", "by account"}
  BY <1>1, <1>3 DEF Database
<1>6. /\ ~left => db.state = 0
      /\ ~orphans /\ db.todo => db.owner # "nobody"
      /\ to = "create" => db.conns # "by account"
      /\ to = "owners" => db.conns = "by account"
  <2>0. db.state \in 0 .. 1
    BY <1>1 DEF Database
  <2> HIDE DEF db
  <2>1. ~left => db.state = 0
    <3>1. db.state = 1 \/ db.state = 0
      BY <2>0
    <3> QED  BY <3>1, Zenon
  <2>2. ~orphans /\ db.todo => db.owner # "nobody"
    BY Zenon
  <2> HIDE DEF orphans, left
  <2>3. /\ to = "create" => db.conns # "by account"
        /\ to = "owners" => db.conns = "by account"
    OBVIOUS
  <2> QED  BY <2>1, <2>2, <2>3, Zenon
<1> HIDE DEF orphans, left, to
<1>7. /\ o2 \in Opening /\ o2.at = to /\ o2.conns = db.conns /\ (o2.orphans <=> orphans)
      /\ (o2.cursor <=> left) /\ (o2.lone <=> o.lone)
  <2> DEFINE r == [o EXCEPT !.conns = db.conns, !.orphans = orphans, !.cursor = left, !.at = to]
  <2>1. to \in Stages
    BY <1>5 DEF Stages
  <2>2. /\ r \in Opening /\ r.at = to /\ r.conns = db.conns /\ r.orphans = orphans
        /\ r.cursor = left /\ r.lone = o.lone
    BY <1>1, <1>5, <2>1 DEF Opening
  <2> HIDE DEF r, o2
  <2>3. o2 = r
    BY DEF o2, r
  <2> QED  BY <2>2, <2>3, Zenon
<1> HIDE DEF o2
<1>8. InStage(o2, db)
  <2>1. o2.at \in {"user", "create", "owners"}
    BY <1>5, <1>7
  <2>2. db.cols = Current /\ db.conns # "missing"
    BY <1>3
  <2>3. /\ ~o2.cursor => db.state = 0
        /\ ~o2.orphans /\ db.todo => db.owner # "nobody"
        /\ db.conns \in {o2.conns, "by account"}
    BY <1>6, <1>7
  <2>4. (o2.at = "create" => Narrow(o2)) /\ (o2.at = "owners" => db.conns = "by account")
    BY <1>6, <1>7 DEF Narrow
  <2> QED  BY <2>1, <2>2, <2>3, <2>4 DEF InStage, Widened, Rebuilt
<1>9. AsRead(o2, db)
  BY <1>5, <1>7 DEF AsRead
<1>10. Moves(p, o2)
  BY <1>1, <1>2, <1>4, <1>5, <1>7 DEF Moves, Busy, Rebuilt
<1> QED  BY <1>1, <1>7, <1>8, <1>9, <1>10, Looks, Zenon DEF db

LEMMA UserKeepsSchema ==
    ASSUME SchemaInv, NEW p \in Starters, UpsertUser(p) PROVE SchemaInv'
<1> DEFINE o == opening[p]
           db == View(p)
           to == IF o.conns # "by account" THEN "create" ELSE "owners"
           o2 == [opening[p] EXCEPT !.at = to]
<1>1. o \in Opening /\ db \in Database /\ InStage(o, db) /\ Outcome(p, View(p))
  BY ViewsAre, OutcomesAre DEF UpsertUser
<1>2. o.at = "user" /\ Goes(p, to) /\ Quiet
  BY DEF UpsertUser, At, Narrow
<1>3. to \in {"create", "owners"} /\ to \in Stages
  BY DEF Stages
<1>4. (to = "create" => o.conns # "by account") /\ (to = "owners" => o.conns = "by account")
  OBVIOUS
<1> HIDE DEF to
<1>5. Way(p, to)
  BY <1>2, <1>3 DEF Way, Busy, Rebuilt
<1>6. /\ o2.at = to /\ o2.conns = o.conns /\ o2.orphans = o.orphans /\ o2.cursor = o.cursor
  BY <1>3, Marks, Zenon
<1>7. o.lone => AsRead(o, db)
  BY <1>5, LoneHasRead DEF Way
<1> HIDE DEF o2
<1>8. /\ db.cols = Current /\ db.conns # "missing"
      /\ (~o.cursor => db.state = 0)
      /\ (~o.orphans /\ db.todo => db.owner # "nobody")
      /\ db.conns \in {o.conns, "by account"}
  BY <1>1, <1>2 DEF InStage, Widened
<1>9. InStage(o2, db)
  BY <1>3, <1>4, <1>6, <1>8 DEF InStage, Widened, Rebuilt, Narrow
<1>10. o.lone => AsRead(o2, db)
  BY <1>2, <1>3, <1>6, <1>7 DEF AsRead
<1> QED  BY <1>1, <1>3, <1>5, <1>9, <1>10, Passes, Zenon DEF o2, db

\* A todo with its message: the columns, or the todo itself.
LEMMA KeysKeepSchema ==
    ASSUME SchemaInv, NEW p \in Starters, KeyTodos(p) PROVE SchemaInv'
<1> DEFINE o == opening[p]
           db == View(p)
           o2 == [opening[p] EXCEPT !.at = "drop"]
<1>1. o \in Opening /\ db \in Database /\ InStage(o, db) /\ Whole(db) /\ Later(db, db)
  BY ViewsAre, LaterIsOrder
<1>2. o.at = "backfill" /\ Quiet /\ Busy(p)
  BY DEF KeyTodos, At, Busy
<1>3. o.lone => AsRead(o, db)
  BY <1>2, LoneHasRead
<1>4. CASE o.drops /\ "event_id" \notin db.cols /\ Raises(p)
  <2>1. ~o.lone
    BY <1>2, <1>3, <1>4 DEF AsRead
  <2> QED  BY <1>2, <1>4, <2>1, RaiseKeepsSchema
<1>5. CASE /\ o.drops => "event_id" \in db.cols
           /\ Goes(p, "drop")
           /\ IF db.todo THEN Changes(p, [db EXCEPT !.keyed = @ \/ o.drops]) ELSE Idles
  <2>1. "drop" \in Stages
    BY DEF Stages
  <2>2. Way(p, "drop")
    BY <1>2, <1>5 DEF Way, Rebuilt
  <2>3. /\ o2.at = "drop" /\ (o2.migrates <=> o.migrates) /\ (o2.drops <=> o.drops)
    BY <2>1, Marks, Zenon
  <2>4. /\ db.cols \cap Left = {} /\ Added \subseteq db.cols /\ db.conns # "missing"
        /\ (o.migrates <=> o.drops) /\ (~o.drops => "event_id" \notin db.cols)
    BY <1>1, <1>2 DEF InStage
  <2> HIDE DEF o2
  <2>5. ASSUME NEW new, new.cols = db.cols, new.conns = db.conns, new.todo = db.todo,
               o.drops /\ new.todo => new.keyed
        PROVE  InStage(o2, new) /\ (o.lone => AsRead(o2, new))
    <3>1. InStage(o2, new)
      <4>1. o2.drops /\ new.todo => new.keyed
        BY <2>3, <2>5, Zenon
      <4>2. new.cols \cap Left = {} /\ Added \subseteq new.cols /\ new.conns # "missing"
            /\ (o2.migrates <=> o2.drops) /\ (~o2.drops => "event_id" \notin new.cols)
        BY <2>3, <2>4, <2>5, Zenon
      <4> QED  BY <2>3, <4>1, <4>2 DEF InStage, Widened, Rebuilt
    <3>2. o.lone => AsRead(o2, new)
      BY <1>2, <1>3, <2>3, <2>5 DEF AsRead
    <3> QED  BY <3>1, <3>2, Zenon
  <2>6. CASE db.todo
    <3> DEFINE keyed == db.keyed \/ o.drops
               new == [db EXCEPT !.keyed = keyed]
    <3>1. Outcome(p, new)
      <4>1. Changes(p, new)
        BY <1>5, <2>6
      <4> HIDE DEF new
      <4> QED  BY <4>1, OutcomesAre, Zenon
    <3>2. keyed \in BOOLEAN /\ (o.drops => keyed) /\ (db.keyed => keyed)
      BY Zenon
    <3> HIDE DEF keyed
    <3>3. /\ new \in Database /\ new.keyed = keyed /\ new.cols = db.cols /\ new.conns = db.conns
          /\ new.todo = db.todo /\ new.state = db.state /\ new.cursor = db.cursor
          /\ new.owner = db.owner /\ new.check = db.check /\ new.rows = db.rows
          /\ new.spare = db.spare /\ new.copy = db.copy
      BY <1>1, <3>2 DEF Database
    <3> HIDE DEF new, db
    <3>4. Whole(new)
      <4>1. new.todo => "event_id" \in new.cols \/ new.keyed
        BY <1>1, <3>2, <3>3, Zenon DEF Whole
      <4> QED  BY <1>1, <3>3, <4>1, Zenon DEF Whole
    <3>5. Later(db, new)
      <4>1. (db.keyed => new.keyed) /\ new.todo = db.todo
        BY <3>2, <3>3, Zenon
      <4> QED  BY <1>1, <3>3, <4>1, Zenon DEF Later
    <3>6. InStage(o2, new) /\ (o.lone => AsRead(o2, new))
      <4>1. o.drops /\ new.todo => new.keyed
        BY <3>2, <3>3, Zenon
      <4> QED  BY <2>5, <3>3, <4>1, Zenon
    <3>7. SameRows(db, new)
      BY <3>3, Zenon DEF SameRows
    <3> QED  BY <2>1, <2>2, <3>1, <3>3, <3>4, <3>5, <3>6, <3>7, WayMoves, Zenon DEF db, o2
  <2>7. CASE ~db.todo
    <3>1. Outcome(p, View(p))
      BY <1>5, <2>7, OutcomesAre
    <3>2. InStage(o2, db) /\ (o.lone => AsRead(o2, db))
      BY <2>5, <2>7, Zenon
    <3> QED  BY <2>1, <2>2, <3>1, <3>2, Passes, Zenon DEF o2
  <2> QED  BY <2>6, <2>7, Zenon
<1> QED  BY <1>4, <1>5, Zenon DEF KeyTodos

LEMMA DropKeepsSchema ==
    ASSUME SchemaInv, NEW p \in Starters, DropColumns(p) PROVE SchemaInv'
<1> DEFINE o == opening[p]
           db == View(p)
           o2 == [opening[p] EXCEPT !.at = "columns again"]
<1>1. o \in Opening /\ db \in Database /\ InStage(o, db) /\ Whole(db) /\ Later(db, db)
  BY ViewsAre, LaterIsOrder
<1>2. o.at = "drop" /\ Quiet /\ Busy(p)
  BY DEF DropColumns, At, Busy
<1>3. CASE o.drops /\ "event_id" \notin db.cols /\ Raises(p)
  <2>1. ~o.lone
    BY <1>2, <1>3, LoneHasRead DEF AsRead
  <2> QED  BY <1>2, <1>3, <2>1, RaiseKeepsSchema
<1>4. ASSUME Goes(p, "columns again"), NEW new \in Database, Outcome(p, new), Whole(new),
             Later(db, new), SameRows(db, new), "event_id" \notin new.cols,
             new.cols \cap Left = {}, Added \subseteq new.cols, new.conns # "missing"
      PROVE  SchemaInv'
  <2>1. "columns again" \in Stages
    BY DEF Stages
  <2>2. Way(p, "columns again")
    BY <1>2, <1>4 DEF Way, Rebuilt
  <2>3. o2.at = "columns again"
    BY <2>1, Marks, Zenon
  <2> HIDE DEF o2
  <2>4. InStage(o2, new) /\ AsRead(o2, new)
    BY <1>4, <2>3 DEF InStage, AsRead, Widened, Rebuilt
  <2> QED  BY <1>4, <2>1, <2>2, <2>4, WayMoves, Zenon DEF o2, db
<1>5. /\ db.cols \cap Left = {} /\ Added \subseteq db.cols /\ db.conns # "missing"
      /\ (~o.drops => "event_id" \notin db.cols)
  BY <1>1, <1>2 DEF InStage
<1>6. CASE ~o.drops /\ Idles /\ Goes(p, "columns again")
  <2>1. Outcome(p, db) /\ SameRows(db, db)
    BY <1>6, OutcomesAre, Zenon DEF SameRows
  <2> HIDE DEF db
  <2> QED  BY <1>1, <1>4, <1>5, <1>6, <2>1, Zenon
<1>7. CASE /\ o.drops /\ "event_id" \in db.cols /\ Goes(p, "columns again")
           /\ Alters(p, [db EXCEPT !.cols = @ \ {"event_id"}])
  <2> DEFINE cols == db.cols \ {"event_id"}
             new == [db EXCEPT !.cols = cols]
  <2>1. Outcome(p, new)
    BY <1>7, OutcomesAre
  <2>2. /\ cols \in SUBSET Columns /\ cols \cap Left = {} /\ Added \subseteq cols
        /\ "event_id" \notin cols /\ db.cols \cap Current \subseteq cols
        /\ cols \subseteq db.cols \cup Current
    BY <1>1, <1>5, ColumnsApart DEF Database
  <2>3. db.todo => db.keyed
    <3>1. o.drops /\ db.todo => db.keyed
      BY <1>1, <1>2 DEF InStage
    <3> QED  BY <1>7, <3>1, Zenon
  <2> HIDE DEF cols, db
  <2>4. /\ new \in Database /\ new.keyed = db.keyed /\ new.cols = cols /\ new.conns = db.conns
        /\ new.todo = db.todo /\ new.state = db.state /\ new.cursor = db.cursor
        /\ new.owner = db.owner /\ new.check = db.check /\ new.rows = db.rows
        /\ new.spare = db.spare /\ new.copy = db.copy
    BY <1>1, <2>2 DEF Database
  <2> HIDE DEF new
  <2>5. Whole(new)
    BY <1>1, <2>2, <2>3, <2>4, Zenon DEF Whole
  <2>6. Later(db, new)
    BY <1>1, <2>2, <2>4, Zenon DEF Later
  <2>7. SameRows(db, new)
    BY <2>4, Zenon DEF SameRows
  <2> QED  BY <1>4, <1>5, <1>7, <2>1, <2>2, <2>4, <2>5, <2>6, <2>7, Zenon
<1> QED  BY <1>3, <1>6, <1>7, Zenon DEF DropColumns

\* The last steps: the table of connections is renewed and the columns are there.
LateSteps == Rebuilt \ {"ready"}
LEMMA LateKeepsSchema ==
    ASSUME SchemaInv, NEW p \in Starters, opening[p].at \in LateSteps, NEW to \in Rebuilt,
           Goes(p, to), Quiet, writer' = p => to # "ready",
           NEW new \in Database, Outcome(p, new), Whole(new), Later(View(p), new),
           SameRows(View(p), new), new.cols = Current,
           to # "owners", new.todo => new.owner # "nobody",
           to # "cursors" => new.state = 0, to \in {"finish", "ready"} => new.check # "stale"
    PROVE  SchemaInv'
<1> DEFINE o == opening[p]
           o2 == [opening[p] EXCEPT !.at = to]
<1>1. o \in Opening /\ View(p) \in Database /\ InStage(o, View(p))
  BY ViewsAre
<1>2. /\ to \in Stages /\ to \in Widened \ {"look"}
      /\ to \notin {"off", "raised", "copy", "swap", "create", "alter", "backfill", "drop",
                   "columns again", "widen", "tables", "user"}
  BY DEF Stages, Rebuilt, Widened
<1>3. Way(p, to)
  BY <1>2 DEF Way, Busy, LateSteps, Rebuilt
<1>4. o2.at = to /\ o2.conns = o.conns /\ o2.orphans = o.orphans /\ o2.cursor = o.cursor
  BY <1>2, Marks, Zenon
<1>5. o.at \in Widened \ {"look"} /\ o.at \in Rebuilt
  BY DEF LateSteps, Rebuilt, Widened
<1>6. /\ (~o.cursor => View(p).state = 0) /\ View(p).conns = "by account"
  BY <1>1, <1>5 DEF InStage
<1>7. (View(p).state = 0 => new.state = 0) /\ new.conns = "by account"
  BY <1>6 DEF Later, SameRows
<1> HIDE DEF o2
<1>8. InStage(o2, new)
  <2>1. ~o2.cursor => new.state = 0
    BY <1>4, <1>6, <1>7, Zenon
  <2>2. ~o2.orphans /\ new.todo => new.owner # "nobody"
    BY Zenon
  <2> QED  BY <1>2, <1>4, <1>7, <2>1, <2>2 DEF InStage
<1>9. AsRead(o2, new)
  BY <1>2, <1>4 DEF AsRead
<1> QED  BY <1>2, <1>3, <1>8, <1>9, WayMoves, Zenon DEF o2

\* What a late step sees.
LEMMA LateSees ==
    ASSUME SchemaInv, NEW p \in Starters, opening[p].at \in LateSteps
    PROVE  /\ View(p) \in Database /\ Whole(View(p)) /\ Later(View(p), View(p))
           /\ SameRows(View(p), View(p)) /\ View(p).cols = Current
           /\ (~opening[p].cursor => View(p).state = 0)
           /\ (~opening[p].orphans /\ View(p).todo => View(p).owner # "nobody")
           /\ (~At(p, "owners") /\ View(p).todo => View(p).owner # "nobody")
           /\ (opening[p].at \notin {"owners", "cursors"} => View(p).state = 0)
           /\ (At(p, "finish") => View(p).check # "stale")
<1>1. /\ View(p) \in Database /\ Whole(View(p)) /\ Later(View(p), View(p))
      /\ SameRows(View(p), View(p)) /\ InStage(opening[p], View(p))
  BY ViewsAre, LaterIsOrder DEF SameRows
<1>2. opening[p].at \in Widened \ {"look"} /\ opening[p].at \in Rebuilt
  BY DEF LateSteps, Rebuilt, Widened
<1>3. View(p).cols = Current /\ (~opening[p].cursor => View(p).state = 0)
      /\ (~opening[p].orphans /\ View(p).todo => View(p).owner # "nobody")
  BY <1>1, <1>2, Zenon DEF InStage
<1>4. ~At(p, "owners") /\ View(p).todo => View(p).owner # "nobody"
  <2>1. ~At(p, "owners") => opening[p].at \in Rebuilt \ {"owners"}
    BY <1>2 DEF At
  <2> QED  BY <1>1, <2>1, Zenon DEF InStage
<1>5. opening[p].at \notin {"owners", "cursors"} => View(p).state = 0
  BY <1>1, <1>2 DEF InStage
<1>6. At(p, "finish") => View(p).check # "stale"
  BY <1>1 DEF InStage, At
<1> QED  BY <1>1, <1>3, <1>4, <1>5, <1>6, Zenon

LEMMA OwnersKeepSchema ==
    ASSUME SchemaInv, NEW p \in Starters, OwnTodos(p) PROVE SchemaInv'
<1> DEFINE db == View(p)
           owner == IF db.owner = "nobody" THEN "legacy" ELSE db.owner
           new == [db EXCEPT !.owner = owner]
<1>1. opening[p].at = "owners" /\ Goes(p, "cursors") /\ Quiet
  BY DEF OwnTodos, At
<1>2. opening[p].at \in LateSteps /\ "cursors" \in Rebuilt
  BY <1>1 DEF LateSteps, Rebuilt
<1>3. /\ db \in Database /\ Whole(db) /\ Later(db, db) /\ SameRows(db, db) /\ db.cols = Current
      /\ (~opening[p].orphans /\ db.todo => db.owner # "nobody")
  BY <1>2, LateSees
<1>4. CASE ~opening[p].orphans
  <2>1. Outcome(p, db)
    BY <1>4, OutcomesAre DEF OwnTodos
  <2>2. db.todo => db.owner # "nobody"
    BY <1>3, <1>4, Zenon
  <2> HIDE DEF db
  <2> QED  BY <1>1, <1>2, <1>3, <2>1, <2>2, LateKeepsSchema DEF db
<1>5. CASE opening[p].orphans
  <2>1. Outcome(p, new)
    <3>1. Changes(p, new)
      BY <1>5 DEF OwnTodos
    <3> HIDE DEF new
    <3> QED  BY <3>1, OutcomesAre, Zenon
  <2>2. owner \in Owners \cup {"nobody"} /\ owner # "nobody"
    BY <1>3 DEF Database, Owners
  <2> HIDE DEF owner, db
  <2>3. /\ new \in Database /\ new.keyed = db.keyed /\ new.cols = db.cols /\ new.conns = db.conns
        /\ new.todo = db.todo /\ new.state = db.state /\ new.cursor = db.cursor
        /\ new.owner = owner /\ new.check = db.check /\ new.rows = db.rows
        /\ new.spare = db.spare /\ new.copy = db.copy
    BY <1>3, <2>2 DEF Database
  <2> HIDE DEF new
  <2>4. Whole(new)
    BY <1>3, <2>3, Zenon DEF Whole
  <2>5. Later(db, new)
    BY <1>3, <2>2, <2>3, Zenon DEF Later
  <2>6. SameRows(db, new)
    BY <2>3, Zenon DEF SameRows
  <2>7. new.todo => new.owner # "nobody"
    BY <2>2, <2>3
  <2> QED
    BY <1>1, <1>2, <1>3, <2>1, <2>3, <2>4, <2>5, <2>6, <2>7, LateKeepsSchema DEF db
<1> QED  BY <1>4, <1>5, Zenon

LEMMA CursorsKeepSchema ==
    ASSUME SchemaInv, NEW p \in Starters, MoveCursors(p) PROVE SchemaInv'
<1> DEFINE db == View(p)
           new == [db EXCEPT !.cursor = 1, !.state = 0]
<1>1. opening[p].at = "cursors" /\ Goes(p, "check") /\ Quiet
  BY DEF MoveCursors, At
<1>2. opening[p].at \in LateSteps /\ "check" \in Rebuilt
  BY <1>1 DEF LateSteps, Rebuilt
<1>3. /\ db \in Database /\ Whole(db) /\ Later(db, db) /\ SameRows(db, db) /\ db.cols = Current
      /\ (~opening[p].cursor => db.state = 0)
      /\ (db.todo => db.owner # "nobody")
  BY <1>1, <1>2, LateSees DEF At
<1>4. CASE ~(opening[p].cursor /\ db.state = 1)
  <2>1. Outcome(p, db)
    BY <1>4, OutcomesAre DEF MoveCursors
  <2>2. db.state = 0
    <3>1. db.state \in 0 .. 1
      BY <1>3 DEF Database
    <3> HIDE DEF db
    <3>2. db.state = 0 \/ db.state = 1
      BY <3>1
    <3> QED  BY <1>3, <1>4, <3>2, Zenon
  <2> HIDE DEF db
  <2> QED  BY <1>1, <1>2, <1>3, <2>1, <2>2, LateKeepsSchema DEF db
<1>5. CASE opening[p].cursor /\ db.state = 1
  <2>1. Outcome(p, new)
    <3>1. Changes(p, new)
      BY <1>5 DEF MoveCursors
    <3> HIDE DEF new
    <3> QED  BY <3>1, OutcomesAre, Zenon
  <2> HIDE DEF db
  <2>3. /\ new \in Database /\ new.keyed = db.keyed /\ new.cols = db.cols /\ new.conns = db.conns
        /\ new.todo = db.todo /\ new.state = 0 /\ new.cursor = 1
        /\ new.owner = db.owner /\ new.check = db.check /\ new.rows = db.rows
        /\ new.spare = db.spare /\ new.copy = db.copy
    <3>1. 0 \in 0 .. 1 /\ 1 \in 0 .. 2
      OBVIOUS
    <3> DEFINE States == 0 .. 1
               Cursors == 0 .. 2
    <3>2. db \in [cols: SUBSET Columns, check: {"none", "stale", "current"},
                  conns: {"missing", "by source", "by user", "by account"},
                  rows: SUBSET Connection, spare: BOOLEAN, copy: SUBSET Connection,
                  state: States, cursor: Cursors, todo: BOOLEAN, keyed: BOOLEAN,
                  owner: Owners \cup {"nobody"}]
      BY <1>3, Zenon DEF Database
    <3>3. 0 \in States /\ 1 \in Cursors
      BY <3>1
    <3> HIDE DEF States, Cursors
    <3>4. /\ new \in [cols: SUBSET Columns, check: {"none", "stale", "current"},
                  conns: {"missing", "by source", "by user", "by account"},
                  rows: SUBSET Connection, spare: BOOLEAN, copy: SUBSET Connection,
                  state: States, cursor: Cursors, todo: BOOLEAN, keyed: BOOLEAN,
                  owner: Owners \cup {"nobody"}]
          /\ new.keyed = db.keyed /\ new.cols = db.cols /\ new.conns = db.conns
          /\ new.todo = db.todo /\ new.state = 0 /\ new.cursor = 1
          /\ new.owner = db.owner /\ new.check = db.check /\ new.rows = db.rows
          /\ new.spare = db.spare /\ new.copy = db.copy
      BY <3>2, <3>3
    <3> HIDE DEF new
    <3> QED  BY <3>4, Zenon DEF Database, States, Cursors
  <2> HIDE DEF new
  <2>4. Whole(new)
    <3>1. new.state + new.cursor \in 1 .. 2
      BY <2>3
    <3> QED  BY <1>3, <2>3, <3>1, Zenon DEF Whole
  <2>5. Later(db, new)
    BY <1>3, <2>3, Zenon DEF Later
  <2>6. SameRows(db, new)
    BY <2>3, Zenon DEF SameRows
  <2>7. new.todo => new.owner # "nobody"
    BY <1>3, <2>3, Zenon
  <2> QED
    BY <1>1, <1>2, <1>3, <2>1, <2>3, <2>4, <2>5, <2>6, <2>7, LateKeepsSchema DEF db
<1> QED  BY <1>4, <1>5, Zenon

LEMMA CheckKeepsSchema ==
    ASSUME SchemaInv, NEW p \in Starters, CheckSources(p) \/ Finish(p) PROVE SchemaInv'
<1> DEFINE db == View(p)
<1>1. opening[p].at \in {"check", "finish"} /\ Outcome(p, View(p)) /\ Quiet
  BY OutcomesAre DEF CheckSources, Finish, At
<1>2. opening[p].at \in LateSteps /\ {"rebuild", "finish", "ready"} \subseteq Rebuilt
  BY <1>1 DEF LateSteps, Rebuilt
<1>3. /\ db \in Database /\ Whole(db) /\ Later(db, db) /\ SameRows(db, db) /\ db.cols = Current
      /\ (db.todo => db.owner # "nobody") /\ db.state = 0
      /\ (At(p, "finish") => db.check # "stale")
  BY <1>1, <1>2, LateSees DEF At
<1>4. ASSUME NEW to \in {"rebuild", "finish", "ready"}, Goes(p, to),
             to # "rebuild" => db.check # "stale", writer' = p => to # "ready"
      PROVE  SchemaInv'
  <2>1. to \in Rebuilt /\ to \notin {"owners", "cursors"}
    BY <1>2
  <2> HIDE DEF db
  <2> QED  BY <1>1, <1>2, <1>3, <1>4, <2>1, LateKeepsSchema DEF db
<1>5. CASE Goes(p, "rebuild") /\ CheckSources(p)
  BY <1>4, <1>5
<1>6. CASE Goes(p, "finish") /\ CheckSources(p) /\ db.check # "stale"
  BY <1>4, <1>6
<1>7. CASE Finish(p)
  <2>1. db.check # "stale" /\ Goes(p, "ready")
    BY <1>3, <1>7 DEF Finish
  <2>2. writer' # p
    BY <1>7, SchemaConstants DEF Finish, Commits
  <2> QED  BY <1>4, <2>1, <2>2
<1> QED  BY <1>5, <1>6, <1>7 DEF CheckSources

LEMMA RebuildKeepsSchema ==
    ASSUME SchemaInv, NEW p \in Starters, RebuildTodos(p) PROVE SchemaInv'
<1> DEFINE db == View(p)
           new == [db EXCEPT !.check = "current", !.cols = Current]
<1>1. opening[p].at = "rebuild" /\ Quiet
  BY DEF RebuildTodos, At
<1>2. opening[p].at \in LateSteps /\ "finish" \in Rebuilt
  BY <1>1 DEF LateSteps, Rebuilt
<1>3. /\ db \in Database /\ Whole(db) /\ Later(db, db) /\ SameRows(db, db) /\ db.cols = Current
      /\ (db.todo => db.owner # "nobody") /\ db.state = 0
  BY <1>1, <1>2, LateSees DEF At
<1>4. Alters(p, new) /\ Goes(p, "finish")
  BY <1>3 DEF RebuildTodos
<1> HIDE DEF db
<1>5. /\ new \in Database /\ new.keyed = db.keyed /\ new.cols = db.cols /\ new.conns = db.conns
      /\ new.todo = db.todo /\ new.state = db.state /\ new.cursor = db.cursor
      /\ new.owner = db.owner /\ new.check = "current" /\ new.rows = db.rows
      /\ new.spare = db.spare /\ new.copy = db.copy
  BY <1>3 DEF Database
<1> HIDE DEF new
<1>6. Outcome(p, new)
  BY <1>4, OutcomesAre, Zenon
<1>7. Whole(new)
  BY <1>3, <1>5, Zenon DEF Whole
<1>8. Later(db, new)
  BY <1>3, <1>5, Zenon DEF Later
<1>9. SameRows(db, new)
  BY <1>5, Zenon DEF SameRows
<1>10. new.todo => new.owner # "nobody"
  BY <1>3, <1>5, Zenon
<1> QED
  BY <1>1, <1>2, <1>3, <1>4, <1>5, <1>6, <1>7, <1>8, <1>9, <1>10, LateKeepsSchema DEF db

LEMMA AlterKeepsSchema ==
    ASSUME SchemaInv, NEW p \in Starters, Alter(p) PROVE SchemaInv'
<1> DEFINE o == opening[p]
           db == View(p)
           Fits(c) == c \in Left <=> c \in db.cols
<1>1. /\ o \in Opening /\ db \in Database /\ InStage(o, db) /\ Whole(db)
      /\ o.at \in {"alter", "widen"} /\ Quiet /\ Busy(p)
  BY ViewsAre DEF Alter, At, Busy
<1>2. o.alters \subseteq Columns /\ db.cols \subseteq Columns /\ db.conns # "missing"
  BY <1>1 DEF Opening, Database, InStage
<1>3. /\ o.at = "alter" => o.alters \subseteq Left \cup Added
      /\ o.at = "widen" => o.alters \subseteq Second /\ db.cols \cap Left = {}
  <2> HIDE DEF db
  <2>1. InStage(o, db)
    BY <1>1
  <2>2. o.at = "alter" => o.alters \subseteq Left \cup Added
    BY <2>1, Zenon DEF InStage
  <2>3. o.at = "widen" => o.alters \subseteq Second
    BY <2>1, Zenon DEF InStage
  <2>4. o.at = "widen" => db.cols \cap Left = {}
    BY <2>1 DEF InStage
  <2> QED  BY <2>2, <2>3, <2>4
<1>4. \A c \in o.alters : c # "event_id" /\ (c \in Left \/ c \in Current) /\ (c \in Left => c \notin Current)
  <2>1. o.alters \subseteq Left \cup Current
    BY <1>1, <1>3, ColumnsApart
  <2> QED  BY <2>1, ColumnsApart
<1>5. o.lone => \A c \in o.alters : Fits(c)
  <2>1. o.lone => AsRead(o, db)
    BY <1>1, LoneHasRead
  <2> HIDE DEF db
  <2>2. o.at = "widen" => \A c \in o.alters : c \notin Left
    BY <1>3, ColumnsApart
  <2> QED  BY <1>1, <2>1, <2>2 DEF AsRead
<1> HIDE DEF db
<1>6. ASSUME NEW c \in o.alters, NEW new \in Database, Outcome(p, new), Whole(new),
             Later(db, new), SameRows(db, new),
             opening' = [opening EXCEPT ![p].alters = @ \ {c}],
             new.cols = IF c \in Left THEN db.cols \ {c} ELSE db.cols \cup {c},
             new.conns = db.conns
      PROVE  SchemaInv'
  <2> DEFINE alters == o.alters \ {c}
             o2 == [o EXCEPT !.alters = alters]
  <2>1. opening' = [opening EXCEPT ![p] = o2]
    BY <1>6
  <2>2. alters \in SUBSET Columns
    BY <1>2
  <2>3. alters \subseteq o.alters /\ c \notin alters /\ o.alters = alters \cup {c}
    OBVIOUS
  <2> HIDE DEF alters
  <2>4. /\ o2 \in Opening /\ o2.at = o.at /\ o2.alters = alters /\ o2.migrates = o.migrates
        /\ o2.drops = o.drops /\ o2.lone = o.lone
    BY <1>1, <2>2 DEF Opening
  <2> HIDE DEF o2
  <2>5. InStage(o2, new)
    <3>0. new.conns # "missing"
      BY <1>2, <1>6
    <3>1. CASE o.at = "alter"
      <4>1. /\ db.cols \cap Left \subseteq o.alters /\ o.alters \subseteq Left \cup Added
            /\ (o.migrates <=> o.drops) /\ (~o.drops => "event_id" \notin db.cols)
            /\ IF o.migrates THEN Added \subseteq db.cols \cup o.alters
               ELSE o.alters \subseteq Left
        BY <1>1, <3>1 DEF InStage
      <4>2. new.cols \cap Left \subseteq alters /\ alters \subseteq Left \cup Added
        BY <1>4, <1>6, <2>3, <4>1
      <4>3. ~o.drops => "event_id" \notin new.cols
        <5>1. "event_id" \in new.cols => "event_id" \in db.cols
          BY <1>4, <1>6
        <5> QED  BY <4>1, <5>1, Zenon
      <4>4. IF o.migrates THEN Added \subseteq new.cols \cup alters ELSE alters \subseteq Left
        <5>1. Added \subseteq db.cols \cup o.alters => Added \subseteq new.cols \cup alters
          BY <1>6, <2>3, ColumnsApart
        <5>2. o.alters \subseteq Left => alters \subseteq Left
          BY <2>3
        <5> QED  BY <4>1, <5>1, <5>2, Zenon
      <4>5. /\ o2.migrates <=> o2.drops
            /\ ~o2.drops => "event_id" \notin new.cols
            /\ IF o2.migrates THEN Added \subseteq new.cols \cup alters ELSE alters \subseteq Left
        BY <2>4, <4>1, <4>3, <4>4, Zenon
      <4> QED  BY <2>4, <3>0, <3>1, <4>2, <4>5 DEF InStage, Widened, Rebuilt
    <3>2. CASE o.at = "widen"
      <4>1. /\ db.cols \cap Left = {} /\ Added \subseteq db.cols /\ "event_id" \notin db.cols
            /\ Second \subseteq db.cols \cup o.alters /\ o.alters \subseteq Second
        BY <1>1, <3>2 DEF InStage
      <4>2. c \notin Left /\ new.cols = db.cols \cup {c}
        BY <1>6, <4>1, ColumnsApart
      <4>3. /\ new.cols \cap Left = {} /\ Added \subseteq new.cols /\ "event_id" \notin new.cols
            /\ Second \subseteq new.cols \cup alters /\ alters \subseteq Second
        BY <1>4, <2>3, <4>1, <4>2
      <4> QED  BY <2>4, <3>0, <3>2, <4>3 DEF InStage, Widened, Rebuilt
    <3> QED  BY <1>1, <3>1, <3>2
  <2>6. o2.lone => AsRead(o2, new)
    <3> SUFFICES ASSUME o.lone PROVE AsRead(o2, new)
      BY <2>4, Zenon
    <3>1. AsRead(o, db)
      BY <1>1, LoneHasRead DEF db
    <3>2. o2.at = "alter" => \A d \in o2.alters : d \in Left <=> d \in new.cols
      <4>1. \A d \in o.alters : o.at = "alter" => (d \in Left <=> d \in db.cols)
        BY <1>5
      <4> QED  BY <1>6, <2>3, <2>4, <4>1
    <3>3. o2.at = "widen" => \A d \in o2.alters : d \notin new.cols
      <4>1. \A d \in o.alters : o.at = "widen" => d \notin db.cols
        BY <3>1 DEF AsRead
      <4> QED  BY <1>6, <2>3, <2>4, <4>1
    <3>4. o2.at = "alter" /\ o2.drops => "event_id" \in new.cols
      <4>1. o.at = "alter" /\ o.drops => "event_id" \in db.cols
        BY <3>1 DEF AsRead
      <4>2. "event_id" \in db.cols => "event_id" \in new.cols
        BY <1>4, <1>6
      <4> QED  BY <2>4, <4>1, <4>2, Zenon
    <3> QED  BY <1>1, <2>4, <3>2, <3>3, <3>4 DEF AsRead
  <2>7. Moves(p, o2)
    BY <1>1, <2>1, <2>4 DEF Moves, Rebuilt
  <2>8. Leaves(p, o2, new)
    BY <1>6, <2>5, <2>6, Zenon DEF Leaves, SameRows, db
  <2> QED  BY <2>4, <2>7, <2>8, <1>6, RunGoesOn, Zenon
<1>7. ASSUME NEW c \in o.alters, Fits(c), opening' = [opening EXCEPT ![p].alters = @ \ {c}],
             Alters(p, [db EXCEPT !.cols = IF c \in Left THEN @ \ {c} ELSE @ \cup {c}])
      PROVE  SchemaInv'
  <2> DEFINE cols == IF c \in Left THEN db.cols \ {c} ELSE db.cols \cup {c}
             new == [db EXCEPT !.cols = cols]
  <2>1. Alters(p, new)
    <3>1. new = [db EXCEPT !.cols = IF c \in Left THEN @ \ {c} ELSE @ \cup {c}]
      OBVIOUS
    <3> HIDE DEF new
    <3> QED  BY <1>7, <3>1, Zenon
  <2>2. cols \subseteq Columns
    BY <1>2
  <2>3. /\ db.cols \cap Current \subseteq cols /\ cols \subseteq db.cols \cup Current
        /\ ("event_id" \in db.cols => "event_id" \in cols)
        /\ (Added \subseteq db.cols => Added \subseteq cols)
    BY <1>4, <1>7, ColumnsApart
  <2> HIDE DEF cols
  <2>4. /\ new \in Database /\ new.keyed = db.keyed /\ new.cols = cols /\ new.conns = db.conns
        /\ new.todo = db.todo /\ new.state = db.state /\ new.cursor = db.cursor
        /\ new.owner = db.owner /\ new.check = db.check /\ new.rows = db.rows
        /\ new.spare = db.spare /\ new.copy = db.copy
    BY <1>1, <2>2 DEF Database
  <2> HIDE DEF new
  <2>5. Outcome(p, new)
    BY <2>1, OutcomesAre, Zenon
  <2>6. Whole(new)
    BY <1>1, <2>3, <2>4, Zenon DEF Whole
  <2>7. Later(db, new)
    BY <1>1, <2>3, <2>4, Zenon DEF Later
  <2>8. SameRows(db, new)
    BY <2>4, Zenon DEF SameRows
  <2>9. new.cols = IF c \in Left THEN db.cols \ {c} ELSE db.cols \cup {c}
    BY <2>4 DEF cols
  <2> QED  BY <1>6, <1>7, <2>4, <2>5, <2>6, <2>7, <2>8, <2>9, Zenon
<1>8. ASSUME NEW c \in o.alters, ~Fits(c), c = "urgency", Idles,
             opening' = [opening EXCEPT ![p].alters = @ \ {c}]
      PROVE  SchemaInv'
  <2>1. Outcome(p, db) /\ Later(db, db) /\ SameRows(db, db)
    BY <1>1, <1>8, OutcomesAre, LaterIsOrder DEF db, SameRows
  <2>2. c \in Left /\ c \notin db.cols
    BY <1>8, ColumnsApart
  <2>3. db.cols = IF c \in Left THEN db.cols \ {c} ELSE db.cols \cup {c}
    BY <2>2
  <2> QED  BY <1>1, <1>6, <1>8, <2>1, <2>3, Zenon
<1>9. ASSUME NEW c \in o.alters, ~Fits(c), Raises(p) PROVE SchemaInv'
  <2>1. ~o.lone
    BY <1>5, <1>9, Zenon
  <2> QED  BY <1>1, <1>9, <2>1, RaiseKeepsSchema
<1>10. PICK c \in o.alters :
          \/ /\ Fits(c) /\ opening' = [opening EXCEPT ![p].alters = @ \ {c}]
             /\ Alters(p, [db EXCEPT !.cols = IF c \in Left THEN @ \ {c} ELSE @ \cup {c}])
          \/ /\ ~Fits(c) /\ c = "urgency" /\ Idles
             /\ opening' = [opening EXCEPT ![p].alters = @ \ {c}]
          \/ ~Fits(c) /\ Raises(p)
  BY Zenon DEF Alter, db
<1> QED  BY <1>7, <1>8, <1>9, <1>10, Zenon

\* A statement that writes.
WritesAs(p, new) ==
    /\ writer \in {p, NoStarter} /\ work' = new
    /\ \/ file' = file /\ writer' = p
       \/ file' = new /\ writer' = NoStarter
NobodyRaised(p) == \A q \in Starters \ {p} : ~(opening[q].lone /\ At(q, "raised"))

LEMMA WritesAre ==
    ASSUME SchemaInv, NEW p \in Starters, NEW new, Changes(p, new) \/ Alters(p, new)
    PROVE  WritesAs(p, new) /\ Outcome(p, new)
<1>1. p # NoStarter /\ (writer = NoStarter => work = file)
  BY SchemaConstants DEF SchemaInv, FilesAreWhole
<1>2. WritesAs(p, new)
  BY <1>1 DEF Changes, Alters, MayWrite, WritesAs
<1> QED  BY <1>2 DEF WritesAs, Outcome

\* A step around the spare table.
Renews(p, to, new) ==
    /\ opening[p].at \in {"create", "copy", "swap"} /\ Goes(p, to)
    /\ UNCHANGED <<starts, stored>> /\ outpaced' \in BOOLEAN /\ (outpaced => outpaced')
    /\ WritesAs(p, new) /\ Whole(new) /\ Later(View(p), new)
    /\ ~outpaced' => Holds(new)
    /\ file'.copy = {} /\ (new.copy # {} => to = "swap")
    /\ to = "swap" => /\ writer' = p
                      /\ ~outpaced' => new.conns # "by account" /\ stored \subseteq new.copy
    /\ NobodyRaised(p)

LEMMA RenewsKeepsSchema ==
    ASSUME SchemaInv, NEW p \in Starters, NEW to \in {"copy", "swap", "owners"},
           NEW new \in Database, Renews(p, to, new),
           InStage([opening[p] EXCEPT !.at = to], new),
           opening[p].lone => AsRead([opening[p] EXCEPT !.at = to], new)
    PROVE  SchemaInv'
<1> USE SchemaConstants
<1> DEFINE o2 == [opening[p] EXCEPT !.at = to]
<1>1. /\ writer \in {p, NoStarter} /\ work' = new
      /\ \/ file' = file /\ writer' = p
         \/ file' = new /\ writer' = NoStarter
  BY DEF Renews, WritesAs
<1>2. /\ FilesAreWhole' /\ View(p)' = new /\ Later(file, file')
      /\ \A q \in Starters \ {p} : Later(View(q), View(q)')
  <2>1. Outcome(p, new)
    BY <1>1 DEF Outcome
  <2>2. Whole(new) /\ Later(View(p), new)
    BY Zenon DEF Renews
  <2> QED  BY <2>1, <2>2, OthersSee
<1>3. /\ opening[p] \in Opening /\ to \in Stages /\ p # NoStarter
  BY ViewsAre DEF Stages
<1>4. o2 \in Opening /\ o2.at = to /\ (o2.lone <=> opening[p].lone)
  BY <1>3, MovesKeep, Zenon
<1>5. /\ InStage(o2, new) /\ (o2.lone => AsRead(o2, new))
      /\ opening' = [opening EXCEPT ![p] = o2]
  BY <1>4, Zenon DEF Renews, Goes
<1> HIDE DEF o2
<1>6. /\ opening'[p] = o2 /\ opening' \in [Starters -> Opening]
      /\ \A q \in Starters \ {p} : opening'[q] = opening[q]
  BY <1>4, <1>5 DEF SchemaInv, SchemaTypeOK
<1>7. SchemaTypeOK'
  <2>1. outpaced' \in BOOLEAN /\ starts' \in 0 .. MaxStarts
        /\ stored' \subseteq [owner: Owners, source: {"gmail", "fathom"}]
    BY Zenon DEF SchemaInv, SchemaTypeOK, Renews
  <2>2. file' \in Database /\ work' \in Database
    BY <1>2, Zenon DEF FilesAreWhole
  <2>3. writer' \in Starters \cup {NoStarter}
    BY <1>1
  <2> QED  BY <1>6, <2>1, <2>2, <2>3, Zenon DEF SchemaTypeOK
<1>8. RowsAreHeld'
  <2>1. \A db : Holds(db)' <=> Holds(db')
    BY Zenon DEF Renews, Holds, Keyed
  <2>2. ~outpaced' => Holds(new) /\ Holds(file)
    BY Zenon DEF Renews, SchemaInv, RowsAreHeld
  <2>3. ~outpaced' => Holds(file') /\ Holds(work')
    BY <1>1, <2>2
  <2>4. (~outpaced => Holds(file) /\ Holds(work))'
    BY <2>3, Zenon DEF Renews, Holds, Keyed
  <2>5. file'.conns # "by account" => file.conns # "by account"
    BY <1>2 DEF Later
  <2>6. stored' = stored
    BY DEF Renews
  <2> QED  BY <2>4, <2>5, <2>6, Zenon DEF SchemaInv, RowsAreHeld
<1>9. SpareIsOwn'
  <2>1. file'.copy = {} /\ (new.copy # {} => to = "swap") /\ stored' = stored
        /\ (to = "swap" => /\ writer' = p
                           /\ ~outpaced' => new.conns # "by account" /\ stored \subseteq new.copy)
    BY Zenon DEF Renews
  <2>2. At(p, "swap")' <=> to = "swap"
    BY <1>4, <1>6 DEF At
  <2>3. work'.copy # {} => \E q \in Starters : At(q, "swap")'
    BY <1>1, <2>1, <2>2
  <2>4. ASSUME NEW q \in Starters
        PROVE  (/\ writer = q => Busy(q)
                /\ writer = q /\ opening[q].at \notin Rebuilt \cup {"copy", "swap"} =>
                       (work.spare <=> file.spare)
                /\ At(q, "swap") => /\ writer = q
                                    /\ ~outpaced => /\ work.conns # "by account"
                                                    /\ stored \subseteq work.copy)'
    <3>1. CASE q # p
      <4>1. writer' # q /\ writer # q
        BY <1>1, <3>1
      <4>2. ~At(q, "swap")
        BY <4>1 DEF SchemaInv, SpareIsOwn
      <4>3. ~At(q, "swap")'
        BY <1>6, <3>1, <4>2 DEF At
      <4> QED  BY <4>1, <4>3, Zenon
    <3>2. CASE q = p
      <4>1. Busy(p)' /\ opening'[p].at \in Rebuilt \cup {"copy", "swap"}
        BY <1>4, <1>6 DEF Busy, Rebuilt
      <4> QED  BY <1>1, <2>1, <2>2, <3>2, <4>1
    <3> QED  BY <3>1, <3>2
  <2> QED  BY <2>1, <2>3, <2>4, Zenon DEF SpareIsOwn
<1>10. StagesHold'
  <2> SUFFICES ASSUME NEW q \in Starters PROVE InStage(opening'[q], View(q)')
    BY Zenon DEF StagesHold
  <2>1. CASE q # p
    <3>1. /\ View(q) \in Database /\ InStage(opening[q], View(q)) /\ opening[q] \in Opening
      BY ViewsAre
    <3>2. View(q)' \in Database
      BY <1>2 DEF FilesAreWhole, View
    <3> QED  BY <1>2, <1>6, <2>1, <3>1, <3>2, StageKeeps
  <2>2. CASE q = p
    BY <1>2, <1>5, <1>6, <2>2
  <2> QED  BY <2>1, <2>2
<1>11. LoneIsAlone'
  <2> SUFFICES ASSUME NEW q \in Starters, opening'[q].lone
               PROVE  /\ Busy(q)' => /\ AsRead(opening'[q], View(q)')
                                     /\ \A r \in Starters \ {q} : ~Busy(r)'
                      /\ At(q, "raised")' => file'.spare /\ work'.spare /\ NobodyCopies'
    BY Zenon DEF LoneIsAlone
  <2>0. Busy(p)
    BY DEF Renews, Busy
  <2>1. CASE q # p
    <3>1. opening'[q] = opening[q] /\ opening[q].lone
      BY <1>6, <2>1
    <3>2. ~Busy(q)
      BY <2>0, <2>1, <3>1 DEF SchemaInv, LoneIsAlone
    <3>3. ~At(q, "raised")
      BY <2>1, <3>1 DEF Renews, NobodyRaised
    <3> QED  BY <3>1, <3>2, <3>3 DEF Busy, At
  <2>2. CASE q = p
    <3>1. o2.lone /\ opening[p].lone /\ ~At(p, "raised")'
      BY <1>4, <1>6, <2>2 DEF At
    <3>2. \A r \in Starters \ {p} : ~Busy(r)
      BY <2>0, <3>1, Zenon DEF SchemaInv, LoneIsAlone
    <3>3. \A r \in Starters \ {p} : ~Busy(r)'
      BY <1>6, <3>2 DEF Busy
    <3> QED  BY <1>2, <1>5, <1>6, <2>2, <3>1, <3>3
  <2> QED  BY <2>1, <2>2
<1> QED  BY <1>2, <1>7, <1>8, <1>9, <1>10, <1>11, Zenon DEF SchemaInv

LEMMA SpareKeepsSchema ==
    ASSUME SchemaInv, NEW p \in Starters, CreateSpare(p) PROVE SchemaInv'
<1> DEFINE o == opening[p]
           db == View(p)
           o2 == [opening[p] EXCEPT !.at = "copy"]
           new == [db EXCEPT !.spare = TRUE]
<1>1. /\ o \in Opening /\ db \in Database /\ InStage(o, db) /\ Whole(db) /\ Later(db, db)
      /\ o.at = "create" /\ Quiet /\ Busy(p) /\ db.copy = {} /\ (~outpaced => Holds(db))
  BY ViewsAre, LaterIsOrder DEF CreateSpare, At, Busy
<1>2. o.lone => AsRead(o, db) /\ \A q \in Starters \ {p} : ~Busy(q)
  BY <1>1, Zenon DEF SchemaInv, LoneIsAlone
<1>3. CASE db.spare
  <2>1. Raises(p)
    BY <1>3 DEF CreateSpare
  <2>2. ASSUME o.lone PROVE file.spare
    <3>1. writer \in Starters => Busy(writer)
      BY Zenon DEF SchemaInv, SpareIsOwn
    <3>2. CASE writer = p
      <4>1. work.spare <=> file.spare
        <5>1. o.at \notin Rebuilt \cup {"copy", "swap"}
          BY <1>1 DEF Rebuilt
        <5> QED  BY <3>2, <5>1, Zenon DEF SchemaInv, SpareIsOwn
      <4> QED  BY <1>3, <3>2, <4>1, Zenon DEF View
    <3>3. CASE writer # p
      BY <1>3, <3>3, Zenon DEF View
    <3> QED  BY <3>2, <3>3
  <2> QED  BY <1>1, <2>1, <2>2, RaiseKeepsSchema
<1>4. CASE ~db.spare
  <2>1. Alters(p, new) /\ Goes(p, "copy")
    BY <1>4 DEF CreateSpare
  <2>2. NobodyRaised(p)
    BY <1>4, Zenon DEF SchemaInv, LoneIsAlone, NobodyRaised, View
  <2> HIDE DEF db
  <2>3. /\ new \in Database /\ new.keyed = db.keyed /\ new.cols = db.cols /\ new.conns = db.conns
        /\ new.todo = db.todo /\ new.state = db.state /\ new.cursor = db.cursor
        /\ new.owner = db.owner /\ new.check = db.check /\ new.rows = db.rows
        /\ new.copy = db.copy
    BY <1>1 DEF Database
  <2> HIDE DEF new
  <2>4. WritesAs(p, new)
    BY <2>1, WritesAre, Zenon
  <2>5. Whole(new)
    BY <1>1, <2>3, Zenon DEF Whole
  <2>6. Later(db, new)
    BY <1>1, <2>3, Zenon DEF Later
  <2>7. ~outpaced => Holds(new)
    BY <1>1, <2>3, Zenon DEF Holds, Keyed
  <2>8. file'.copy = {} /\ new.copy = {}
    BY <1>1, <2>3, <2>4 DEF WritesAs, SchemaInv, SpareIsOwn
  <2>9. "copy" \in Stages
    BY DEF Stages
  <2>10. /\ o2.at = "copy" /\ o2.conns = o.conns /\ o2.orphans = o.orphans /\ o2.cursor = o.cursor
    BY <2>9, Marks, Zenon
  <2> HIDE DEF o2
  <2>11. InStage(o2, new)
    <3>1. /\ db.cols = Current /\ db.conns # "missing" /\ Narrow(o)
          /\ (~o.cursor => db.state = 0) /\ (~o.orphans /\ db.todo => db.owner # "nobody")
          /\ db.conns \in {o.conns, "by account"}
      BY <1>1 DEF InStage, Widened
    <3>2. /\ new.cols = Current /\ new.conns # "missing" /\ Narrow(o2)
          /\ (~o2.cursor => new.state = 0) /\ (~o2.orphans /\ new.todo => new.owner # "nobody")
          /\ new.conns \in {o2.conns, "by account"}
      BY <2>3, <2>10, <3>1, Zenon DEF Narrow
    <3> QED  BY <2>10, <3>2 DEF InStage, Rebuilt
  <2>12. o.lone => AsRead(o2, new)
    BY <1>1, <1>2, <2>3, <2>10 DEF AsRead
  <2>13. outpaced' = outpaced /\ outpaced \in BOOLEAN /\ UNCHANGED <<starts, stored>>
    BY <1>1, Zenon DEF Quiet, SchemaInv, SchemaTypeOK
  <2>14. Renews(p, "copy", new)
    <3>1. opening[p].at \in {"create", "copy", "swap"}
      BY <1>1
    <3>2. "copy" # "swap"
      OBVIOUS
    <3> QED
      BY <2>1, <2>2, <2>4, <2>5, <2>6, <2>7, <2>8, <2>13, <3>1, <3>2, Zenon DEF Renews, db
  <2> QED  BY <2>3, <2>11, <2>12, <2>14, RenewsKeepsSchema DEF o2
<1> QED  BY <1>3, <1>4

\* The rows keep their keys apart where the run read the table as it is.
LEMMA CarriedApart ==
    ASSUME SchemaInv, NEW p \in Starters, opening[p].conns = View(p).conns,
           NEW c \in CarriedOf(p), NEW d \in CarriedOf(p), AsCarried(p, c) = AsCarried(p, d)
    PROVE  c = d
<1>1. View(p) \in Database /\ Whole(View(p))
  BY ViewsAre
<1>2. c \in Connection /\ d \in Connection /\ c \in View(p).rows /\ d \in View(p).rows
  BY <1>1 DEF CarriedOf, Database
<1>3. CASE opening[p].conns = "by source"
  <2>1. c.owner = "nobody" /\ d.owner = "nobody"
    BY <1>1, <1>2, <1>3 DEF Whole
  <2>2. AsCarried(p, c).source = c.source /\ AsCarried(p, d).source = d.source
    BY <1>2 DEF AsCarried, Connection
  <2> QED  BY <1>2, <2>1, <2>2 DEF Connection
<1>4. CASE opening[p].conns # "by source"
  <2>1. AsCarried(p, c) = c /\ AsCarried(p, d) = d
    BY <1>2, <1>4 DEF AsCarried, Connection
  <2> QED  BY <2>1
<1> QED  BY <1>3, <1>4

LEMMA CopyKeepsSchema ==
    ASSUME SchemaInv, NEW p \in Starters, Copy(p) PROVE SchemaInv'
<1> DEFINE o == opening[p]
           db == View(p)
           o2 == [opening[p] EXCEPT !.at = "swap"]
           copy == {AsCarried(p, row) : row \in CarriedOf(p)}
           new == [db EXCEPT !.copy = copy]
<1>1. /\ o \in Opening /\ db \in Database /\ InStage(o, db) /\ Whole(db) /\ Later(db, db)
      /\ o.at = "copy" /\ Busy(p) /\ (~outpaced => Holds(db)) /\ Later(file, db)
  BY ViewsAre, LaterIsOrder DEF Copy, At, Busy
<1>2. o.lone => AsRead(o, db) /\ \A q \in Starters \ {p} : ~Busy(q)
  BY <1>1, Zenon DEF SchemaInv, LoneIsAlone
<1>3. UNCHANGED <<starts, stored>>
  BY DEF Copy
<1>4. CASE /\ \E c, d \in CarriedOf(p) : c # d /\ AsCarried(p, c) = AsCarried(p, d)
           /\ Raises(p) /\ UNCHANGED outpaced
  <2>1. ~o.lone
    <3> SUFFICES ASSUME o.lone PROVE FALSE
      OBVIOUS
    <3>1. o.conns = db.conns
      BY <1>1, <1>2 DEF AsRead
    <3> QED  BY <1>4, <3>1, CarriedApart
  <2> QED  BY <1>1, <1>3, <1>4, <2>1, RaiseKeepsSchema DEF Quiet
<1>5. CASE /\ Changes(p, new) /\ Goes(p, "swap")
           /\ outpaced' = (outpaced \/ db.conns = "by account")
  <2>1. NobodyRaised(p)
    <3>1. ~NobodyCopies
      BY <1>1 DEF NobodyCopies, At
    <3> QED  BY <3>1, Zenon DEF SchemaInv, LoneIsAlone, NobodyRaised
  <2>2. WritesAs(p, new) /\ writer' = p /\ file' = file
    <3> HIDE DEF new
    <3> QED  BY <1>5, WritesAre DEF Changes
  <2>3. copy \subseteq Connection
    <3> SUFFICES ASSUME NEW row \in CarriedOf(p) PROVE AsCarried(p, row) \in Connection
      OBVIOUS
    <3>1. row \in Connection
      BY <1>1 DEF CarriedOf, Database
    <3> QED  BY <3>1 DEF AsCarried, Connection, Owners
  <2>4. ASSUME ~outpaced' PROVE db.conns # "by account" /\ stored \subseteq copy /\ Holds(db)
    <3>1. ~outpaced /\ db.conns # "by account"
      BY <1>5, <2>4, Zenon
    <3>2. o.conns = db.conns
      <4>1. db.conns \in {o.conns, "by account"}
        BY <1>1 DEF InStage, Widened
      <4> QED  BY <3>1, <4>1
    <3>3. file.conns # "by account"
      BY <1>1, <3>1 DEF Later
    <3>4. stored \subseteq {[owner |-> "legacy", source |-> "fathom"]}
      BY <3>3, Zenon DEF SchemaInv, RowsAreHeld
    <3>5. ASSUME NEW c \in stored PROVE c \in copy
      <4> DEFINE row == Keyed(db, c)
      <4>1. c = [owner |-> "legacy", source |-> "fathom"]
        BY <3>4
      <4>2. row \in db.rows
        BY <1>1, <3>1 DEF Holds
      <4>3. row = [owner |-> IF db.conns = "by source" THEN "nobody" ELSE "legacy",
                   source |-> "fathom"]
        BY <4>1 DEF Keyed
      <4> HIDE DEF row
      <4>4. row \in CarriedOf(p)
        BY <4>2, <4>3 DEF CarriedOf
      <4>5. AsCarried(p, row) = c
        <5>1. CASE db.conns = "by source"
          <6>1. row = [owner |-> "nobody", source |-> "fathom"]
            BY <4>3, <5>1
          <6>2. AsCarried(p, row) = [row EXCEPT !.owner = "legacy"]
            BY <3>2, <5>1 DEF AsCarried
          <6> QED  BY <4>1, <6>1, <6>2
        <5>2. CASE db.conns # "by source"
          <6>1. row = [owner |-> "legacy", source |-> "fathom"]
            BY <4>3, <5>2
          <6>2. AsCarried(p, row) = [row EXCEPT !.owner = @]
            BY <3>2, <5>2 DEF AsCarried
          <6> QED  BY <4>1, <6>1, <6>2
        <5> QED  BY <5>1, <5>2
      <4> QED  BY <4>4, <4>5
    <3> QED  BY <1>1, <3>1, <3>5
  <2> HIDE DEF copy, db
  <2>5. /\ new \in Database /\ new.keyed = db.keyed /\ new.cols = db.cols /\ new.conns = db.conns
        /\ new.todo = db.todo /\ new.state = db.state /\ new.cursor = db.cursor
        /\ new.owner = db.owner /\ new.check = db.check /\ new.rows = db.rows
        /\ new.copy = copy
    BY <1>1, <2>3 DEF Database
  <2> HIDE DEF new
  <2>6. Whole(new)
    BY <1>1, <2>5, Zenon DEF Whole
  <2>7. Later(db, new)
    BY <1>1, <2>5, Zenon DEF Later
  <2>8. ~outpaced' => Holds(new)
    BY <2>4, <2>5, Zenon DEF Holds, Keyed
  <2>9. file'.copy = {}
    BY <2>2 DEF SchemaInv, SpareIsOwn
  <2>10. "swap" \in Stages
    BY DEF Stages
  <2>11. /\ o2.at = "swap" /\ o2.conns = o.conns /\ o2.orphans = o.orphans /\ o2.cursor = o.cursor
    BY <2>10, Marks, Zenon
  <2> HIDE DEF o2
  <2>12. InStage(o2, new)
    <3>1. /\ db.cols = Current /\ db.conns # "missing" /\ Narrow(o)
          /\ (~o.cursor => db.state = 0) /\ (~o.orphans /\ db.todo => db.owner # "nobody")
          /\ db.conns \in {o.conns, "by account"}
      BY <1>1 DEF InStage, Widened
    <3>2. /\ new.cols = Current /\ new.conns # "missing" /\ Narrow(o2)
          /\ (~o2.cursor => new.state = 0) /\ (~o2.orphans /\ new.todo => new.owner # "nobody")
          /\ new.conns \in {o2.conns, "by account"}
      BY <2>5, <2>11, <3>1, Zenon DEF Narrow
    <3> QED  BY <2>11, <3>2 DEF InStage, Rebuilt
  <2>13. AsRead(o2, new)
    BY <2>11 DEF AsRead
  <2>14. outpaced' \in BOOLEAN /\ (outpaced => outpaced')
    BY <1>5, Zenon DEF SchemaInv, SchemaTypeOK
  <2>15. ~outpaced' => new.conns # "by account" /\ stored \subseteq new.copy
    BY <2>4, <2>5, Zenon
  <2>16. Renews(p, "swap", new)
    <3>1. opening[p].at \in {"create", "copy", "swap"}
      BY <1>1
    <3> QED
      BY <1>3, <1>5, <2>1, <2>2, <2>6, <2>7, <2>8, <2>9, <2>14, <2>15, <3>1, Zenon DEF Renews, db
  <2> QED  BY <2>5, <2>12, <2>13, <2>16, RenewsKeepsSchema DEF o2
<1> QED  BY <1>4, <1>5 DEF Copy

LEMMA SwapKeepsSchema ==
    ASSUME SchemaInv, NEW p \in Starters, Swap(p) PROVE SchemaInv'
<1> DEFINE o == opening[p]
           db == View(p)
           o2 == [opening[p] EXCEPT !.at = "owners"]
           new == [db EXCEPT !.rows = db.copy, !.copy = {}, !.spare = FALSE,
                             !.conns = "by account"]
<1>1. /\ o \in Opening /\ db \in Database /\ InStage(o, db) /\ Whole(db) /\ Later(db, db)
      /\ o.at = "swap" /\ Quiet
  BY ViewsAre, LaterIsOrder DEF Swap, At
<1>2. writer = p /\ db = work /\ (~outpaced => stored \subseteq db.copy)
  BY <1>1, Zenon DEF SchemaInv, SpareIsOwn, At, View
<1>3. Changes(p, new) /\ Goes(p, "owners")
  BY DEF Swap
<1>4. NobodyRaised(p)
  <2>1. ~NobodyCopies
    BY <1>1 DEF NobodyCopies, At
  <2> QED  BY <2>1, Zenon DEF SchemaInv, LoneIsAlone, NobodyRaised
<1> HIDE DEF db
<1>5. /\ new \in Database /\ new.keyed = db.keyed /\ new.cols = db.cols
      /\ new.conns = "by account" /\ new.todo = db.todo /\ new.state = db.state
      /\ new.cursor = db.cursor /\ new.owner = db.owner /\ new.check = db.check
      /\ new.rows = db.copy /\ new.copy = {}
  BY <1>1 DEF Database
<1> HIDE DEF new
<1>6. WritesAs(p, new) /\ file' = file
  BY <1>3, WritesAre DEF Changes
<1>7. Whole(new)
  <2>1. new.conns # "missing" /\ new.conns # "by source"
    BY <1>5
  <2>2. db.conns # "missing"
    BY <1>1 DEF InStage
  <2> QED  BY <1>1, <1>5, <2>1, <2>2, Zenon DEF Whole
<1>8. Later(db, new)
  <2>1. new.conns \in {db.conns, "by account"}
    BY <1>5
  <2> QED  BY <1>1, <1>5, <2>1, Zenon DEF Later
<1>9. ~outpaced => Holds(new)
  <2> SUFFICES ASSUME ~outpaced, NEW c \in stored PROVE Keyed(new, c) \in new.rows
    BY Zenon DEF Holds
  <2>1. c \in [owner: Owners, source: {"gmail", "fathom"}]
    BY DEF SchemaInv, SchemaTypeOK
  <2>2. Keyed(new, c) = [owner |-> c.owner, source |-> c.source]
    BY <1>5 DEF Keyed
  <2>3. Keyed(new, c) = c
    BY <2>1, <2>2
  <2> QED  BY <1>2, <1>5, <2>3
<1>10. file'.copy = {}
  BY <1>6 DEF SchemaInv, SpareIsOwn
<1>11. "owners" \in Stages
  BY DEF Stages
<1>12. /\ o2.at = "owners" /\ o2.conns = o.conns /\ o2.orphans = o.orphans /\ o2.cursor = o.cursor
  BY <1>11, Marks, Zenon
<1> HIDE DEF o2
<1>13. InStage(o2, new)
  <2>1. /\ db.cols = Current
        /\ (~o.cursor => db.state = 0) /\ (~o.orphans /\ db.todo => db.owner # "nobody")
    BY <1>1 DEF InStage, Widened
  <2>2. /\ new.cols = Current
        /\ (~o2.cursor => new.state = 0) /\ (~o2.orphans /\ new.todo => new.owner # "nobody")
    BY <1>5, <1>12, <2>1, Zenon
  <2> QED  BY <1>5, <1>12, <2>2 DEF InStage, Rebuilt
<1>14. AsRead(o2, new)
  BY <1>12 DEF AsRead
<1>15. outpaced' = outpaced /\ outpaced \in BOOLEAN /\ UNCHANGED <<starts, stored>>
  BY <1>1, Zenon DEF Quiet, SchemaInv, SchemaTypeOK
<1>16. Renews(p, "owners", new)
  <2>1. opening[p].at \in {"create", "copy", "swap"} /\ "owners" # "swap"
    BY <1>1
  <2> QED
    BY <1>3, <1>4, <1>5, <1>6, <1>7, <1>8, <1>9, <1>10, <1>15, <2>1, Zenon DEF Renews, db
<1> QED  BY <1>5, <1>13, <1>14, <1>16, RenewsKeepsSchema DEF o2

\* That another opens the database is all that changes for a run.
LEMMA LoneApart ==
    ASSUME NEW o \in Opening, NEW lone \in BOOLEAN, NEW o2, o2 = [o EXCEPT !.lone = lone]
    PROVE  /\ o2 \in Opening /\ o2.at = o.at /\ (o2.lone <=> lone)
           /\ \A db \in Database : InStage(o, db) => InStage(o2, db)
<1>1. /\ o2 \in Opening /\ o2.at = o.at /\ o2.alters = o.alters /\ o2.migrates = o.migrates
      /\ o2.drops = o.drops /\ o2.conns = o.conns /\ o2.orphans = o.orphans
      /\ o2.cursor = o.cursor /\ o2.lone = lone
  BY DEF Opening
<1>2. /\ (o2.migrates <=> o.migrates) /\ (o2.drops <=> o.drops) /\ (o2.orphans <=> o.orphans)
      /\ (o2.cursor <=> o.cursor)
  BY <1>1, Zenon
<1>3. ASSUME NEW db \in Database, InStage(o, db) PROVE InStage(o2, db)
  <2>1. o2.at \notin {"off", "tables", "raised"} => db.conns # "missing"
    BY <1>1, <1>3 DEF InStage
  <2>2. o2.at = "alter" =>
           /\ db.cols \cap Left \subseteq o2.alters /\ o2.alters \subseteq Left \cup Added
           /\ IF o2.migrates THEN Added \subseteq db.cols \cup o2.alters
              ELSE o2.alters \subseteq Left
    BY <1>1, <1>3, Zenon DEF InStage
  <2>3. o2.at \in {"alter", "backfill", "drop"} =>
           /\ o2.migrates <=> o2.drops
           /\ ~o2.drops => "event_id" \notin db.cols
    <3>1. o.at \in {"alter", "backfill", "drop"} =>
           /\ o.migrates <=> o.drops
           /\ ~o.drops => "event_id" \notin db.cols
      BY <1>3, Zenon DEF InStage
    <3> QED  BY <1>1, <1>2, <3>1, Zenon
  <2>4. o2.at \in {"backfill", "drop", "columns again", "widen"} =>
           db.cols \cap Left = {} /\ Added \subseteq db.cols
    BY <1>1, <1>3 DEF InStage
  <2>5. o2.at = "drop" /\ o2.drops /\ db.todo => db.keyed
    BY <1>1, <1>3, Zenon DEF InStage
  <2>6. /\ o2.at \in {"columns again", "widen"} => "event_id" \notin db.cols
        /\ o2.at = "widen" => Second \subseteq db.cols \cup o2.alters /\ o2.alters \subseteq Second
        /\ o2.at \in Widened => db.cols = Current
    BY <1>1, <1>3 DEF InStage
  <2>7. o2.at \in Widened \ {"look"} =>
           /\ ~o2.cursor => db.state = 0
           /\ ~o2.orphans /\ db.todo => db.owner # "nobody"
           /\ db.conns \in {o2.conns, "by account"}
    <3>1. o.at \in Widened \ {"look"} =>
           /\ ~o.cursor => db.state = 0
           /\ ~o.orphans /\ db.todo => db.owner # "nobody"
           /\ db.conns \in {o.conns, "by account"}
      BY <1>3, Zenon DEF InStage
    <3> QED  BY <1>1, <1>2, <3>1, Zenon
  <2>8. /\ o2.at \in {"create", "copy", "swap"} => Narrow(o2)
        /\ o2.at \in Rebuilt => db.conns = "by account"
        /\ o2.at \in Rebuilt \ {"owners", "cursors"} => db.state = 0
        /\ o2.at \in {"finish", "ready"} => db.check # "stale"
    BY <1>1, <1>3 DEF InStage, Narrow
  <2>9. o2.at \in Rebuilt \ {"owners"} /\ db.todo => db.owner # "nobody"
    BY <1>1, <1>3, Zenon DEF InStage
  <2> QED
    BY <2>1, <2>2, <2>3, <2>4, <2>5, <2>6, <2>7, <2>8, <2>9, Zenon DEF InStage
<1> QED  BY <1>1, <1>2, <1>3, Zenon

LEMMA OpenKeepsSchema ==
    ASSUME SchemaInv, NEW p \in Starters, OpenDatabase(p) PROVE SchemaInv'
<1> DEFINE Still(q) == opening[q].lone /\ ~Busy(q)
           quiet == \A other \in Starters : ~Busy(other)
           o2 == [Off EXCEPT !.at = "tables", !.lone = quiet]
           Beside(q) == IF q = p THEN o2 ELSE [opening[q] EXCEPT !.lone = Still(q)]
<1>1. /\ opening[p].at = "off" /\ starts < MaxStarts /\ starts' = starts + 1
      /\ UNCHANGED <<file, work, writer, stored, outpaced>>
  BY DEF OpenDatabase, At, Idles
<1>2. opening' = [q \in Starters |-> Beside(q)]
  BY DEF OpenDatabase
<1>3. \A q \in Starters : opening[q] \in Opening
  BY DEF SchemaInv, SchemaTypeOK
<1>4. \A q \in Starters : Still(q) \in BOOLEAN
  BY Zenon
<1>5. quiet \in BOOLEAN
  BY Zenon
<1>6. /\ o2 \in Opening /\ o2.at = "tables" /\ (o2.lone <=> quiet)
  <2>1. Off \in Opening /\ "tables" \in Stages
    BY DEF Off, Opening, Stages
  <2> HIDE DEF quiet
  <2>2. o2 \in Opening /\ o2.at = "tables" /\ o2.lone = quiet
    BY <1>5, <2>1 DEF Opening
  <2> QED  BY <2>2, Zenon
<1> HIDE DEF o2, Still, quiet
<1>7. opening'[p] = o2 /\ \A q \in Starters \ {p} : opening'[q] = [opening[q] EXCEPT !.lone = Still(q)]
  BY <1>2
<1>8. ASSUME NEW q \in Starters \ {p}
      PROVE  /\ opening'[q] \in Opening /\ opening'[q].at = opening[q].at
             /\ (opening'[q].lone <=> Still(q))
             /\ \A db \in Database : InStage(opening[q], db) => InStage(opening'[q], db)
  <2>1. opening[q] \in Opening /\ Still(q) \in BOOLEAN
    BY <1>3, <1>4
  <2>2. opening'[q] = [opening[q] EXCEPT !.lone = Still(q)]
    BY <1>7
  <2> QED  BY <2>1, <2>2, LoneApart, Zenon
<1>9. \A q \in Starters : View(q)' = View(q)
  BY <1>1 DEF View
<1>10. SchemaTypeOK'
  <2>1. opening' \in [Starters -> Opening]
    <3>1. \A q \in Starters : Beside(q) \in Opening
      BY <1>2, <1>6, <1>7, <1>8
    <3> HIDE DEF Beside
    <3> QED  BY <1>2, <3>1
  <2>2. starts' \in 0 .. MaxStarts
    BY <1>1, SchemaConstants DEF SchemaInv, SchemaTypeOK
  <2> QED  BY <1>1, <2>1, <2>2, Zenon DEF SchemaInv, SchemaTypeOK
<1>11. FilesAreWhole' /\ RowsAreHeld'
  <2>1. FilesAreWhole'
    BY <1>1, Zenon DEF SchemaInv, FilesAreWhole
  <2>2. RowsAreHeld'
    BY <1>1, Zenon DEF SchemaInv, RowsAreHeld, Holds, Keyed
  <2> QED  BY <2>1, <2>2
<1>12. \A q \in Starters : /\ q # p => opening'[q].at = opening[q].at
                           /\ opening'[p].at = "tables"
  BY <1>6, <1>7, <1>8
<1>13. SpareIsOwn'
  <2>0. /\ file.copy = {} /\ (work.copy # {} => \E q \in Starters : At(q, "swap"))
        /\ \A q \in Starters :
              /\ writer = q => Busy(q)
              /\ writer = q /\ opening[q].at \notin Rebuilt \cup {"copy", "swap"} =>
                     (work.spare <=> file.spare)
              /\ At(q, "swap") => /\ writer = q
                                  /\ ~outpaced => /\ work.conns # "by account"
                                                  /\ stored \subseteq work.copy
    BY Zenon DEF SchemaInv, SpareIsOwn
  <2>1. work'.copy # {} => \E q \in Starters : At(q, "swap")'
    BY <1>1, <1>12, <2>0 DEF At
  <2>2. ASSUME NEW q \in Starters
        PROVE  (/\ writer = q => Busy(q)
                /\ writer = q /\ opening[q].at \notin Rebuilt \cup {"copy", "swap"} =>
                       (work.spare <=> file.spare)
                /\ At(q, "swap") => /\ writer = q
                                    /\ ~outpaced => /\ work.conns # "by account"
                                                    /\ stored \subseteq work.copy)'
    <3>1. CASE q # p
      <4>1. /\ (Busy(q)' <=> Busy(q)) /\ (At(q, "swap")' <=> At(q, "swap"))
            /\ opening'[q].at = opening[q].at
        BY <1>12, <3>1 DEF Busy, At
      <4> QED  BY <1>1, <2>0, <4>1, Zenon
    <3>2. CASE q = p
      <4>1. writer # p /\ ~At(p, "swap")'
        BY <1>1, <1>12, <2>0 DEF Busy, At
      <4> QED  BY <1>1, <3>2, <4>1, Zenon
    <3> QED  BY <3>1, <3>2
  <2> QED  BY <1>1, <2>0, <2>1, <2>2, Zenon DEF SpareIsOwn
<1>14. StagesHold'
  <2> SUFFICES ASSUME NEW q \in Starters PROVE InStage(opening'[q], View(q)')
    BY Zenon DEF StagesHold
  <2>1. CASE q # p
    <3>1. /\ View(q) \in Database /\ InStage(opening[q], View(q))
      BY ViewsAre
    <3> QED  BY <1>8, <1>9, <2>1, <3>1
  <2>2. CASE q = p
    BY <1>12, <2>2 DEF InStage, Widened, Rebuilt
  <2> QED  BY <2>1, <2>2
<1>15. LoneIsAlone'
  <2> SUFFICES ASSUME NEW q \in Starters, opening'[q].lone
               PROVE  /\ Busy(q)' => /\ AsRead(opening'[q], View(q)')
                                     /\ \A r \in Starters \ {q} : ~Busy(r)'
                      /\ At(q, "raised")' => file'.spare /\ work'.spare /\ NobodyCopies'
    BY Zenon DEF LoneIsAlone
  <2>1. CASE q # p
    <3>1. opening[q].lone /\ ~Busy(q)
      BY <1>8, <2>1, Zenon DEF Still
    <3>2. ~Busy(q)' /\ (At(q, "raised")' => At(q, "raised"))
      BY <1>12, <2>1, <3>1 DEF Busy, At
    <3>3. ASSUME At(q, "raised")' PROVE file'.spare /\ work'.spare /\ NobodyCopies'
      <4>1. file.spare /\ work.spare /\ NobodyCopies
        BY <3>1, <3>2, <3>3, Zenon DEF SchemaInv, LoneIsAlone
      <4>2. NobodyCopies'
        BY <1>12, <4>1 DEF NobodyCopies, At
      <4> QED  BY <1>1, <4>1, <4>2, Zenon
    <3> QED  BY <3>2, <3>3, Zenon
  <2>2. CASE q = p
    <3>1. quiet
      BY <1>6, <1>7, <2>2, Zenon
    <3>2. \A r \in Starters \ {p} : ~Busy(r)'
      BY <1>12, <3>1 DEF quiet, Busy
    <3>3. AsRead(opening'[p], View(p)') /\ ~At(p, "raised")'
      BY <1>12 DEF AsRead, At
    <3> QED  BY <2>2, <3>2, <3>3
  <2> QED  BY <2>1, <2>2
<1> QED  BY <1>10, <1>11, <1>13, <1>14, <1>15, Zenon DEF SchemaInv

\* A write of the web or the poller to a database of this version.
ServesOn(db) ==
    /\ writer = NoStarter /\ file' = db /\ work' = db
    /\ UNCHANGED <<writer, opening, starts, outpaced>>
    /\ db.spare = file.spare /\ db.copy = file.copy /\ db.conns = file.conns
    /\ db.cols = file.cols /\ Whole(db) /\ Later(file, db)
    /\ stored' \subseteq [owner: Owners, source: {"gmail", "fathom"}]
    /\ file.conns = "by account" /\ (~outpaced => \A c \in stored' : c \in db.rows)

LEMMA ServingKeepsSchema ==
    ASSUME SchemaInv, NEW db \in Database, ServesOn(db) PROVE SchemaInv'
<1> USE SchemaConstants
<1>1. /\ writer = NoStarter /\ file' = db /\ work' = db
      /\ UNCHANGED <<writer, opening, starts, outpaced>>
      /\ db.spare = file.spare /\ db.copy = file.copy /\ db.conns = file.conns
      /\ db.cols = file.cols /\ Whole(db) /\ Later(file, db)
      /\ stored' \subseteq [owner: Owners, source: {"gmail", "fathom"}]
      /\ file.conns = "by account" /\ (~outpaced => \A c \in stored' : c \in db.rows)
  BY Zenon DEF ServesOn
<1>2. file \in Database /\ work = file
  BY <1>1 DEF SchemaInv, FilesAreWhole
<1>3. \A q \in Starters : View(q) = file /\ View(q)' = db
  BY <1>1 DEF View
<1>4. SchemaTypeOK'
  BY <1>1, Zenon DEF SchemaInv, SchemaTypeOK
<1>5. FilesAreWhole'
  BY <1>1, LaterIsOrder DEF FilesAreWhole
<1>6. RowsAreHeld'
  <2>1. ASSUME ~outpaced', NEW c \in stored' PROVE Keyed(db, c)' \in db.rows
    <3>1. c \in db.rows /\ c \in [owner: Owners, source: {"gmail", "fathom"}]
      BY <1>1, <2>1, Zenon
    <3>2. Keyed(db, c) = [owner |-> c.owner, source |-> c.source]
      BY <1>1 DEF Keyed
    <3> QED  BY <3>1, <3>2 DEF Keyed
  <2>2. ~outpaced' => Holds(file)' /\ Holds(work)'
    BY <1>1, <2>1, Zenon DEF Holds, Keyed
  <2> QED  BY <1>1, <2>2, Zenon DEF RowsAreHeld
<1>7. SpareIsOwn'
  <2>0. /\ file.copy = {} /\ \A q \in Starters : At(q, "swap") => writer = q
    BY Zenon DEF SchemaInv, SpareIsOwn
  <2>1. \A q \in Starters : writer' # q /\ ~At(q, "swap") /\ (At(q, "swap")' <=> At(q, "swap"))
    BY <1>1, <2>0 DEF At
  <2> QED  BY <1>1, <2>0, <2>1, Zenon DEF SpareIsOwn
<1>8. StagesHold'
  <2> SUFFICES ASSUME NEW q \in Starters PROVE InStage(opening'[q], View(q)')
    BY Zenon DEF StagesHold
  <2>1. InStage(opening[q], file) /\ opening[q] \in Opening
    BY <1>3, ViewsAre
  <2> QED  BY <1>1, <1>2, <1>3, <2>1, StageKeeps
<1>9. LoneIsAlone'
  <2> SUFFICES ASSUME NEW q \in Starters, opening'[q].lone
               PROVE  /\ Busy(q)' => /\ AsRead(opening'[q], View(q)')
                                     /\ \A r \in Starters \ {q} : ~Busy(r)'
                      /\ At(q, "raised")' => file'.spare /\ work'.spare /\ NobodyCopies'
    BY Zenon DEF LoneIsAlone
  <2>1. /\ Busy(q) => AsRead(opening[q], file) /\ \A r \in Starters \ {q} : ~Busy(r)
        /\ At(q, "raised") => file.spare /\ work.spare /\ NobodyCopies
    BY <1>1, <1>3, Zenon DEF SchemaInv, LoneIsAlone
  <2>2. AsRead(opening[q], file) => AsRead(opening[q], db)
    BY <1>1, Zenon DEF AsRead
  <2>3. \A r \in Starters : (Busy(r)' <=> Busy(r)) /\ \A place : At(r, place)' <=> At(r, place)
    BY <1>1, Zenon DEF Busy, At
  <2>4. NobodyCopies' <=> NobodyCopies
    BY <2>3, Zenon DEF NobodyCopies
  <2> QED  BY <1>1, <1>3, <2>1, <2>2, <2>3, <2>4, Zenon
<1> QED  BY <1>4, <1>5, <1>6, <1>7, <1>8, <1>9, Zenon DEF SchemaInv

LEMMA ReadySees ==
    ASSUME SchemaInv, NEW p \in Starters, At(p, "ready"), writer = NoStarter
    PROVE  /\ file \in Database /\ Whole(file) /\ file.conns = "by account" /\ file.state = 0
           /\ (~outpaced => \A c \in stored : c \in file.rows)
           /\ stored \subseteq [owner: Owners, source: {"gmail", "fathom"}]
<1>1. View(p) = file
  BY SchemaConstants DEF View
<1>2. /\ file \in Database /\ Whole(file) /\ InStage(opening[p], file) /\ (~outpaced => Holds(file))
  BY <1>1, ViewsAre
<1>3. file.conns = "by account" /\ file.state = 0
  BY <1>2 DEF InStage, Rebuilt, At
<1>4. stored \subseteq [owner: Owners, source: {"gmail", "fathom"}]
  BY DEF SchemaInv, SchemaTypeOK
<1>5. ASSUME ~outpaced, NEW c \in stored PROVE c \in file.rows
  <2>1. Keyed(file, c) \in file.rows
    BY <1>2, <1>5, Zenon DEF Holds
  <2>2. Keyed(file, c) = [owner |-> c.owner, source |-> c.source]
    BY <1>3 DEF Keyed
  <2>3. c \in [owner: Owners, source: {"gmail", "fathom"}]
    BY <1>4
  <2> QED  BY <2>1, <2>2, <2>3
<1> QED  BY <1>2, <1>3, <1>4, <1>5

LEMMA ConnectsKeepsSchema ==
    ASSUME SchemaInv, NEW p \in Starters, Connects(p) PROVE SchemaInv'
<1>1. At(p, "ready") /\ writer = NoStarter
  BY DEF Connects
<1>2. PICK c \in [owner: Owners, source: {"gmail", "fathom"}] :
          file' = [file EXCEPT !.rows = @ \cup {c}] /\ stored' = stored \cup {c}
  BY DEF Connects
<1> DEFINE joined == file.rows \cup {c}
           db == [file EXCEPT !.rows = joined]
<1>3. /\ file \in Database /\ Whole(file) /\ file.conns = "by account" /\ file.state = 0
      /\ (~outpaced => \A d \in stored : d \in file.rows)
      /\ stored \subseteq [owner: Owners, source: {"gmail", "fathom"}]
  BY <1>1, ReadySees
<1>4. joined \subseteq Connection
  BY <1>3 DEF Database, Connection
<1>5. ~outpaced => \A d \in stored' : d \in joined
  BY <1>2, <1>3
<1>6. /\ file' = db /\ work' = db /\ UNCHANGED <<writer, opening, starts, outpaced>>
  BY <1>2, Zenon DEF Connects
<1> HIDE DEF joined
<1>7. /\ db \in Database /\ db.keyed = file.keyed /\ db.cols = file.cols /\ db.conns = file.conns
      /\ db.todo = file.todo /\ db.state = file.state /\ db.cursor = file.cursor
      /\ db.owner = file.owner /\ db.check = file.check /\ db.rows = joined
      /\ db.spare = file.spare /\ db.copy = file.copy
  BY <1>3, <1>4 DEF Database
<1> HIDE DEF db
<1>8. Whole(db)
  <2>1. db.conns # "by source"
    BY <1>3, <1>7
  <2> QED  BY <1>3, <1>7, <2>1, Zenon DEF Whole
<1>9. Later(file, db)
  BY <1>3, <1>7, LaterIsOrder, Zenon DEF Later
<1>10. stored' \subseteq [owner: Owners, source: {"gmail", "fathom"}]
  BY <1>2, <1>3
<1>11. ServesOn(db)
  BY <1>1, <1>3, <1>5, <1>6, <1>7, <1>8, <1>9, <1>10, Zenon DEF ServesOn
<1> QED  BY <1>7, <1>11, ServingKeepsSchema

LEMMA PollsKeepsSchema ==
    ASSUME SchemaInv, NEW p \in Starters, Polls(p) PROVE SchemaInv'
<1>1. At(p, "ready") /\ writer = NoStarter
  BY DEF Polls
<1> DEFINE Cursors == 0 .. 2
           db == [file EXCEPT !.cursor = 2]
<1>3. /\ file \in Database /\ Whole(file) /\ file.conns = "by account" /\ file.state = 0
      /\ (~outpaced => \A d \in stored : d \in file.rows)
      /\ stored \subseteq [owner: Owners, source: {"gmail", "fathom"}]
  BY <1>1, ReadySees
<1>4. /\ file' = db /\ work' = db /\ UNCHANGED <<writer, opening, starts, outpaced, stored>>
  BY Zenon DEF Polls
<1>5. 2 \in 0 .. 2
  OBVIOUS
<1>6. /\ db \in Database /\ db.keyed = file.keyed /\ db.cols = file.cols /\ db.conns = file.conns
      /\ db.todo = file.todo /\ db.state = file.state /\ db.cursor = 2
      /\ db.owner = file.owner /\ db.check = file.check /\ db.rows = file.rows
      /\ db.spare = file.spare /\ db.copy = file.copy
  BY <1>3, <1>5 DEF Database
<1> HIDE DEF db
<1>7. Whole(db)
  <2>0. db.state = 0 /\ db.cursor = 2
    BY <1>3, <1>6, Zenon
  <2>1. db.state + db.cursor \in 1 .. 2
    BY <2>0
  <2> QED  BY <1>3, <1>6, <2>1, Zenon DEF Whole
<1>8. Later(file, db)
  BY <1>3, <1>6, LaterIsOrder, Zenon DEF Later
<1>11. ServesOn(db)
  BY <1>1, <1>3, <1>4, <1>6, <1>7, <1>8, Zenon DEF ServesOn
<1> QED  BY <1>6, <1>11, ServingKeepsSchema

LEMMA SchemaStays == ASSUME SchemaInv, UNCHANGED schemaVars PROVE SchemaInv'
<1>1. UNCHANGED <<file, work, writer, opening, starts, stored, outpaced>>
  BY DEF schemaVars
<1>2. \A q \in Starters : View(q)' = View(q) /\ (Busy(q)' <=> Busy(q))
                          /\ \A place : At(q, place)' <=> At(q, place)
  BY <1>1, Zenon DEF View, Busy, At
<1>3. SchemaTypeOK' /\ FilesAreWhole'
  BY <1>1, Zenon DEF SchemaInv, SchemaTypeOK, FilesAreWhole
<1>4. RowsAreHeld'
  BY <1>1, Zenon DEF SchemaInv, RowsAreHeld, Holds, Keyed
<1>5. SpareIsOwn'
  BY <1>1, <1>2, Zenon DEF SchemaInv, SpareIsOwn
<1>6. StagesHold'
  BY <1>1, <1>2, Zenon DEF SchemaInv, StagesHold
<1>7. NobodyCopies' <=> NobodyCopies
  BY <1>2, Zenon DEF NobodyCopies
<1>8. LoneIsAlone'
  BY <1>1, <1>2, <1>7, Zenon DEF SchemaInv, LoneIsAlone
<1> QED  BY <1>3, <1>4, <1>5, <1>6, <1>8, Zenon DEF SchemaInv

LEMMA SchemaStepKeeps == SchemaInv /\ [SchemaNext]_schemaVars => SchemaInv'
<1> SUFFICES ASSUME SchemaInv, [SchemaNext]_schemaVars PROVE SchemaInv'
  OBVIOUS
<1>1. CASE UNCHANGED schemaVars
  BY <1>1, SchemaStays
<1>2. CASE SchemaNext
  <2>1. PICK p \in Starters :
        \/ OpenDatabase(p) \/ CreateTables(p) \/ ReadColumns(p) \/ ReadAgain(p) \/ Alter(p)
        \/ Altered(p) \/ KeyTodos(p) \/ DropColumns(p) \/ Look(p) \/ UpsertUser(p)
        \/ CreateSpare(p) \/ Copy(p) \/ Swap(p) \/ OwnTodos(p) \/ MoveCursors(p)
        \/ CheckSources(p) \/ RebuildTodos(p) \/ Finish(p)
        \/ Connects(p) \/ Polls(p) \/ Closes(p)
    BY <1>2, Zenon DEF SchemaNext
  <2>2. CASE OpenDatabase(p) \/ CreateTables(p) \/ ReadColumns(p) \/ ReadAgain(p) \/ Alter(p)
    BY <2>2, OpenKeepsSchema, TablesKeepSchema, ReadingKeepsSchema, AlterKeepsSchema, Zenon
  <2>3. CASE Altered(p) \/ KeyTodos(p) \/ DropColumns(p) \/ Look(p) \/ UpsertUser(p)
    BY <2>3, AlteredKeepsSchema, KeysKeepSchema, DropKeepsSchema, LookKeepsSchema,
       UserKeepsSchema, Zenon
  <2>4. CASE CreateSpare(p) \/ Copy(p) \/ Swap(p) \/ OwnTodos(p) \/ MoveCursors(p)
    BY <2>4, SpareKeepsSchema, CopyKeepsSchema, SwapKeepsSchema, OwnersKeepSchema,
       CursorsKeepSchema, Zenon
  <2>5. CASE CheckSources(p) \/ RebuildTodos(p) \/ Finish(p) \/ Connects(p) \/ Polls(p) \/ Closes(p)
    BY <2>5, CheckKeepsSchema, RebuildKeepsSchema, ConnectsKeepsSchema, PollsKeepsSchema,
       ClosesKeepsSchema, Zenon
  <2> QED  BY <2>1, <2>2, <2>3, <2>4, <2>5, Zenon
<1> QED  BY <1>1, <1>2

\* The inductive invariant of an upgrade, of which the rest follows.
THEOREM SchemaInvariance == SchemaSpec => []SchemaInv
<1> QED  BY SchemaStarts, SchemaStepKeeps, PTL DEF SchemaSpec

\* No upgrade loses a todo's message, a connection or a cursor, a run alone succeeds, and
\* who gets through finds the tables of this version, for any number of processes.
THEOREM UpgradesLoseNothing == SchemaSpec => []UpgradeLosesNothing
<1> QED  BY SchemaInvariance, SchemaShows, PTL

---------------------------------------------------------------------------
(* What a morning digest tells *)

\* A list that was sorted has every todo of its set, once.
LEMMA SortingsHaveAll ==
    ASSUME NEW S, IsFiniteSet(S), NEW ordered, NEW s \in Sortings(S, ordered)
    PROVE  /\ Cardinality(S) \in Nat /\ s \in Seq(S) /\ Len(s) = Cardinality(S)
           /\ \A t : In(t, s) <=> t \in S
           /\ \A i, j \in 1 .. Len(s) : s[i] = s[j] => i = j
           /\ \A i, j \in 1 .. Len(s) : i < j => <<s[i], s[j]>> \in ordered
<1> DEFINE n == Cardinality(S)
<1>1. n \in Nat
  BY FS_CardinalityType
<1> HIDE DEF n
<1>2. /\ s \in [1 .. n -> S] /\ DOMAIN s = 1 .. n
      /\ \A t \in S : \E i \in 1 .. n : s[i] = t
      /\ \A i, j \in 1 .. n : i < j => <<s[i], s[j]>> \in ordered
  BY DEF Sortings, n
<1>3. s \in Seq(S) /\ Len(s) = n
  BY <1>1, <1>2
<1>4. \A t : In(t, s) <=> t \in S
  BY <1>2 DEF In
<1>5. \A i, j \in 1 .. n : s[i] = s[j] => i = j
  <2> SUFFICES ASSUME NEW i \in 1 .. n, NEW j \in 1 .. n, s[i] = s[j], i # j PROVE FALSE
    OBVIOUS
  <2> DEFINE P == (1 .. n) \ {j}
  <2>1. IsFiniteSet(1 .. n) /\ Cardinality(1 .. n) = n
    <3>1. 1 \in Int /\ n \in Int
      BY <1>1
    <3>2. IsFiniteSet(1 .. n) /\ Cardinality(1 .. n) = IF 1 > n THEN 0 ELSE n - 1 + 1
      BY <3>1, FS_Interval, Zenon
    <3> QED  BY <1>1, <3>2
  <2>2. IsFiniteSet(P) /\ Cardinality(P) = n - 1
    BY <2>1, FS_RemoveElement
  <2>3. ASSUME NEW t \in S PROVE \E k \in P : s[k] = t
    <3>1. PICK k \in 1 .. n : s[k] = t
      BY <1>2
    <3>2. i \in P /\ (k # j => k \in P)
      OBVIOUS
    <3>3. k = j => s[i] = t
      BY <3>1
    <3> QED  BY <3>1, <3>2, <3>3
  <2> DEFINE g == [t \in S |-> CHOOSE k \in P : s[k] = t]
  <2>4. g \in [S -> P] /\ \A t \in S : s[g[t]] = t
    <3> HIDE DEF P
    <3> QED  BY <2>3
  <2> HIDE DEF g, P
  <2>5. Cardinality(P) < Cardinality(S)
    BY <1>1, <2>2 DEF n
  <2>6. PICK x, y \in S : x # y /\ g[x] = g[y]
    BY <2>2, <2>4, <2>5, FS_PigeonHole
  <2> QED  BY <2>4, <2>6
<1> QED  BY <1>1, <1>2, <1>3, <1>4, <1>5 DEF n

\* The first k places of a list without repetitions hold k todos.
LEMMA FirstPlaces ==
    ASSUME NEW S, IsFiniteSet(S), NEW s \in Seq(S), NEW k \in 0 .. Len(s),
           \A i, j \in 1 .. Len(s) : s[i] = s[j] => i = j,
           NEW T, \A t : t \in T <=> \E i \in 1 .. k : s[i] = t
    PROVE  IsFiniteSet(T) /\ Cardinality(T) = k
<1> DEFINE f == [i \in 1 .. k |-> s[i]]
           g == [t \in T |-> CHOOSE i \in 1 .. k : s[i] = t]
<1>1. T \in SUBSET S /\ f \in [1 .. k -> T]
      /\ \A i, j \in 1 .. k : f[i] = f[j] => i = j
  OBVIOUS
<1>2. g \in [T -> 1 .. k] /\ \A t \in T : s[g[t]] = t
  OBVIOUS
<1>3. IsFiniteSet(1 .. k) /\ Cardinality(1 .. k) = k
  BY FS_Interval
<1> HIDE DEF f, g
<1>4. IsFiniteSet(T) /\ Cardinality(T) \in Nat
  BY <1>1, FS_Subset, FS_CardinalityType
<1>5. ~ (Cardinality(T) < Cardinality(1 .. k))
  BY <1>1, <1>3, <1>4, FS_PigeonHole
<1>6. ~ (Cardinality(1 .. k) < Cardinality(T))
  BY <1>2, <1>3, <1>4, FS_PigeonHole
<1> QED  BY <1>3, <1>4, <1>5, <1>6

USE DigestIsDaily

\* There are finitely many todos at any time.
FewWorks == IsFiniteSet({t \in Works : agenda[t].status # "none"})

\* A todo that nobody touched since it was told as urgent is open and near its deadline.
UrgentIsNear ==
    \A t \in Works \ moved :
        In(t, mail.urgent) =>
            /\ agenda[t].status = "open" /\ agenda[t].due \in Deadlines
            /\ Effective(agenda[t].due) <= hour + UrgentWindow

\* The inductive invariant of what a digest tells.
BucketInv ==
    /\ hour \in 0 .. LastHour /\ agenda \in [Works -> Work]
    /\ FewWorks /\ UrgentIsNear

\* A deadline is an hour, and what it stands for is no earlier.
LEMMA DeadlineIsAnHour ==
    ASSUME NEW d \in Deadlines
    PROVE  /\ Instant(d) \in Nat /\ Effective(d) \in Nat
           /\ Instant(d) <= Effective(d)
<1>1. d.at \in Nat /\ DayLength \in Nat /\ DayLength >= 1
  BY DigestIsDaily
<1>2. Instant(d) \in Nat
  <2>1. d.at * DayLength \in Nat
    BY <1>1
  <2> QED  BY <1>1, <2>1 DEF Instant
<1> QED  BY <1>1, <1>2 DEF Effective

\* It holds of an empty table.
LEMMA BucketsStart == BucketInit => BucketInv
<1> SUFFICES ASSUME BucketInit PROVE BucketInv
  OBVIOUS
<1>1. hour = 0 /\ agenda = [t \in Works |-> NoWork] /\ mail.urgent = <<>>
  BY DEF BucketInit
<1>2. NoWork \in Work
  BY DEF NoWork, Work
<1>3. {t \in Works : agenda[t].status # "none"} = {}
  BY <1>1 DEF NoWork
<1>4. FewWorks
  BY <1>3, FS_EmptySet DEF FewWorks
<1>5. UrgentIsNear
  BY <1>1 DEF UrgentIsNear, In
<1> QED  BY <1>1, <1>2, <1>4, <1>5 DEF BucketInv

\* What is listed is finite, and so is what a digest sorts.
LEMMA ListsAreFinite ==
    ASSUME BucketInv
    PROVE  IsFiniteSet(Listed) /\ IsFiniteSet(Urgent) /\ IsFiniteSet(Suggestions)
<1>1. Listed \subseteq {t \in Works : agenda[t].status # "none"}
  BY DEF Listed
<1>2. IsFiniteSet(Listed)
  BY <1>1, FS_Subset DEF BucketInv, FewWorks
<1>3. Urgent \subseteq Listed /\ Suggestions \subseteq Listed
  BY DEF Urgent, Suggestions
<1> QED  BY <1>2, <1>3, FS_Subset

\* The digest has the urgent band in full and the first of the suggestions.
LEMMA DigestIs ==
    ASSUME BucketInv, SendDigest
    PROVE  \E u \in Seq(Works), s \in Seq(Works) :
              /\ mail'.urgent = u /\ (\A t : In(t, u) <=> t \in Urgent)
              /\ (\A t : In(t, s) <=> t \in Suggestions)
              /\ \A i, j \in 1 .. Len(s) : s[i] = s[j] => i = j
              /\ \A i, j \in 1 .. Len(s) : i < j => Before(s[i], s[j])
              /\ Len(s) = Cardinality(Suggestions)
              /\ mail'.suggestions = FirstOf(s)
              /\ mail'.more = Len(s) - Len(FirstOf(s))
<1> DEFINE P == {p \in Works \X Works : Sooner(p[1], p[2])}
           Q == {p \in Works \X Works : Before(p[1], p[2])}
<1>1. PICK u \in Sortings(Urgent, P), s \in Sortings(Suggestions, Q) :
         mail' = Rendered(FetchBuckets(u, s))
  BY Zenon DEF SendDigest, UrgentLists, SuggestionLists
<1>2. \A x, y : <<x, y>> \in Q => Before(x, y)
  OBVIOUS
<1> HIDE DEF P, Q
<1>3. IsFiniteSet(Urgent) /\ IsFiniteSet(Suggestions)
      /\ Urgent \subseteq Works /\ Suggestions \subseteq Works
  BY ListsAreFinite DEF Urgent, Suggestions, Listed
<1>4. u \in Seq(Urgent) /\ \A t : In(t, u) <=> t \in Urgent
  BY <1>3, SortingsHaveAll
<1>5. /\ s \in Seq(Suggestions) /\ Len(s) = Cardinality(Suggestions)
      /\ \A t : In(t, s) <=> t \in Suggestions
      /\ \A i, j \in 1 .. Len(s) : s[i] = s[j] => i = j
      /\ \A i, j \in 1 .. Len(s) : i < j => Before(s[i], s[j])
  <2>1. /\ s \in Seq(Suggestions) /\ Len(s) = Cardinality(Suggestions)
        /\ \A t : In(t, s) <=> t \in Suggestions
        /\ \A i, j \in 1 .. Len(s) : s[i] = s[j] => i = j
        /\ \A i, j \in 1 .. Len(s) : i < j => <<s[i], s[j]>> \in Q
    BY <1>3, SortingsHaveAll
  <2> QED  BY <1>2, <2>1
<1>6. /\ mail'.urgent = u /\ mail'.suggestions = FirstOf(s)
      /\ mail'.more = Len(s) - Len(FirstOf(s))
  BY <1>1, <1>5 DEF Rendered, FetchBuckets
<1>7. u \in Seq(Works) /\ s \in Seq(Works)
  BY <1>3, <1>4, <1>5
<1> QED  BY <1>4, <1>5, <1>6, <1>7

\* What is in the urgent band is open and has a deadline.
LEMMA UrgentAreDue ==
    ASSUME NEW t \in Urgent, BucketInv
    PROVE  /\ t \in Works /\ agenda[t].status = "open" /\ agenda[t].due \in Deadlines
           /\ Effective(agenda[t].due) <= hour + UrgentWindow
<1>1. t \in Works /\ agenda[t].status = "open" /\ IsUrgent(t)
  BY DEF Urgent, Listed
<1>2. agenda[t] \in Work
  BY <1>1 DEF BucketInv
<1> QED  BY <1>1, <1>2 DEF IsUrgent, Work

\* Every step keeps it.
LEMMA BucketsStep == ASSUME BucketInv, [BucketNext]_bucketVars PROVE BucketInv'
<1>1. CASE HourPasses
  <2>1. /\ hour' = hour + 1 /\ hour \in 0 .. LastHour /\ hour' \in 0 .. LastHour
        /\ UNCHANGED <<agenda, mail, moved>>
    BY <1>1 DEF HourPasses, BucketInv
  <2>2. UrgentIsNear'
    <3> SUFFICES ASSUME NEW t \in Works \ moved, In(t, mail.urgent)
                 PROVE  /\ agenda[t].status = "open" /\ agenda[t].due \in Deadlines
                        /\ Effective(agenda[t].due) <= hour + 1 + UrgentWindow
      BY <2>1 DEF UrgentIsNear
    <3>1. /\ agenda[t].status = "open" /\ agenda[t].due \in Deadlines
          /\ Effective(agenda[t].due) <= hour + UrgentWindow
      BY DEF BucketInv, UrgentIsNear
    <3>2. Effective(agenda[t].due) \in Nat
      BY <3>1, DeadlineIsAnHour
    <3> QED  BY <2>1, <3>1, <3>2
  <2> QED  BY <2>1, <2>2 DEF BucketInv, FewWorks
<1>2. ASSUME NEW t \in Works, NEW row \in Work, Writes(t, row) PROVE BucketInv'
  <2>1. /\ agenda' = [agenda EXCEPT ![t] = row] /\ moved' = moved \cup {t}
        /\ hour' = hour /\ mail' = mail /\ agenda \in [Works -> Work]
    BY <1>2 DEF Writes, BucketInv
  <2>2. agenda' \in [Works -> Work] /\ \A x \in Works \ {t} : agenda'[x] = agenda[x]
    BY <2>1
  <2>3. FewWorks'
    <3> DEFINE A == {x \in Works : agenda[x].status # "none"}
               B == {x \in Works : agenda'[x].status # "none"}
    <3>1. B \subseteq A \cup {t}
      BY <2>2
    <3>2. IsFiniteSet(A)
      BY DEF BucketInv, FewWorks
    <3> HIDE DEF A, B
    <3>3. IsFiniteSet(A \cup {t})
      BY <3>2, FS_AddElement
    <3>4. IsFiniteSet(B)
      BY <3>1, <3>3, FS_Subset
    <3> QED  BY <3>4 DEF FewWorks, B
  <2>4. UrgentIsNear'
    <3> SUFFICES ASSUME NEW x \in Works \ moved', In(x, mail'.urgent)
                 PROVE  /\ agenda'[x].status = "open" /\ agenda'[x].due \in Deadlines
                        /\ Effective(agenda'[x].due) <= hour' + UrgentWindow
      BY DEF UrgentIsNear
    <3>1. x \in Works \ moved /\ agenda'[x] = agenda[x] /\ In(x, mail.urgent)
      BY <2>1, <2>2
    <3> QED  BY <2>1, <3>1 DEF BucketInv, UrgentIsNear
  <2> QED  BY <2>1, <2>2, <2>3, <2>4 DEF BucketInv
<1>3. CASE \E t \in Works : AddWork(t) \/ CloseWork(t) \/ SetDeadline(t)
  <2>1. PICK t \in Works : AddWork(t) \/ CloseWork(t) \/ SetDeadline(t)
    BY <1>3
  <2>2. agenda[t] \in Work /\ hour \in 0 .. LastHour
    BY DEF BucketInv
  <2>3. CASE AddWork(t)
    <3>1. PICK d \in Deadlines \cup {NoDeadline} :
             Writes(t, [status |-> "open", due |-> d, created |-> hour])
      BY <2>3 DEF AddWork
    <3>2. [status |-> "open", due |-> d, created |-> hour] \in Work
      BY <2>2 DEF Work
    <3> QED  BY <1>2, <3>1, <3>2
  <2>4. CASE CloseWork(t)
    <3>1. [agenda[t] EXCEPT !.status = "closed"] \in Work
      BY <2>2 DEF Work
    <3> QED  BY <1>2, <2>4, <3>1 DEF CloseWork
  <2>5. CASE SetDeadline(t)
    <3>1. PICK d \in Deadlines : Writes(t, [agenda[t] EXCEPT !.due = d])
      BY <2>5 DEF SetDeadline
    <3>2. [agenda[t] EXCEPT !.due = d] \in Work
      BY <2>2 DEF Work
    <3> QED  BY <1>2, <3>1, <3>2
  <2> QED  BY <2>1, <2>3, <2>4, <2>5
<1>4. CASE SendDigest
  <2>1. /\ hour' = hour /\ agenda' = agenda
    BY <1>4 DEF SendDigest
  <2>2. PICK u \in Seq(Works) : mail'.urgent = u /\ \A t : In(t, u) <=> t \in Urgent
    BY <1>4, DigestIs
  <2>3. UrgentIsNear'
    <3> SUFFICES ASSUME NEW t \in Works, In(t, mail'.urgent)
                 PROVE  /\ agenda[t].status = "open" /\ agenda[t].due \in Deadlines
                        /\ Effective(agenda[t].due) <= hour + UrgentWindow
      BY <2>1 DEF UrgentIsNear
    <3> QED  BY <2>2, UrgentAreDue
  <2> QED  BY <2>1, <2>3 DEF BucketInv, FewWorks
<1>5. CASE UNCHANGED bucketVars
  BY <1>5 DEF bucketVars, BucketInv, FewWorks, UrgentIsNear
<1> QED  BY <1>1, <1>3, <1>4, <1>5 DEF BucketNext

\* The places of the suggestions that are shown.
LEMMA FirstOfIs ==
    ASSUME NEW s \in Seq(Works)
    PROVE  \E m \in 0 .. Len(s) :
              /\ m <= SuggestionLimit /\ (m < Len(s) => m = SuggestionLimit)
              /\ Len(FirstOf(s)) = m /\ DOMAIN FirstOf(s) = 1 .. m
              /\ \A i \in 1 .. m : FirstOf(s)[i] = s[i]
<1> DEFINE m == IF Len(s) < SuggestionLimit THEN Len(s) ELSE SuggestionLimit
<1>1. Len(s) \in Nat /\ SuggestionLimit \in Nat
  BY DigestIsDaily
<1>2. m \in 0 .. Len(s) /\ m <= SuggestionLimit /\ (m < Len(s) => m = SuggestionLimit)
  BY <1>1
<1>3. FirstOf(s) = SubSeq(s, 1, m)
  BY DEF FirstOf
<1> HIDE DEF m
<1>4. FirstOf(s) = [i \in 1 .. m |-> s[i]]
  BY <1>1, <1>2, <1>3
<1>5. Len(FirstOf(s)) = m /\ DOMAIN FirstOf(s) = 1 .. m
      /\ \A i \in 1 .. m : FirstOf(s)[i] = s[i]
  BY <1>2, <1>4
<1> QED  BY <1>2, <1>5

\* A digest tells of every todo that it should.
LEMMA DigestTells == ASSUME BucketInv, SendDigest PROVE UrgentStays /\ NothingIsHidden
<1>1. PICK u \in Seq(Works), s \in Seq(Works) :
         /\ mail'.urgent = u /\ (\A t : In(t, u) <=> t \in Urgent)
         /\ (\A t : In(t, s) <=> t \in Suggestions)
         /\ \A i, j \in 1 .. Len(s) : s[i] = s[j] => i = j
         /\ \A i, j \in 1 .. Len(s) : i < j => Before(s[i], s[j])
         /\ Len(s) = Cardinality(Suggestions)
         /\ mail'.suggestions = FirstOf(s)
         /\ mail'.more = Len(s) - Len(FirstOf(s))
  BY DigestIs
<1>2. UrgentStays
  <2> SUFFICES ASSUME NEW t \in Works \ moved, In(t, mail.urgent),
                      ~agenda[t].due.dateOnly, hour <= agenda[t].due.at
               PROVE  t \in Urgent
    BY <1>1 DEF UrgentStays
  <2>1. /\ agenda[t].status = "open" /\ agenda[t].due \in Deadlines
        /\ Effective(agenda[t].due) <= hour + UrgentWindow /\ hour \in Nat
    BY DEF BucketInv, UrgentIsNear
  <2>2. /\ Instant(agenda[t].due) = agenda[t].due.at /\ agenda[t].due.at \in Nat
        /\ Instant(agenda[t].due) <= Effective(agenda[t].due)
        /\ Effective(agenda[t].due) \in Nat
    BY <2>1, DeadlineIsAnHour DEF Instant
  <2>3. hour <= Effective(agenda[t].due)
    BY <2>1, <2>2
  <2>4. agenda[t].due # NoDeadline
    BY <2>1
  <2> QED  BY <2>1, <2>3, <2>4 DEF Urgent, Listed, IsUrgent
<1>3. PICK m \in 0 .. Len(s) :
         /\ m <= SuggestionLimit /\ (m < Len(s) => m = SuggestionLimit)
         /\ Len(FirstOf(s)) = m /\ DOMAIN FirstOf(s) = 1 .. m
         /\ \A i \in 1 .. m : FirstOf(s)[i] = s[i]
  BY FirstOfIs
<1> DEFINE T == {s[i] : i \in 1 .. m}
<1>4. \A t : In(t, mail'.suggestions) <=> t \in T
  BY <1>1, <1>3 DEF In
<1>5. \A t : t \in Suggestions <=> \E i \in 1 .. Len(s) : s[i] = t
  BY <1>1 DEF In
<1>6. T \subseteq Suggestions
  BY <1>5
<1>7. IsFiniteSet(Suggestions) /\ s \in Seq(Suggestions)
  <2>1. \A i \in 1 .. Len(s) : s[i] \in Suggestions
    BY <1>5
  <2> QED  BY <2>1, ListsAreFinite
<1>8. IsFiniteSet(T) /\ Cardinality(T) = m
  <2>1. \A i, j \in 1 .. Len(s) : s[i] = s[j] => i = j
    BY <1>1
  <2>2. m \in 0 .. Len(s)
    BY <1>3
  <2>3. \A t : t \in T <=> \E i \in 1 .. m : s[i] = t
    OBVIOUS
  <2> HIDE DEF T
  <2> QED  BY <1>7, <2>1, <2>2, <2>3, FirstPlaces
<1>9. Suggestions \cap Urgent = {} /\ \A t \in Listed : ~AgedOut(t) => t \in Urgent \cup Suggestions
  BY DEF Suggestions
<1>10. \A t \in Suggestions : t \in Listed /\ ~AgedOut(t)
  BY DEF Suggestions
<1>11. \A t : InMail(t) <=> t \in Urgent \/ t \in T
  BY <1>1, <1>4 DEF InMail
<1> HIDE DEF T
<1>12. {t \in Listed : ~AgedOut(t) /\ ~InMail(t)} = Suggestions \ T
  BY <1>6, <1>9, <1>10, <1>11
<1>13. Cardinality(Suggestions \ T) = Len(s) - m
  <2>1. Cardinality(Suggestions \ T) = Cardinality(Suggestions) - Cardinality(Suggestions \cap T)
    BY <1>7, <1>8, FS_Difference
  <2>2. Suggestions \cap T = T
    BY <1>6
  <2> QED  BY <1>1, <1>8, <2>1, <2>2
<1>14. mail'.more = Cardinality({t \in Listed : ~AgedOut(t) /\ ~InMail(t)})
  BY <1>1, <1>3, <1>12, <1>13
<1>15. ASSUME NEW t \in Listed
       PROVE  \/ agenda[t].created + AgeOut < hour
              \/ In(t, mail'.urgent) # In(t, mail'.suggestions)
              \/ /\ Len(mail'.suggestions) = SuggestionLimit
                 /\ \A i \in DOMAIN mail'.suggestions : Before(mail'.suggestions[i], t)
  <2>1. CASE AgedOut(t)
    BY <2>1 DEF AgedOut
  <2>2. CASE t \in Urgent
    <3>1. In(t, mail'.urgent) /\ ~In(t, mail'.suggestions)
      BY <1>1, <1>4, <1>6, <1>9, <2>2
    <3>2. In(t, mail'.urgent) = TRUE /\ In(t, mail'.suggestions) = FALSE
      BY <3>1 DEF In
    <3> QED  BY <3>2
  <2>3. CASE ~AgedOut(t) /\ t \notin Urgent /\ t \in T
    <3>1. ~In(t, mail'.urgent) /\ In(t, mail'.suggestions)
      BY <1>1, <1>4, <2>3
    <3>2. In(t, mail'.urgent) = FALSE /\ In(t, mail'.suggestions) = TRUE
      BY <3>1 DEF In
    <3> QED  BY <3>2
  <2>4. CASE ~AgedOut(t) /\ t \notin Urgent /\ t \notin T
    <3>1. PICK k \in 1 .. Len(s) : s[k] = t
      BY <1>5, <1>9, <2>4
    <3>2. ~ (k <= m)
      BY <2>4, <3>1 DEF T
    <3>3. m = SuggestionLimit /\ m < k
      BY <1>3, <3>1, <3>2
    <3>4. \A i \in 1 .. m : Before(FirstOf(s)[i], t)
      BY <1>1, <1>3, <3>1, <3>3
    <3> QED  BY <1>1, <1>3, <3>3, <3>4
  <2> QED  BY <2>1, <2>2, <2>3, <2>4
<1> QED  BY <1>2, <1>14, <1>15 DEF NothingIsHidden

\* The invariant holds in every reachable state.
THEOREM BucketInvariance == BucketSpec => []BucketInv
BY BucketsStart, BucketsStep, PTL DEF BucketSpec

\* A digest leaves out no open todo before its time.
THEOREM DigestsServe == BucketSpec => DigestServes
<1>1. ASSUME BucketInv, [BucketNext]_bucketVars, lastDay' # lastDay
      PROVE  UrgentStays /\ NothingIsHidden
  <2>1. SendDigest
    BY <1>1 DEF BucketNext, bucketVars, HourPasses, AddWork, CloseWork, SetDeadline, Writes
  <2> QED  BY <1>1, <2>1, DigestTells
<1>2. BucketInv /\ [BucketNext]_bucketVars
        => [lastDay' # lastDay => UrgentStays /\ NothingIsHidden]_bucketVars
  BY <1>1
<1> QED  BY <1>2, BucketInvariance, PTL DEF BucketSpec, DigestServes

HIDE DigestIsDaily

---------------------------------------------------------------------------
(* The parts together *)

\* Each poller starts, and each step of the poller process is a step of one or of none.
LEMMA PollersStart == PollInit => MailInit /\ NotesInit /\ SystemInit /\ DigestInit
BY DEF PollInit

LEMMA PollersStep ==
    [PollNext]_pollVars =>
        [MailNext]_mailVars /\ [NotesNext]_noteVars /\ [SystemNext]_systemVars
        /\ [DigestNext]_digestVars
BY DEF PollNext, pollVars

LEMMA PollersAreAsSpecified ==
    PollSpec => MailSpec /\ NotesSpec /\ SystemSpec /\ DigestSpec
BY PollersStart, PollersStep, PTL
   DEF PollSpec, MailSpec, NotesSpec, SystemSpec, DigestSpec

\* Nothing that comes to a poller is missed, for any server and any number of polls.
THEOREM PollsMissNothing == PollSpec => []NothingIsMissed
<1>1. MailInv /\ NotesInv /\ SystemInv => NothingIsMissed
  BY MailHandles DEF NotesInv, SystemInv, NothingIsMissed
<1> QED
  BY <1>1, PollersAreAsSpecified, MailInvariance, NotesInvariance, SystemInvariance, PTL

LEMMA LocalStarts ==
    LocalInit => /\ PollInit /\ BrowserInit /\ TableInit
                 /\ BucketInit /\ NoticeInit /\ RepliesInit /\ PhoneInit /\ EnrolInit
                 /\ GoogleInit /\ SchemaInit
                 /\ ChromeInit /\ ActivityInit
BY DEF LocalInit

LEMMA FoundSteps ==
    ASSUME [LocalNext]_localVars
    PROVE  [PollNext]_pollVars /\ [BrowserNext]_browserVars /\ [TableNext]_tableVars
<1>1. CASE FoundNext
  BY <1>1 DEF FoundNext
<1>2. CASE UNCHANGED foundVars
  BY <1>2 DEF foundVars
<1> QED  BY <1>1, <1>2 DEF LocalNext, localVars

LEMMA ToldSteps ==
    ASSUME [LocalNext]_localVars
    PROVE  /\ [BucketNext]_bucketVars /\ [NoticeNext]_noticeVars /\ [RepliesNext]_repliesVars
           /\ [PhoneNext]_phoneVars /\ [EnrolNext]_enrolVars
<1>1. CASE ToldNext
  BY <1>1 DEF ToldNext
<1>2. CASE UNCHANGED toldVars
  BY <1>2 DEF toldVars
<1> QED  BY <1>1, <1>2 DEF LocalNext, localVars

LEMMA KeptSteps ==
    ASSUME [LocalNext]_localVars
    PROVE  [GoogleNext]_googleVars /\ [SchemaNext]_schemaVars
<1>1. CASE KeptNext
  BY <1>1 DEF KeptNext
<1>2. CASE UNCHANGED keptVars
  BY <1>2 DEF keptVars
<1> QED  BY <1>1, <1>2 DEF LocalNext, localVars

LEMMA HermesSteps ==
    ASSUME [LocalNext]_localVars
    PROVE  [ChromeNext]_chromeVars /\ [ActivityNext]_activityVars
<1>1. CASE HermesNext
  BY <1>1 DEF HermesNext
<1>2. CASE UNCHANGED hermesVars
  BY <1>2 DEF hermesVars
<1> QED  BY <1>1, <1>2 DEF LocalNext, localVars

\* Put side by side, the parts of the local app behave as each of them is specified.
THEOREM LocalPartsAreAsSpecified ==
    LocalSpec => /\ PollSpec /\ BrowserSpec /\ TableSpec
                 /\ BucketSpec /\ NoticeSpec /\ RepliesSpec /\ PhoneSpec /\ EnrolSpec
                 /\ GoogleSpec /\ SchemaSpec /\ ChromeSpec /\ ActivitySpec
BY LocalStarts, FoundSteps, ToldSteps, KeptSteps, HermesSteps, PTL
   DEF LocalSpec, PollSpec, BrowserSpec, TableSpec, BucketSpec, NoticeSpec, RepliesSpec,
       PhoneSpec, EnrolSpec, GoogleSpec, SchemaSpec, ChromeSpec, ActivitySpec

\* Nothing that comes to a poller is missed, with the other parts at work beside it.
THEOREM NothingStaysMissed == LocalSpec => []NothingIsMissed
BY LocalPartsAreAsSpecified, PollsMissNothing, PTL

\* A page that was finished with is not asked about again, and a task that was done does
\* not come back as a todo.
THEOREM FinishedStaysAway == LocalSpec => []NothingComesBack
<1>1. HistoryInv /\ TableInv => NothingComesBack
  BY DEF HistoryInv, TableInv, NothingComesBack
<1> QED  BY <1>1, LocalPartsAreAsSpecified, HistoryInvariance, TableInvariance, PTL

\* What Settings says of the phones, the notifications and the accounts is so.
THEOREM SettingsStayTrue == LocalSpec => []SettingsAreTrue
<1>1. PhoneInv /\ EnrolInv /\ GoogleInv => SettingsAreTrue
  BY AccountsAreHeld DEF PhoneInv, EnrolInv, LinksHold, SettingsAreTrue
<1> QED  BY <1>1, LocalPartsAreAsSpecified, LinksInvariance, GoogleInvariance, PTL

\* A turn of Hermes tells its own steps, each once and in order, and leaves both browsers
\* as it may.
THEOREM TurnsAreAttended == LocalSpec => []TurnIsAttended
<1>1. ActivityInv /\ BrowserInv => TurnIsAttended
  BY ActivityTells, BrowserLeaves DEF TurnIsAttended
<1> QED  BY <1>1, LocalPartsAreAsSpecified, ActivityInvariance, BrowserInvariance, PTL

\* A number that is answered is taken for the option it stands at on the phone.
THEOREM AnswersStayUnderstood == LocalSpec => []AnswersAreUnderstood
<1>1. NoticeInv /\ RepliesInv => AnswersAreUnderstood
  BY NoticesAreOf DEF RepliesInv, AnswersAreUnderstood
<1> QED  BY <1>1, LocalPartsAreAsSpecified, NoticeInvariance, RepliesInvariance, PTL

\* An upgrade of the database loses nothing, whoever begins one beside whom and wherever it
\* is cut off, with the pollers and the web process at work on the rest.
THEOREM UpgradesStayWhole == LocalSpec => []UpgradeLosesNothing
BY LocalPartsAreAsSpecified, UpgradesLoseNothing, PTL

\* So it does with the other parts of the local app at work.
THEOREM DigestsStayFull == LocalSpec => DigestServes
BY LocalPartsAreAsSpecified, DigestsServe, PTL
=============================================================================
