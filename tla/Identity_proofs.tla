--------------------------- MODULE Identity_proofs ---------------------------
(***************************************************************************)
(* Proofs about sign-in (Identity): no more seats and sessions than their  *)
(* limits, one session per login flow, none for an owner who is disabled,  *)
(* for any number of people, browsers, flows, sessions and restores.       *)
(***************************************************************************)
EXTENDS Identity, FiniteSetTheorems, TLAPS

---------------------------------------------------------------------------
(* The inductive invariant *)

\* A flow has a number of its own, and one that is still pending was given to nobody.
FlowsAreNumbered ==
    /\ \A b \in Browsers : /\ flow[b].status = "none" <=> flow[b].id = 0
                           /\ flow[b].id <= begun
                           /\ flow[b].status = "pending" => consumed[flow[b].id] = 0
    /\ \A b, c \in Browsers : flow[b].id # 0 /\ flow[b].id = flow[c].id => b = c
    /\ \A f \in FlowIds : consumed[f] <= 1 /\ (f > begun => consumed[f] = 0)

\* A session has the number of the flow that it came from, which is over.
SessionsHaveFlows ==
    /\ \A t \in Tokens : session[t].flow <= begun
    /\ \A t, u \in Tokens : session[t].flow # 0 /\ session[t].flow = session[u].flow => t = u
    /\ \A t \in Tokens, b \in Browsers :
           flow[b].id # 0 /\ session[t].flow = flow[b].id => flow[b].status = "finished"

\* A session that was not revoked is of an owner who is let in, and of no later epoch.
SessionsHaveOwners ==
    \A t \in Tokens : Open(t) => /\ session[t].owner \in Subjects
                                 /\ identity[session[t].owner].enabled
                                 /\ session[t].epoch <= epoch

IdentityInv == IdentityTypeOK /\ FlowsAreNumbered /\ SessionsHaveFlows /\ SessionsHaveOwners
               /\ SeatsWithinLimit /\ SessionsWithinLimit

---------------------------------------------------------------------------
(* How the steps touch the tables *)

\* A callback that ends in a session.
LoggedIn ==
    \E c \in claims, s \in Subjects, e \in Emails, p \in 0 .. issued : Complete(c, s, e, p)
\* Sessions that are revoked, or one that expires.
CutOff == \E old \in SUBSET Tokens : session' = Revoked(old)
RunsOut == \E t \in Tokens : session[t].state = "live"
                             /\ session' = [session EXCEPT ![t].state = "expired"]

LEMMA SessionMoves ==
    ASSUME [IdentityNext]_identityVars
    PROVE  \/ LoggedIn
           \/ (CutOff \/ RunsOut) /\ UNCHANGED <<flow, begun, epoch, issued, claims, consumed>>
           \/ UNCHANGED <<session, issued>>
<1>1. CASE UNCHANGED identityVars
  BY <1>1 DEF identityVars
<1>2. ASSUME NEW e \in Emails, Invite(e) \/ RevokeInvite(e) \/ InviteExpires(e)
      PROVE  UNCHANGED <<session, issued>>
  BY <1>2 DEF Invite, RevokeInvite, InviteExpires
<1>3. ASSUME NEW b \in Browsers, Begin(b) \/ Consume(b) \/ FlowExpires(b) \/ Purge(b)
      PROVE  UNCHANGED <<session, issued>>
  BY <1>3 DEF Begin, Consume, FlowExpires, Purge
<1>4. ASSUME NEW c \in claims, Fail(c) \/ CallbackDies(c)
      PROVE  UNCHANGED <<session, issued>>
  BY <1>4 DEF Fail, CallbackDies
<1>5. ASSUME NEW t \in Tokens, SessionExpires(t)
      PROVE  RunsOut /\ UNCHANGED <<flow, begun, epoch, issued, claims, consumed>>
  BY <1>5 DEF SessionExpires, RunsOut
<1>6. ASSUME NEW t \in Tokens, NEW which \in {"one", "all"}, Logout(t, which)
      PROVE  CutOff /\ UNCHANGED <<flow, begun, epoch, issued, claims, consumed>>
  <2>1. {t} \in SUBSET Tokens
        /\ {u \in Tokens : session[u].owner = session[t].owner} \in SUBSET Tokens
    OBVIOUS
  <2> QED  BY <1>6, <2>1 DEF Logout, CutOff
<1>7. ASSUME NEW s \in Subjects, NEW disable \in BOOLEAN, Operator(s, disable)
      PROVE  CutOff /\ UNCHANGED <<flow, begun, epoch, issued, claims, consumed>>
  <2>1. {t \in Tokens : session[t].owner = s} \in SUBSET Tokens
    OBVIOUS
  <2> QED  BY <1>7, <2>1 DEF Operator, CutOff
<1>8. ASSUME NEW k \in Browsers \cup {None}, BucketTurns(k) PROVE UNCHANGED <<session, issued>>
  BY <1>8 DEF BucketTurns
<1>9. CASE BeginRestore \/ Resume
  BY <1>9 DEF BeginRestore, Resume
<1> QED  BY <1>1, <1>2, <1>3, <1>4, <1>5, <1>6, <1>7, <1>8, <1>9, Zenon DEF IdentityNext, LoggedIn

\* What a revocation leaves of a session.
LEMMA RevokedIs ==
    ASSUME IdentityTypeOK, NEW old, NEW t \in Tokens
    PROVE  /\ Revoked(old)[t] \in SessionRecord
           /\ Revoked(old)[t].owner = session[t].owner
           /\ Revoked(old)[t].epoch = session[t].epoch
           /\ Revoked(old)[t].flow = session[t].flow
           /\ Revoked(old)[t].state = IF t \in old /\ Open(t) THEN "revoked" ELSE session[t].state
<1>1. session[t] \in SessionRecord
  BY DEF IdentityTypeOK
<1>2. CASE t \in old /\ Open(t)
  <2>1. Revoked(old)[t] = [session[t] EXCEPT !.state = "revoked"]
    BY <1>2 DEF Revoked
  <2> QED  BY <1>1, <1>2, <2>1 DEF SessionRecord
<1>3. CASE ~(t \in old /\ Open(t))
  BY <1>1, <1>3 DEF Revoked
<1> QED  BY <1>2, <1>3

\* A session that was cut off or ran out is what it was, and no more alive than before.
LEMMA CutIs ==
    ASSUME IdentityTypeOK, CutOff \/ RunsOut
    PROVE  /\ session' \in [Tokens -> SessionRecord]
           /\ \A t \in Tokens : /\ session'[t].owner = session[t].owner
                                /\ session'[t].epoch = session[t].epoch
                                /\ session'[t].flow = session[t].flow
                                /\ session'[t].state = "live" => session[t].state = "live"
                                /\ session'[t].state \in {"live", "expired"} => Open(t)
<1>1. CASE CutOff
  <2>1. PICK old \in SUBSET Tokens : session' = Revoked(old)
    BY <1>1 DEF CutOff
  <2>2. Revoked(old) = [t \in Tokens |-> Revoked(old)[t]]
    BY DEF Revoked
  <2> QED  BY <2>1, <2>2, RevokedIs DEF Open
<1>2. CASE RunsOut
  <2>1. PICK u \in Tokens : session[u].state = "live"
                            /\ session' = [session EXCEPT ![u].state = "expired"]
    BY <1>2 DEF RunsOut
  <2>2. [session[u] EXCEPT !.state = "expired"] \in SessionRecord
    BY Zenon DEF IdentityTypeOK, SessionRecord
  <2>3. session' = [session EXCEPT ![u] = [session[u] EXCEPT !.state = "expired"]]
    BY <2>1, Zenon DEF IdentityTypeOK
  <2> QED  BY <2>1, <2>2, <2>3 DEF IdentityTypeOK, SessionRecord, Open
<1> QED  BY <1>1, <1>2

\* What a login leaves: one more session, of its subject, with the number of its flow.
LEMMA LoginIs ==
    ASSUME IdentityTypeOK, NEW c \in claims, NEW s \in Subjects, NEW e \in Emails,
           NEW p \in 0 .. issued, Complete(c, s, e, p)
    PROVE  /\ session' \in [Tokens -> SessionRecord]
           /\ issued + 1 \in Tokens /\ issued' = issued + 1
           /\ session'[issued + 1] = [owner |-> s, epoch |-> epoch, state |-> "live", flow |-> c.id]
           /\ \A t \in Tokens \ {issued + 1} :
                  /\ session'[t].owner = session[t].owner
                  /\ session'[t].epoch = session[t].epoch
                  /\ session'[t].flow = session[t].flow
                  /\ session'[t].state = "live" => session[t].state = "live"
                  /\ session'[t].state \in {"live", "expired"} => Open(t)
           /\ UNCHANGED <<begun, epoch, consumed>>
<1>1. PICK old \in GiveWay(Active(s) \ {p}) :
         session' = [t \in Tokens |->
             IF t = issued + 1
             THEN [owner |-> s, epoch |-> epoch, state |-> "live", flow |-> c.id]
             ELSE Revoked(old \cup {p})[t]]
  BY DEF Complete
<1>2. issued + 1 \in Tokens /\ issued' = issued + 1 /\ UNCHANGED <<begun, epoch, consumed>>
  BY BoundsAreNatural DEF Complete, IdentityTypeOK, Tokens
<1>3. [owner |-> s, epoch |-> epoch, state |-> "live", flow |-> c.id] \in SessionRecord
  BY DEF IdentityTypeOK, Claim, SessionRecord
<1>4. \A t \in Tokens \ {issued + 1} : session'[t] = Revoked(old \cup {p})[t]
  BY <1>1
<1>5. session' \in [Tokens -> SessionRecord]
  BY <1>1, <1>3, RevokedIs
<1> QED  BY <1>1, <1>2, <1>4, <1>5, RevokedIs DEF Open

---------------------------------------------------------------------------
(* Types *)

LEMMA TypesStart == IdentityInit => IdentityTypeOK
<1> SUFFICES ASSUME IdentityInit PROVE IdentityTypeOK
  OBVIOUS
<1> USE LimitsArePositive, BoundsAreNatural DEF IdentityInit
<1>1. NoInvite \in InviteRecord /\ NoSession \in SessionRecord
  BY DEF NoInvite, NoSession, InviteRecord, SessionRecord, Epochs
<1>2. NoFlow \in FlowRecord
  BY DEF NoFlow, FlowRecord, Epochs
<1>3. [known |-> FALSE, enabled |-> FALSE] \in IdentityRecord
  BY DEF IdentityRecord
<1>4. held \in BOOLEAN
  BY Zenon
<1>5. /\ invite \in [Emails -> InviteRecord] /\ identity \in [Subjects -> IdentityRecord]
      /\ flow \in [Browsers -> FlowRecord] /\ session \in [Tokens -> SessionRecord]
  BY <1>1, <1>2, <1>3
<1>6. /\ claims \in SUBSET Claim /\ consumed \in [FlowIds -> Nat]
      /\ begun \in 0 .. MaxFlows /\ issued \in 0 .. MaxSessions /\ epoch \in Epochs
  BY DEF Epochs
<1>7. /\ attempts \in [Browsers \cup {None} -> Nat]
      /\ \A b \in Browsers : attempts[b] <= BrowserLimit + 1
      /\ attempts[None] <= GlobalLimit + 1
  OBVIOUS
<1> QED  BY <1>4, <1>5, <1>6, <1>7 DEF IdentityTypeOK

LEMMA TypeSteps ==
    ASSUME IdentityTypeOK, FlowsAreNumbered, [IdentityNext]_identityVars
    PROVE  IdentityTypeOK'
<1> USE LimitsArePositive, BoundsAreNatural
<1>1. ASSUME NEW e \in Emails, Invite(e) \/ RevokeInvite(e) \/ InviteExpires(e)
      PROVE  IdentityTypeOK'
  <2>1. PICK to \in {"open", "expired", "revoked"} : invite' = [invite EXCEPT ![e].state = to]
    BY <1>1, Zenon DEF Invite, RevokeInvite, InviteExpires
  <2>2. invite' \in [Emails -> InviteRecord]
    BY <2>1 DEF IdentityTypeOK, InviteRecord
  <2>3. UNCHANGED <<identity, flow, claims, consumed, begun, session, issued, attempts, epoch,
                    held>>
    BY <1>1 DEF Invite, RevokeInvite, InviteExpires
  <2> QED  BY <2>2, <2>3 DEF IdentityTypeOK
<1>2. ASSUME NEW b \in Browsers, Begin(b) PROVE IdentityTypeOK'
  <2>1. /\ attempts' \in [Browsers \cup {None} -> Nat]
        /\ \A a \in Browsers : attempts'[a] <= BrowserLimit + 1
        /\ attempts'[None] <= GlobalLimit + 1
    BY <1>2, NoneIsNobody DEF Begin, Counters, Counted, IdentityTypeOK
  <2>2. flow' \in [Browsers -> FlowRecord] /\ begun' \in 0 .. MaxFlows
    <3>1. CASE UNCHANGED <<flow, begun>>
      BY <3>1 DEF IdentityTypeOK
    <3>2. CASE /\ begun < MaxFlows /\ begun' = begun + 1
               /\ flow' = [flow EXCEPT ![b] = [id |-> begun + 1, live |-> TRUE,
                                              epoch |-> epoch, status |-> "pending"]]
      <4>1. begun + 1 \in FlowIds /\ begun' \in 0 .. MaxFlows
        BY <3>2 DEF IdentityTypeOK, FlowIds
      <4>2. [id |-> begun + 1, live |-> TRUE, epoch |-> epoch, status |-> "pending"] \in FlowRecord
        BY <4>1, Zenon DEF IdentityTypeOK, FlowRecord
      <4> QED  BY <3>2, <4>1, <4>2 DEF IdentityTypeOK
    <3> QED  BY <1>2, <3>1, <3>2, Zenon DEF Begin
  <2>3. UNCHANGED <<invite, identity, claims, consumed, session, issued, epoch, held>>
    BY <1>2 DEF Begin
  <2> QED  BY <2>1, <2>2, <2>3 DEF IdentityTypeOK
<1>3. ASSUME NEW b \in Browsers, Consume(b) PROVE IdentityTypeOK'
  <2>1. /\ flow[b].status = "pending" /\ flow[b] \in FlowRecord /\ flow[b].id \in FlowIds
        /\ flow' = [flow EXCEPT ![b].status = "claimed"]
        /\ claims' = claims \cup {[id |-> flow[b].id, browser |-> b, epoch |-> epoch]}
        /\ consumed' = [consumed EXCEPT ![flow[b].id] = consumed[flow[b].id] + 1]
        /\ UNCHANGED <<invite, identity, begun, session, issued, attempts, epoch, held>>
    BY <1>3 DEF Consume, IdentityTypeOK, FlowsAreNumbered, FlowRecord
  <2>2. flow' \in [Browsers -> FlowRecord] /\ consumed' \in [FlowIds -> Nat]
    BY <2>1 DEF IdentityTypeOK, FlowRecord
  <2>3. claims' \in SUBSET Claim
    BY <2>1 DEF IdentityTypeOK, Claim
  <2> QED  BY <2>1, <2>2, <2>3 DEF IdentityTypeOK
<1>4. ASSUME NEW b \in Browsers, FlowExpires(b) \/ Purge(b) PROVE IdentityTypeOK'
  <2>1. flow' = [flow EXCEPT ![b].live = FALSE] \/ flow' = [flow EXCEPT ![b] = NoFlow]
    BY <1>4 DEF FlowExpires, Purge
  <2>2. flow' \in [Browsers -> FlowRecord]
    <3>1. NoFlow \in FlowRecord
      BY DEF NoFlow, FlowRecord, Epochs
    <3>2. [flow[b] EXCEPT !.live = FALSE] \in FlowRecord
      BY Zenon DEF IdentityTypeOK, FlowRecord
    <3>3. flow' = [flow EXCEPT ![b] = [flow[b] EXCEPT !.live = FALSE]]
          \/ flow' = [flow EXCEPT ![b] = NoFlow]
      BY <2>1, Zenon DEF IdentityTypeOK
    <3> QED  BY <3>1, <3>2, <3>3 DEF IdentityTypeOK
  <2>3. UNCHANGED <<invite, identity, claims, consumed, begun, session, issued, attempts, epoch,
                    held>>
    BY <1>4 DEF FlowExpires, Purge
  <2> QED  BY <2>2, <2>3 DEF IdentityTypeOK
<1>5. ASSUME NEW c \in claims, Fail(c) \/ CallbackDies(c) PROVE IdentityTypeOK'
  <2>1. flow' = flow \/ flow' = [flow EXCEPT ![c.browser].status = "failed"]
    BY <1>5 DEF Fail, CallbackDies
  <2>2. flow' \in [Browsers -> FlowRecord]
    BY <2>1 DEF IdentityTypeOK, FlowRecord, Claim
  <2>3. /\ claims' \in SUBSET Claim
        /\ UNCHANGED <<invite, identity, consumed, begun, session, issued, attempts, epoch, held>>
    BY <1>5 DEF Fail, CallbackDies, IdentityTypeOK
  <2> QED  BY <2>2, <2>3 DEF IdentityTypeOK
<1>6. ASSUME NEW c \in claims, NEW s \in Subjects, NEW e \in Emails, NEW p \in 0 .. issued,
             Complete(c, s, e, p)
      PROVE  IdentityTypeOK'
  <2>1. session' \in [Tokens -> SessionRecord] /\ issued' \in 0 .. MaxSessions
    <3>1. session' \in [Tokens -> SessionRecord] /\ issued + 1 \in Tokens /\ issued' = issued + 1
      BY <1>6, LoginIs
    <3> QED  BY <3>1 DEF Tokens, IdentityTypeOK
  <2>2. flow' \in [Browsers -> FlowRecord] /\ claims' \in SUBSET Claim
    BY <1>6 DEF Complete, IdentityTypeOK, FlowRecord, Claim
  <2>3. identity' \in [Subjects -> IdentityRecord]
    BY <1>6 DEF Complete, IdentityTypeOK, IdentityRecord
  <2>4. invite' \in [Emails -> InviteRecord]
    BY <1>6 DEF Complete, IdentityTypeOK, InviteRecord
  <2>5. UNCHANGED <<consumed, begun, attempts, epoch, held>>
    BY <1>6 DEF Complete
  <2> QED  BY <2>1, <2>2, <2>3, <2>4, <2>5 DEF IdentityTypeOK
<1>7. CASE /\ CutOff \/ RunsOut
           /\ identity' \in [Subjects -> IdentityRecord]
           /\ UNCHANGED <<invite, flow, claims, consumed, begun, issued, attempts, epoch, held>>
  BY <1>7, CutIs DEF IdentityTypeOK
<1>8. ASSUME NEW t \in Tokens, SessionExpires(t) \/ Logout(t, "one") \/ Logout(t, "all")
      PROVE  IdentityTypeOK'
  <2>1. CutOff \/ RunsOut
    BY <1>8 DEF SessionExpires, Logout, CutOff, RunsOut
  <2>2. UNCHANGED <<invite, identity, flow, claims, consumed, begun, issued, attempts, epoch, held>>
    BY <1>8 DEF SessionExpires, Logout
  <2> QED  BY <1>7, <2>1, <2>2 DEF IdentityTypeOK
<1>9. ASSUME NEW s \in Subjects, NEW disable \in BOOLEAN, Operator(s, disable)
      PROVE  IdentityTypeOK'
  <2>1. CutOff /\ UNCHANGED <<invite, flow, claims, consumed, begun, issued, attempts, epoch, held>>
    BY <1>9 DEF Operator, CutOff
  <2>2. identity' \in [Subjects -> IdentityRecord]
    BY <1>9 DEF Operator, IdentityTypeOK, IdentityRecord
  <2> QED  BY <1>7, <2>1, <2>2
<1>10. ASSUME NEW k \in Browsers \cup {None}, BucketTurns(k) PROVE IdentityTypeOK'
  BY <1>10 DEF BucketTurns, IdentityTypeOK
<1>11. CASE BeginRestore \/ Resume \/ UNCHANGED identityVars
  <2>1. /\ epoch' \in Epochs
        /\ UNCHANGED <<invite, identity, flow, claims, consumed, begun, session, issued, attempts>>
    BY <1>11 DEF BeginRestore, Resume, identityVars, IdentityTypeOK, Epochs
  <2>2. held' \in BOOLEAN
    BY <1>11, Zenon DEF BeginRestore, Resume, identityVars, IdentityTypeOK
  <2> QED  BY <2>1, <2>2 DEF IdentityTypeOK
<1> QED  BY <1>1, <1>2, <1>3, <1>4, <1>5, <1>6, <1>8, <1>9, <1>10, <1>11, Zenon DEF IdentityNext

---------------------------------------------------------------------------
(* Login flows *)

LEMMA FlowsStart == IdentityInit => FlowsAreNumbered
BY BoundsAreNatural DEF IdentityInit, FlowsAreNumbered, NoFlow

LEMMA FlowSteps ==
    ASSUME IdentityTypeOK, FlowsAreNumbered, [IdentityNext]_identityVars
    PROVE  FlowsAreNumbered'
<1> USE BoundsAreNatural
<1>1. CASE UNCHANGED <<flow, begun, consumed>>
  BY <1>1 DEF FlowsAreNumbered
<1>2. ASSUME NEW b \in Browsers, Begin(b) PROVE FlowsAreNumbered'
  <2>1. CASE UNCHANGED <<flow, begun>>
    BY <1>2, <2>1 DEF Begin, FlowsAreNumbered
  <2>2. CASE /\ begun < MaxFlows /\ begun' = begun + 1
             /\ flow' = [flow EXCEPT ![b] = [id |-> begun + 1, live |-> TRUE,
                                            epoch |-> epoch, status |-> "pending"]]
    <3>1. /\ flow'[b].id = begun + 1 /\ flow'[b].status = "pending"
          /\ \A c \in Browsers : c # b => flow'[c] = flow[c]
      BY <2>2 DEF IdentityTypeOK
    <3>2. UNCHANGED consumed /\ begun \in Nat /\ begun + 1 \in FlowIds
      BY <1>2, <2>2 DEF Begin, IdentityTypeOK, FlowIds
    <3>3. \A c \in Browsers : flow[c].id \in Nat /\ flow[c].id <= begun
      BY DEF FlowsAreNumbered, IdentityTypeOK, FlowRecord, FlowIds
    <3>4. consumed[begun + 1] = 0
      BY <3>2 DEF FlowsAreNumbered
    <3> QED  BY <2>2, <3>1, <3>2, <3>3, <3>4 DEF FlowsAreNumbered, FlowIds
  <2> QED  BY <1>2, <2>1, <2>2, Zenon DEF Begin
<1>3. ASSUME NEW b \in Browsers, Consume(b) PROVE FlowsAreNumbered'
  <2>1. /\ flow[b].status = "pending" /\ flow[b].id # 0 /\ flow[b].id \in FlowIds
        /\ consumed[flow[b].id] = 0 /\ flow[b].id <= begun
    BY <1>3 DEF Consume, IdentityTypeOK, FlowsAreNumbered, FlowRecord
  <2>2. /\ flow' = [flow EXCEPT ![b].status = "claimed"]
        /\ consumed' = [consumed EXCEPT ![flow[b].id] = consumed[flow[b].id] + 1]
        /\ begun' = begun
    BY <1>3 DEF Consume
  <2>3. /\ \A c \in Browsers : flow'[c].id = flow[c].id
        /\ flow'[b].status = "claimed"
        /\ \A c \in Browsers : c # b => flow'[c].status = flow[c].status
    BY <2>2 DEF IdentityTypeOK, FlowRecord
  <2>4. /\ consumed'[flow[b].id] = 1
        /\ \A f \in FlowIds : f # flow[b].id => consumed'[f] = consumed[f]
    BY <2>1, <2>2 DEF IdentityTypeOK
  <2>5. \A c \in Browsers : flow[c].id \in FlowIds \cup {0}
    BY DEF IdentityTypeOK, FlowRecord
  <2>6. /\ \A f \in FlowIds : consumed'[f] <= 1 /\ (f > begun' => consumed'[f] = 0)
    BY <2>1, <2>2, <2>4 DEF FlowsAreNumbered, FlowIds, IdentityTypeOK
  <2> QED  BY <2>1, <2>2, <2>3, <2>4, <2>5, <2>6 DEF FlowsAreNumbered
<1>4. ASSUME NEW b \in Browsers, NEW to \in {"failed", "finished"}, flow[b].status = "claimed",
             flow' = [flow EXCEPT ![b].status = to], UNCHANGED <<begun, consumed>>
      PROVE  FlowsAreNumbered'
  <2>1. /\ \A c \in Browsers : flow'[c].id = flow[c].id
        /\ flow'[b].status = to
        /\ \A c \in Browsers : c # b => flow'[c].status = flow[c].status
    BY <1>4 DEF IdentityTypeOK, FlowRecord
  <2> QED  BY <1>4, <2>1 DEF FlowsAreNumbered
<1>5. ASSUME NEW c \in claims, Fail(c) \/ CallbackDies(c) PROVE FlowsAreNumbered'
  BY <1>1, <1>4, <1>5 DEF Fail, CallbackDies, IdentityTypeOK, Claim
<1>6. ASSUME NEW c \in claims, NEW s \in Subjects, NEW e \in Emails, NEW p \in 0 .. issued,
             Complete(c, s, e, p)
      PROVE  FlowsAreNumbered'
  BY <1>4, <1>6 DEF Complete, ClaimStands, IdentityTypeOK, Claim
<1>7. ASSUME NEW b \in Browsers, FlowExpires(b) \/ Purge(b) PROVE FlowsAreNumbered'
  <2>1. /\ flow' = [flow EXCEPT ![b].live = FALSE] \/ flow' = [flow EXCEPT ![b] = NoFlow]
        /\ UNCHANGED <<begun, consumed>>
    BY <1>7 DEF FlowExpires, Purge
  <2>2. \A c \in Browsers : \/ flow'[c].id = flow[c].id /\ flow'[c].status = flow[c].status
                            \/ flow'[c].id = 0 /\ flow'[c].status = "none"
    BY <2>1 DEF IdentityTypeOK, FlowRecord, NoFlow
  <2>3. begun \in Nat
    BY DEF IdentityTypeOK
  <2> QED  BY <2>1, <2>2, <2>3 DEF FlowsAreNumbered
<1>8. ASSUME NEW e \in Emails, Invite(e) \/ RevokeInvite(e) \/ InviteExpires(e)
      PROVE  UNCHANGED <<flow, begun, consumed>>
  BY <1>8 DEF Invite, RevokeInvite, InviteExpires
<1>9. ASSUME NEW t \in Tokens, SessionExpires(t) \/ Logout(t, "one") \/ Logout(t, "all")
      PROVE  UNCHANGED <<flow, begun, consumed>>
  BY <1>9 DEF SessionExpires, Logout
<1>10. ASSUME NEW s \in Subjects, NEW disable \in BOOLEAN, Operator(s, disable)
      PROVE  UNCHANGED <<flow, begun, consumed>>
  BY <1>10 DEF Operator
<1>11. ASSUME NEW k \in Browsers \cup {None}, BucketTurns(k)
      PROVE  UNCHANGED <<flow, begun, consumed>>
  BY <1>11 DEF BucketTurns
<1>12. CASE BeginRestore \/ Resume \/ UNCHANGED identityVars
  BY <1>1, <1>12 DEF BeginRestore, Resume, identityVars
<1> QED  BY <1>1, <1>2, <1>3, <1>5, <1>6, <1>7, <1>8, <1>9, <1>10, <1>11, <1>12, Zenon
         DEF IdentityNext

---------------------------------------------------------------------------
(* Sessions *)

LEMMA SessionsStart == IdentityInit => SessionsHaveFlows /\ SessionsHaveOwners
<1> SUFFICES ASSUME IdentityInit PROVE SessionsHaveFlows /\ SessionsHaveOwners
  OBVIOUS
<1>1. \A t \in Tokens : session[t].flow = 0 /\ session[t].state = "none"
  BY DEF IdentityInit, NoSession
<1>2. begun = 0
  BY DEF IdentityInit
<1> QED  BY <1>1, <1>2 DEF SessionsHaveFlows, SessionsHaveOwners, Open

\* A flow that is over stays over, until its row is of another flow.
LEMMA FlowsEnd ==
    ASSUME IdentityTypeOK, FlowsAreNumbered, [IdentityNext]_identityVars, NEW b \in Browsers,
           flow'[b].id # 0
    PROVE  \/ flow'[b].id = flow[b].id /\ (flow[b].status = "finished" => flow'[b].status = "finished")
           \/ flow'[b].id = begun + 1
<1>1. CASE UNCHANGED flow
  BY <1>1
<1>2. ASSUME NEW c \in Browsers, Begin(c)
      PROVE  flow'[b] = flow[b] \/ flow'[b].id = begun + 1
  <2>1. CASE UNCHANGED flow
    BY <2>1
  <2>2. CASE flow' = [flow EXCEPT ![c] = [id |-> begun + 1, live |-> TRUE,
                                          epoch |-> epoch, status |-> "pending"]]
    BY <2>2 DEF IdentityTypeOK
  <2> QED  BY <1>2, <2>1, <2>2, Zenon DEF Begin
<1>3. ASSUME NEW c \in Browsers, NEW to \in {"claimed", "failed", "finished"},
             flow[c].status \in {"pending", "claimed"}, flow' = [flow EXCEPT ![c].status = to]
      PROVE  /\ flow'[b].id = flow[b].id
             /\ flow[b].status = "finished" => flow'[b].status = "finished"
  BY <1>3 DEF IdentityTypeOK, FlowRecord
<1>4. ASSUME NEW c \in Browsers, FlowExpires(c) \/ Purge(c)
      PROVE  flow'[b].id = flow[b].id /\ flow'[b].status = flow[b].status
  <2>1. flow' = [flow EXCEPT ![c].live = FALSE] \/ flow' = [flow EXCEPT ![c] = NoFlow]
    BY <1>4 DEF FlowExpires, Purge
  <2> QED  BY <2>1 DEF IdentityTypeOK, FlowRecord, NoFlow
<1>5. ASSUME NEW c \in Browsers, Consume(c)
      PROVE  /\ flow'[b].id = flow[b].id
             /\ flow[b].status = "finished" => flow'[b].status = "finished"
  BY <1>3, <1>5 DEF Consume
<1>6. ASSUME NEW c \in claims, Fail(c) \/ CallbackDies(c)
      PROVE  /\ flow'[b].id = flow[b].id
             /\ flow[b].status = "finished" => flow'[b].status = "finished"
  BY <1>1, <1>3, <1>6 DEF Fail, CallbackDies, IdentityTypeOK, Claim
<1>7. ASSUME NEW c \in claims, NEW s \in Subjects, NEW e \in Emails, NEW p \in 0 .. issued,
             Complete(c, s, e, p)
      PROVE  /\ flow'[b].id = flow[b].id
             /\ flow[b].status = "finished" => flow'[b].status = "finished"
  BY <1>3, <1>7 DEF Complete, ClaimStands, IdentityTypeOK, Claim
<1>8. ASSUME NEW e \in Emails, Invite(e) \/ RevokeInvite(e) \/ InviteExpires(e)
      PROVE  UNCHANGED flow
  BY <1>8 DEF Invite, RevokeInvite, InviteExpires
<1>9. ASSUME NEW t \in Tokens, SessionExpires(t) \/ Logout(t, "one") \/ Logout(t, "all")
      PROVE  UNCHANGED flow
  BY <1>9 DEF SessionExpires, Logout
<1>10. ASSUME NEW s \in Subjects, NEW disable \in BOOLEAN, Operator(s, disable)
      PROVE  UNCHANGED flow
  BY <1>10 DEF Operator
<1>11. ASSUME NEW k \in Browsers \cup {None}, BucketTurns(k) PROVE UNCHANGED flow
  BY <1>11 DEF BucketTurns
<1>12. CASE BeginRestore \/ Resume \/ UNCHANGED identityVars
  BY <1>1, <1>12 DEF BeginRestore, Resume, identityVars
<1> QED  BY <1>1, <1>2, <1>4, <1>5, <1>6, <1>7, <1>8, <1>9, <1>10, <1>11, <1>12, Zenon
         DEF IdentityNext

\* Who is let in, and the epoch, change in a login, by the operator and in a restore.
LEMMA OthersKeepPeople ==
    ASSUME [IdentityNext]_identityVars
    PROVE  \/ LoggedIn
           \/ \E s \in Subjects, disable \in BOOLEAN : Operator(s, disable)
           \/ /\ UNCHANGED identity /\ begun' \in {begun, begun + 1}
              /\ epoch' = epoch \/ (epoch' = epoch + 1 /\ UNCHANGED session)
<1>1. ASSUME NEW e \in Emails, Invite(e) \/ RevokeInvite(e) \/ InviteExpires(e)
      PROVE  UNCHANGED <<identity, epoch, begun>>
  BY <1>1 DEF Invite, RevokeInvite, InviteExpires
<1>2. ASSUME NEW b \in Browsers, Begin(b) \/ Consume(b) \/ FlowExpires(b) \/ Purge(b)
      PROVE  UNCHANGED <<identity, epoch>> /\ begun' \in {begun, begun + 1}
  BY <1>2 DEF Begin, Consume, FlowExpires, Purge
<1>3. ASSUME NEW c \in claims, Fail(c) \/ CallbackDies(c)
      PROVE  UNCHANGED <<identity, epoch, begun>>
  BY <1>3 DEF Fail, CallbackDies
<1>4. ASSUME NEW t \in Tokens, SessionExpires(t) \/ Logout(t, "one") \/ Logout(t, "all")
      PROVE  UNCHANGED <<identity, epoch, begun>>
  BY <1>4 DEF SessionExpires, Logout
<1>5. ASSUME NEW k \in Browsers \cup {None}, BucketTurns(k)
      PROVE  UNCHANGED <<identity, epoch, begun>>
  BY <1>5 DEF BucketTurns
<1>6. CASE BeginRestore \/ Resume \/ UNCHANGED identityVars
  BY <1>6 DEF BeginRestore, Resume, identityVars
<1> HIDE DEF LoggedIn
<1> QED
  <2>1. CASE \/ LoggedIn
             \/ \E s \in Subjects, disable \in BOOLEAN : Operator(s, disable)
    BY <2>1
  <2>2. CASE UNCHANGED <<identity, epoch>> /\ begun' \in {begun, begun + 1}
    BY <2>2
  <2>3. UNCHANGED <<identity, epoch, begun>> =>
            UNCHANGED <<identity, epoch>> /\ begun' \in {begun, begun + 1}
    OBVIOUS
  <2> QED  BY <1>1, <1>2, <1>3, <1>4, <1>5, <1>6, <2>1, <2>2, <2>3, Zenon DEF IdentityNext, LoggedIn

\* A login spends its flow.
LEMMA LoginSpends ==
    ASSUME IdentityTypeOK, FlowsAreNumbered, SessionsHaveFlows,
           NEW c \in claims, NEW s \in Subjects, NEW e \in Emails, NEW p \in 0 .. issued,
           Complete(c, s, e, p)
    PROVE  SessionsHaveFlows'
<1>1. /\ c.id \in FlowIds /\ c.browser \in Browsers
      /\ flow[c.browser].id = c.id /\ flow[c.browser].status = "claimed"
      /\ flow' = [flow EXCEPT ![c.browser].status = "finished"]
  BY DEF Complete, ClaimStands, IdentityTypeOK, Claim
<1>2. /\ c.id # 0 /\ c.id <= begun
      /\ \A t \in Tokens : session[t].flow # c.id
  BY <1>1 DEF FlowsAreNumbered, SessionsHaveFlows, FlowIds
<1>3. /\ \A b \in Browsers : flow'[b].id = flow[b].id
      /\ flow'[c.browser].status = "finished"
      /\ \A b \in Browsers : b # c.browser => flow'[b].status = flow[b].status
  BY <1>1 DEF IdentityTypeOK, FlowRecord
<1>4. /\ session'[issued + 1].flow = c.id /\ begun' = begun
      /\ \A t \in Tokens \ {issued + 1} : session'[t].flow = session[t].flow
  <2>1. /\ session'[issued + 1] = [owner |-> s, epoch |-> epoch, state |-> "live", flow |-> c.id]
        /\ begun' = begun
        /\ \A t \in Tokens \ {issued + 1} : session'[t].flow = session[t].flow
    BY LoginIs
  <2> QED  BY <2>1
<1>5. \A b \in Browsers : flow[b].id = c.id => b = c.browser
  BY <1>1, <1>2 DEF FlowsAreNumbered
<1> QED  BY <1>2, <1>3, <1>4, <1>5 DEF SessionsHaveFlows

LEMMA SessionFlowSteps ==
    ASSUME IdentityTypeOK, FlowsAreNumbered, SessionsHaveFlows, [IdentityNext]_identityVars
    PROVE  SessionsHaveFlows'
<1>1. CASE LoggedIn
  BY <1>1, LoginSpends DEF LoggedIn
<1>2. CASE ~LoggedIn
  <2>1. \A t \in Tokens : session'[t].flow = session[t].flow
    BY <1>2, SessionMoves, CutIs
  <2>2. begun' \in {begun, begun + 1}
    BY <1>2, OthersKeepPeople DEF Operator
  <2>3. /\ begun \in Nat
        /\ \A t \in Tokens : session[t].flow \in Nat /\ session[t].flow <= begun
    BY DEF IdentityTypeOK, SessionRecord, FlowIds, SessionsHaveFlows
  <2>4. \A t \in Tokens, b \in Browsers :
            flow'[b].id # 0 /\ session[t].flow = flow'[b].id => flow'[b].status = "finished"
    BY <2>3, FlowsEnd DEF SessionsHaveFlows
  <2> QED  BY <2>1, <2>2, <2>3, <2>4 DEF SessionsHaveFlows
<1> QED  BY <1>1, <1>2

LEMMA SessionOwnerSteps ==
    ASSUME IdentityTypeOK, SessionsHaveOwners, [IdentityNext]_identityVars
    PROVE  SessionsHaveOwners'
<1>1. ASSUME NEW c \in claims, NEW s \in Subjects, NEW e \in Emails, NEW p \in 0 .. issued,
             Complete(c, s, e, p)
      PROVE  SessionsHaveOwners'
  <2>1. /\ identity'[s].enabled
        /\ \A u \in Subjects : identity[u].enabled => identity'[u].enabled
    BY <1>1 DEF Complete, Admitted, IdentityTypeOK, IdentityRecord
  <2>2. epoch \in Nat
    BY DEF IdentityTypeOK, Epochs
  <2>3. /\ session'[issued + 1] = [owner |-> s, epoch |-> epoch, state |-> "live", flow |-> c.id]
        /\ epoch' = epoch
        /\ \A t \in Tokens \ {issued + 1} :
               /\ session'[t].owner = session[t].owner /\ session'[t].epoch = session[t].epoch
               /\ session'[t].state \in {"live", "expired"} => Open(t)
    BY <1>1, LoginIs
  <2> QED  BY <2>1, <2>2, <2>3 DEF SessionsHaveOwners, Open
<1>2. ASSUME NEW s \in Subjects, NEW disable \in BOOLEAN, Operator(s, disable)
      PROVE  SessionsHaveOwners'
  <2> DEFINE his == {t \in Tokens : session[t].owner = s}
  <2>1. session' = Revoked(his) /\ epoch' = epoch
    BY <1>2 DEF Operator
  <2>2. \A u \in Subjects : u # s => identity'[u] = identity[u]
    BY <1>2 DEF Operator, IdentityTypeOK
  <2>3. \A t \in Tokens : /\ session'[t].owner = session[t].owner
                          /\ session'[t].epoch = session[t].epoch
                          /\ Open(t)' => Open(t) /\ session[t].owner # s
    BY <2>1, RevokedIs DEF Open
  <2> QED  BY <2>1, <2>2, <2>3 DEF SessionsHaveOwners
<1>3. CASE /\ UNCHANGED identity /\ ~LoggedIn
           /\ epoch' = epoch \/ (epoch' = epoch + 1 /\ UNCHANGED session)
  <2>1. \A t \in Tokens : /\ session'[t].owner = session[t].owner
                          /\ session'[t].epoch = session[t].epoch
                          /\ Open(t)' => Open(t)
    BY <1>3, SessionMoves, CutIs DEF Open
  <2>2. epoch \in Nat /\ \A t \in Tokens : session[t].epoch \in Nat
    BY DEF IdentityTypeOK, Epochs, SessionRecord
  <2>3. epoch' \in {epoch, epoch + 1} /\ identity' = identity
    BY <1>3
  <2>4. ASSUME NEW t \in Tokens, Open(t)'
        PROVE  (/\ session[t].owner \in Subjects
                /\ identity[session[t].owner].enabled
                /\ session[t].epoch <= epoch)'
    <3>1. Open(t) /\ session'[t].owner = session[t].owner /\ session'[t].epoch = session[t].epoch
      BY <2>1, <2>4
    <3>2. /\ session[t].owner \in Subjects /\ identity[session[t].owner].enabled
          /\ session[t].epoch <= epoch
      BY <3>1 DEF SessionsHaveOwners
    <3> QED  BY <2>2, <2>3, <3>1, <3>2
  <2> QED  BY <2>4 DEF SessionsHaveOwners
<1> QED  BY <1>1, <1>2, <1>3, OthersKeepPeople, Zenon DEF LoggedIn

---------------------------------------------------------------------------
(* Limits *)

LEMMA SeatsAreFinite ==
    ASSUME IdentityTypeOK
    PROVE  /\ IsFiniteSet(Registered) /\ IsFiniteSet(Reserved)
           /\ Cardinality(Registered) \in Nat /\ Cardinality(Reserved) \in Nat
BY PeopleAreFinite, FS_Subset, FS_CardinalityType DEF Registered, Reserved

\* Invitations that are only closed leave no more seats taken.
LEMMA SeatsGiven ==
    ASSUME IdentityTypeOK, SeatsWithinLimit, Reserved' \subseteq Reserved, Registered' = Registered
    PROVE  SeatsWithinLimit'
<1>1. Cardinality(Reserved') <= Cardinality(Reserved) /\ Cardinality(Reserved') \in Nat
  BY SeatsAreFinite, FS_Subset, FS_CardinalityType
<1> QED  BY <1>1, SeatsAreFinite, LimitsArePositive DEF SeatsWithinLimit, Seats

LEMMA SeatSteps ==
    ASSUME IdentityTypeOK, SeatsWithinLimit, [IdentityNext]_identityVars
    PROVE  SeatsWithinLimit'
<1>1. CASE UNCHANGED <<invite, identity>>
  BY <1>1 DEF SeatsWithinLimit, Seats, Reserved, Registered
<1>2. ASSUME NEW e \in Emails, Invite(e) PROVE SeatsWithinLimit'
  <2>1. /\ invite[e].redeemed = None /\ invite' = [invite EXCEPT ![e].state = "open"]
        /\ UNCHANGED identity /\ (e \in Reserved \/ Seats < SeatLimit)
    BY <1>2 DEF Invite
  <2>2. Registered' = Registered /\ Reserved' = Reserved \cup {e}
    <3>1. /\ invite'[e] = [invite[e] EXCEPT !.state = "open"]
          /\ \A o \in Emails : o # e => invite'[o] = invite[o]
      BY <2>1, Zenon DEF IdentityTypeOK
    <3>2. invite[e] \in InviteRecord
      BY DEF IdentityTypeOK
    <3>3. invite'[e].state = "open" /\ invite'[e].redeemed = None
      BY <2>1, <3>1, <3>2 DEF InviteRecord
    <3>4. /\ identity' = identity
          /\ \A o \in Emails : o # e => /\ invite'[o].state = invite[o].state
                                        /\ invite'[o].redeemed = invite[o].redeemed
      BY <2>1, <3>1
    <3> QED  BY <3>3, <3>4 DEF Registered, Reserved
  <2>3. CASE e \in Reserved
    BY <2>2, <2>3, SeatsGiven
  <2>4. CASE e \notin Reserved
    <3>1. Cardinality(Reserved') = Cardinality(Reserved) + 1
      BY <2>2, <2>4, SeatsAreFinite, FS_AddElement
    <3> QED  BY <2>1, <2>2, <2>4, <3>1, SeatsAreFinite, LimitsArePositive
             DEF SeatsWithinLimit, Seats
  <2> QED  BY <2>3, <2>4
<1>3. ASSUME NEW e \in Emails, RevokeInvite(e) \/ InviteExpires(e) PROVE SeatsWithinLimit'
  <2>1. /\ UNCHANGED identity
        /\ \E to \in {"expired", "revoked"} : invite' = [invite EXCEPT ![e].state = to]
    BY <1>3 DEF RevokeInvite, InviteExpires
  <2>2. Registered' = Registered /\ Reserved' \subseteq Reserved
    BY <2>1 DEF Registered, Reserved, IdentityTypeOK, InviteRecord
  <2> QED  BY <2>2, SeatsGiven
<1>4. ASSUME NEW c \in claims, NEW s \in Subjects, NEW e \in Emails, NEW p \in 0 .. issued,
             Complete(c, s, e, p)
      PROVE  SeatsWithinLimit'
  <2>1. CASE identity[s].known
    BY <1>1, <1>4, <2>1 DEF Complete
  <2>2. CASE ~identity[s].known
    <3>1. /\ identity' = [identity EXCEPT ![s] = [known |-> TRUE, enabled |-> TRUE]]
          /\ invite' = [invite EXCEPT ![e].redeemed = s] /\ e \in Reserved
      BY <1>4, <2>2 DEF Complete, Admitted
    <3>2. Registered' = Registered \cup {s} /\ s \notin Registered
      BY <2>2, <3>1 DEF Registered, IdentityTypeOK
    <3>3. Reserved' = Reserved \ {e}
      BY <3>1, NoneIsNobody DEF Reserved, IdentityTypeOK, InviteRecord
    <3>4. /\ Cardinality(Registered') = Cardinality(Registered) + 1
          /\ Cardinality(Reserved') = Cardinality(Reserved) - 1
      BY <3>1, <3>2, <3>3, SeatsAreFinite, FS_AddElement, FS_RemoveElement
    <3> QED  BY <3>4, SeatsAreFinite DEF SeatsWithinLimit, Seats
  <2> QED  BY <2>1, <2>2
<1>5. ASSUME NEW s \in Subjects, NEW disable \in BOOLEAN, Operator(s, disable)
      PROVE  SeatsWithinLimit'
  <2>1. UNCHANGED invite /\ (identity' = [identity EXCEPT ![s].enabled = FALSE] \/ UNCHANGED identity)
    BY <1>5 DEF Operator
  <2>2. Registered' = Registered /\ Reserved' \subseteq Reserved
    BY <2>1 DEF Registered, Reserved, IdentityTypeOK, IdentityRecord
  <2> QED  BY <2>2, SeatsGiven
<1>6. ASSUME NEW b \in Browsers, Begin(b) \/ Consume(b) \/ FlowExpires(b) \/ Purge(b)
      PROVE  UNCHANGED <<invite, identity>>
  BY <1>6 DEF Begin, Consume, FlowExpires, Purge
<1>7. ASSUME NEW c \in claims, Fail(c) \/ CallbackDies(c) PROVE UNCHANGED <<invite, identity>>
  BY <1>7 DEF Fail, CallbackDies
<1>8. ASSUME NEW t \in Tokens, SessionExpires(t) \/ Logout(t, "one") \/ Logout(t, "all")
      PROVE  UNCHANGED <<invite, identity>>
  BY <1>8 DEF SessionExpires, Logout
<1>9. ASSUME NEW k \in Browsers \cup {None}, BucketTurns(k) PROVE UNCHANGED <<invite, identity>>
  BY <1>9 DEF BucketTurns
<1>10. CASE BeginRestore \/ Resume \/ UNCHANGED identityVars
  BY <1>1, <1>10 DEF BeginRestore, Resume, identityVars
<1> QED  BY <1>1, <1>2, <1>3, <1>4, <1>5, <1>6, <1>7, <1>8, <1>9, <1>10, Zenon DEF IdentityNext

LEMMA ActiveIsFinite ==
    ASSUME IdentityTypeOK, NEW s
    PROVE  IsFiniteSet(Active(s)) /\ Cardinality(Active(s)) \in Nat
<1>1. IsFiniteSet(Tokens)
  BY BoundsAreNatural, FS_Interval DEF Tokens
<1> QED  BY <1>1, FS_Subset, FS_CardinalityType DEF Active

\* The sessions that give way leave one place below the limit.
LEMMA OneGivesWay ==
    ASSUME NEW active, IsFiniteSet(active), NEW old \in GiveWay(active)
    PROVE  IsFiniteSet(active \ old) /\ Cardinality(active \ old) + 1 <= SessionLimit
<1>1. /\ old \subseteq active /\ IsFiniteSet(old) /\ IsFiniteSet(active \ old)
      /\ Cardinality(active) \in Nat /\ Cardinality(old) \in Nat /\ Cardinality(active \ old) \in Nat
  BY FS_Subset, FS_CardinalityType DEF GiveWay
<1>2. Cardinality(active \ old) = Cardinality(active) - Cardinality(old)
  <2>1. active \cap old = old
    BY <1>1
  <2> QED  BY <2>1, FS_Difference
<1>3. Cardinality(old) = IF Cardinality(active) < SessionLimit THEN 0
                         ELSE Cardinality(active) + 1 - SessionLimit
  BY DEF GiveWay
<1> QED  BY <1>1, <1>2, <1>3, LimitsArePositive

LEMMA ActiveSteps ==
    ASSUME IdentityTypeOK, SessionsHaveOwners, SessionsWithinLimit, [IdentityNext]_identityVars
    PROVE  SessionsWithinLimit'
<1> SUFFICES ASSUME NEW u \in Subjects PROVE Cardinality(Active(u)') <= SessionLimit
  BY DEF SessionsWithinLimit
<1>0. IsFiniteSet(Active(u)) /\ Cardinality(Active(u)) <= SessionLimit
      /\ Cardinality(Active(u)) \in Nat
  BY ActiveIsFinite DEF SessionsWithinLimit
<1>1. ASSUME Active(u)' \subseteq Active(u) PROVE Cardinality(Active(u)') <= SessionLimit
  <2>1. Cardinality(Active(u)') \in Nat /\ Cardinality(Active(u)') <= Cardinality(Active(u))
    BY <1>0, <1>1, FS_Subset, FS_CardinalityType
  <2> QED  BY <1>0, <2>1, LimitsArePositive
<1>2. ASSUME NEW c \in claims, NEW s \in Subjects, NEW e \in Emails, NEW p \in 0 .. issued,
             Complete(c, s, e, p)
      PROVE  Cardinality(Active(u)') <= SessionLimit
  <2>1. /\ session'[issued + 1] = [owner |-> s, epoch |-> epoch, state |-> "live", flow |-> c.id]
        /\ epoch' = epoch
        /\ \A t \in Tokens \ {issued + 1} :
               /\ session'[t].owner = session[t].owner /\ session'[t].epoch = session[t].epoch
               /\ session'[t].state = "live" => session[t].state = "live"
    BY <1>2, LoginIs
  <2>2. CASE u # s
    <3>1. Active(u)' \subseteq Active(u)
      BY <2>1, <2>2 DEF Active
    <3> QED  BY <1>1, <3>1
  <2>3. CASE u = s
    <3>1. PICK old \in GiveWay(Active(s) \ {p}) :
             session' = [t \in Tokens |->
                 IF t = issued + 1
                 THEN [owner |-> s, epoch |-> epoch, state |-> "live", flow |-> c.id]
                 ELSE Revoked(old \cup {p})[t]]
      BY <1>2 DEF Complete
    <3> DEFINE active == Active(s) \ {p}
    <3> DEFINE kept == active \ old
    <3>2. IsFiniteSet(active)
      BY <1>0, <2>3, FS_Subset
    <3>3. IsFiniteSet(kept) /\ Cardinality(kept) + 1 <= SessionLimit
      BY <3>1, <3>2, OneGivesWay
    <3>4. \A t \in Tokens \ {issued + 1} :
              session'[t].state = IF t \in old \cup {p} /\ Open(t) THEN "revoked" ELSE session[t].state
      BY <3>1, RevokedIs
    <3>5. Active(s)' \subseteq kept \cup {issued + 1}
      BY <2>1, <3>4 DEF Active, Open
    <3> HIDE DEF kept
    <3>6. /\ IsFiniteSet(kept \cup {issued + 1}) /\ Cardinality(kept) \in Nat
          /\ Cardinality(kept \cup {issued + 1}) \in {Cardinality(kept), Cardinality(kept) + 1}
      BY <3>3, FS_AddElement, FS_CardinalityType
    <3>7. /\ Cardinality(Active(s)') \in Nat
          /\ Cardinality(Active(s)') <= Cardinality(kept \cup {issued + 1})
      BY <3>5, <3>6, FS_Subset, FS_CardinalityType
    <3> QED  BY <2>3, <3>3, <3>6, <3>7, LimitsArePositive
  <2> QED  BY <2>2, <2>3
<1>3. CASE ~LoggedIn /\ epoch' = epoch
  <2>1. \A t \in Tokens : /\ session'[t].owner = session[t].owner
                          /\ session'[t].epoch = session[t].epoch
                          /\ session'[t].state = "live" => session[t].state = "live"
    BY <1>3, SessionMoves, CutIs
  <2>2. Active(u)' \subseteq Active(u)
    BY <1>3, <2>1 DEF Active
  <2> QED  BY <1>1, <2>2
<1>4. CASE epoch' = epoch + 1 /\ UNCHANGED session
  <2>1. epoch \in Nat /\ \A t \in Tokens : session[t].epoch \in Nat
    BY DEF IdentityTypeOK, Epochs, SessionRecord
  <2>2. Active(u)' \subseteq Active(u)
    BY <1>4, <2>1 DEF Active, SessionsHaveOwners, Open
  <2> QED  BY <1>1, <2>2
<1>5. ASSUME NEW s \in Subjects, NEW disable \in BOOLEAN, Operator(s, disable) PROVE epoch' = epoch
  BY <1>5 DEF Operator
<1> QED  BY <1>2, <1>3, <1>4, <1>5, OthersKeepPeople, Zenon DEF LoggedIn

---------------------------------------------------------------------------
(* The theorems *)

LEMMA IdentityStarts == IdentityInit => IdentityInv
<1> SUFFICES ASSUME IdentityInit PROVE IdentityInv
  OBVIOUS
<1>1. Reserved = {} /\ Registered = {} /\ \A s \in Subjects : Active(s) = {}
  BY DEF IdentityInit, NoInvite, NoSession, Reserved, Registered, Active
<1>2. SeatsWithinLimit /\ SessionsWithinLimit
  BY <1>1, FS_EmptySet, LimitsArePositive DEF SeatsWithinLimit, Seats, SessionsWithinLimit
<1> QED  BY <1>2, TypesStart, FlowsStart, SessionsStart DEF IdentityInv

LEMMA IdentitySteps == IdentityInv /\ [IdentityNext]_identityVars => IdentityInv'
BY TypeSteps, FlowSteps, SessionFlowSteps, SessionOwnerSteps, SeatSteps, ActiveSteps
DEF IdentityInv

\* The inductive invariant of sign-in holds in every reachable state.
THEOREM IdentityInvariance == IdentitySpec => []IdentityInv
BY IdentityStarts, IdentitySteps, PTL DEF IdentitySpec

\* Every table of sign-in keeps its type (src/cloud/identity).
THEOREM IdentityTypes == IdentitySpec => []IdentityTypeOK
<1>1. IdentityInv => IdentityTypeOK
  BY DEF IdentityInv
<1> QED  BY <1>1, IdentityInvariance, PTL

\* However invitations, renewals, expiries, registrations and logins race, the seats and
\* the sessions of an owner stay within their limits (src/cloud/identity/admission.py:41,
\* sessions.py:13).
THEOREM LimitsAreKept == IdentitySpec => []LimitsHold
<1>1. IdentityInv => LimitsHold
  BY DEF IdentityInv, LimitsHold
<1> QED  BY <1>1, IdentityInvariance, PTL

\* A login flow is consumed once and gives one session at most, and no owner who was
\* disabled keeps or regains one (src/cloud/identity/flows.py:53).
THEOREM SessionsStayEarned == IdentitySpec => []SessionsAreEarned
<1>1. IdentityInv => SessionsAreEarned
  BY DEF IdentityInv, FlowsAreNumbered, SessionsHaveFlows, SessionsHaveOwners,
         SessionsAreEarned, LoginOnce, DisabledIsOut
<1> QED  BY <1>1, IdentityInvariance, PTL
=============================================================================
