------------------------------ MODULE Identity ------------------------------
(***************************************************************************)
(* Sign-in of the cloud application, src/cloud/identity: invitations and   *)
(* seats (admission.py), OAuth login flows (flows.py), sessions            *)
(* (sessions.py), the locks and the recovery hold they share (guard.py)    *)
(* and the callback that ties them together (http.py).                     *)
(*                                                                         *)
(* Every operation is one transaction, and so one action: it holds the     *)
(* runtime row, the admission row or the owner's row while it looks and    *)
(* writes.  The callback is not one: consume, the exchange with the        *)
(* provider, complete and fail are steps of their own, with other          *)
(* callbacks, operators, expiries and a restore between them.              *)
(*                                                                         *)
(* An owner is the subject that registered it; a prelogin cookie stands    *)
(* for its browser; a session token is the number of its login.            *)
(***************************************************************************)
EXTENDS Naturals, FiniteSets

CONSTANTS Emails, Subjects, Browsers, None,
          SeatLimit,      \* auth_admission.seat_limit (50)
          SessionLimit,   \* sessions an owner keeps (5)
          BrowserLimit,   \* logins of one browser in a bucket (10)
          GlobalLimit,    \* logins of everyone in a bucket (100)
          MaxSessions,    \* bound on the logins that succeed
          MaxFlows,       \* bound on the flows that begin
          MaxEpoch        \* bound on restores

ASSUME LimitsArePositive ==
    /\ SeatLimit \in Nat \ {0} /\ SessionLimit \in Nat \ {0}
    /\ BrowserLimit \in Nat \ {0} /\ GlobalLimit \in Nat \ {0}
ASSUME BoundsAreNatural ==
    MaxSessions \in Nat /\ MaxFlows \in Nat /\ MaxEpoch \in Nat
ASSUME PeopleAreFinite == IsFiniteSet(Emails) /\ IsFiniteSet(Subjects)
ASSUME NoneIsNobody == None \notin Subjects \cup Emails \cup Browsers

VARIABLES invite,     \* auth_invites, by email
          identity,   \* auth_identities, by subject
          flow,       \* auth_flows, by browser (browser_hash is unique)
          claims,     \* callbacks between consume and their end
          consumed,   \* how often each flow was handed to a callback
          begun,      \* flows begun so far
          session,    \* auth_sessions, by number
          issued,     \* sessions issued so far
          attempts,   \* auth_limits of the current buckets
          epoch, held \* runtime.epoch, and a recovery that was not resumed

identityVars == <<invite, identity, flow, claims, consumed, begun, session,
                  issued, attempts, epoch, held>>

Tokens == 1 .. MaxSessions
FlowIds == 1 .. MaxFlows
Epochs == 0 .. MaxEpoch

InviteRecord == [state: {"none", "open", "expired", "revoked"},
                 redeemed: Subjects \cup {None}]
IdentityRecord == [known: BOOLEAN, enabled: BOOLEAN]
FlowRecord == [id: FlowIds \cup {0}, live: BOOLEAN, epoch: Epochs,
               status: {"none", "pending", "claimed", "finished", "failed"}]
Claim == [id: FlowIds, browser: Browsers, epoch: Epochs]
SessionRecord == [owner: Subjects \cup {None}, epoch: Epochs,
                  state: {"none", "live", "expired", "revoked"},
                  flow: FlowIds \cup {0}]
NoInvite == [state |-> "none", redeemed |-> None]
NoFlow == [id |-> 0, live |-> FALSE, epoch |-> 0, status |-> "none"]
NoSession == [owner |-> None, epoch |-> 0, state |-> "none", flow |-> 0]

IdentityInit ==
    /\ invite = [e \in Emails |-> NoInvite]
    /\ identity = [s \in Subjects |-> [known |-> FALSE, enabled |-> FALSE]]
    /\ flow = [b \in Browsers |-> NoFlow]
    /\ claims = {} /\ begun = 0 /\ issued = 0
    /\ consumed = [f \in FlowIds |-> 0]
    /\ session = [t \in Tokens |-> NoSession]
    /\ attempts = [k \in Browsers \cup {None} |-> 0]
    /\ epoch = 0 /\ held = FALSE

---------------------------------------------------------------------------
(* Seats *)

Reserved == {e \in Emails : invite[e].state = "open" /\ invite[e].redeemed = None}
Registered == {s \in Subjects : identity[s].known}
Seats == Cardinality(Registered) + Cardinality(Reserved)

\* Mutant: an invitation that expired or was revoked is renewed without a seat.
InviteRenews(e) ==
    /\ ~held /\ invite[e].redeemed = None
    /\ invite[e].state = "none" => Seats < SeatLimit
    /\ invite' = [invite EXCEPT ![e].state = "open"]
    /\ UNCHANGED <<identity, flow, claims, consumed, begun, session, issued,
                   attempts, epoch, held>>

\* A seat is counted unless the invitation already holds one.
Invite(e) ==
    /\ ~held /\ invite[e].redeemed = None
    /\ e \in Reserved \/ Seats < SeatLimit
    /\ invite' = [invite EXCEPT ![e].state = "open"]
    /\ UNCHANGED <<identity, flow, claims, consumed, begun, session, issued,
                   attempts, epoch, held>>

\* Allowed during a recovery.
RevokeInvite(e) ==
    /\ invite[e].state # "none" /\ invite[e].redeemed = None
    /\ invite' = [invite EXCEPT ![e].state = "revoked"]
    /\ UNCHANGED <<identity, flow, claims, consumed, begun, session, issued,
                   attempts, epoch, held>>

---------------------------------------------------------------------------
(* Login flows *)

\* One more attempt of a bucket, kept at most one above its maximum.
Counted(n, most) == IF n > most THEN most + 1 ELSE n + 1

Counters(b) == [attempts EXCEPT ![b] = Counted(attempts[b], BrowserLimit),
                                ![None] = Counted(attempts[None], GlobalLimit)]

\* The counters move first, and stay moved when the attempt is refused.  A flow of
\* the browser that is past pending bars a new one until it expires; one that is
\* pending is replaced.
Begin(b) ==
    /\ ~held
    /\ attempts' = Counters(b)
    /\ IF /\ attempts'[b] <= BrowserLimit /\ attempts'[None] <= GlobalLimit
          /\ ~(flow[b].live /\ flow[b].status # "pending")
       THEN /\ begun < MaxFlows
            /\ begun' = begun + 1
            /\ flow' = [flow EXCEPT ![b] = [id |-> begun + 1, live |-> TRUE,
                                            epoch |-> epoch, status |-> "pending"]]
       ELSE UNCHANGED <<flow, begun>>
    /\ UNCHANGED <<invite, identity, claims, consumed, session, issued, epoch, held>>

\* Mutant: a flow that another callback has claimed is handed out again.
ConsumeAgain(b) ==
    /\ ~held
    /\ flow[b].live /\ flow[b].status \in {"pending", "claimed"}
    /\ flow[b].epoch = epoch
    /\ flow' = [flow EXCEPT ![b].status = "claimed"]
    /\ claims' = claims \cup {[id |-> flow[b].id, browser |-> b, epoch |-> epoch]}
    /\ consumed' = [consumed EXCEPT ![flow[b].id] = consumed[flow[b].id] + 1]
    /\ UNCHANGED <<invite, identity, begun, session, issued, attempts, epoch, held>>

\* The callback takes its flow: only the browser that began it finds the row.
Consume(b) ==
    /\ ~held
    /\ flow[b].live /\ flow[b].status = "pending" /\ flow[b].epoch = epoch
    /\ flow' = [flow EXCEPT ![b].status = "claimed"]
    /\ claims' = claims \cup {[id |-> flow[b].id, browser |-> b, epoch |-> epoch]}
    /\ consumed' = [consumed EXCEPT ![flow[b].id] = consumed[flow[b].id] + 1]
    /\ UNCHANGED <<invite, identity, begun, session, issued, attempts, epoch, held>>

\* The callback ends in an error, of the provider or of complete; its flow is
\* marked failed if it is still the claimed one.
Fail(c) ==
    /\ claims' = claims \ {c}
    /\ flow' = IF /\ flow[c.browser].id = c.id /\ flow[c.browser].epoch = c.epoch
                  /\ flow[c.browser].status = "claimed"
               THEN [flow EXCEPT ![c.browser].status = "failed"] ELSE flow
    /\ UNCHANGED <<invite, identity, consumed, begun, session, issued, attempts,
                   epoch, held>>

\* The worker that served the callback dies, or cannot write.
CallbackDies(c) ==
    /\ claims' = claims \ {c}
    /\ UNCHANGED <<invite, identity, flow, consumed, begun, session, issued,
                   attempts, epoch, held>>

---------------------------------------------------------------------------
(* Sessions *)

Open(t) == session[t].state \in {"live", "expired"}   \* revoked_at IS NULL
Active(s) == {t \in Tokens : /\ session[t].owner = s /\ session[t].epoch = epoch
                             /\ session[t].state = "live"}

Revoked(tokens) == [t \in Tokens |->
    IF t \in tokens /\ Open(t) THEN [session[t] EXCEPT !.state = "revoked"]
    ELSE session[t]]

\* issue_session: the oldest sessions give way until one below the limit is left.
GiveWay(active) ==
    {old \in SUBSET active :
        /\ Cardinality(old) = IF Cardinality(active) < SessionLimit THEN 0
                              ELSE Cardinality(active) + 1 - SessionLimit
        /\ \A o \in old, k \in active \ old : o < k}

\* What complete asks of the flow it was started with, and of the person.
ClaimStands(c) ==
    /\ c.epoch = epoch
    /\ LET f == flow[c.browser] IN
       f.id = c.id /\ f.status = "claimed" /\ f.live /\ f.epoch = epoch
Admitted(s, e) ==
    \/ identity[s].known /\ identity[s].enabled
    \/ ~identity[s].known /\ e \in Reserved /\ Seats <= SeatLimit

\* complete: subject s with address e signs in; p is the session the browser had.
Complete(c, s, e, p) ==
    /\ ~held /\ ClaimStands(c) /\ Admitted(s, e)
    /\ issued < MaxSessions
    /\ identity' = IF identity[s].known THEN identity
                   ELSE [identity EXCEPT ![s] = [known |-> TRUE, enabled |-> TRUE]]
    /\ invite' = IF identity[s].known THEN invite
                 ELSE [invite EXCEPT ![e].redeemed = s]
    /\ \E old \in GiveWay(Active(s) \ {p}) :
         session' = [t \in Tokens |->
             IF t = issued + 1
             THEN [owner |-> s, epoch |-> epoch, state |-> "live", flow |-> c.id]
             ELSE Revoked(old \cup {p})[t]]
    /\ issued' = issued + 1
    /\ flow' = [flow EXCEPT ![c.browser].status = "finished"]
    /\ claims' = claims \ {c}
    /\ UNCHANGED <<consumed, begun, attempts, epoch, held>>

\* lock_session: what every request of a session is checked against.
Resolves(t) ==
    /\ ~held
    /\ session[t].state = "live" /\ session[t].epoch = epoch
    /\ session[t].owner # None /\ identity[session[t].owner].enabled

\* Logging out, of one session or of all.
Logout(t, which) ==
    /\ Resolves(t)
    /\ session' = Revoked(IF which = "one" THEN {t}
                          ELSE {u \in Tokens : session[u].owner = session[t].owner})
    /\ UNCHANGED <<invite, identity, flow, claims, consumed, begun, issued,
                   attempts, epoch, held>>

\* The operator revokes an owner's sessions, or disables the owner as well; both
\* are allowed during a recovery.
Operator(s, disable) ==
    /\ identity[s].known
    /\ identity' = IF disable THEN [identity EXCEPT ![s].enabled = FALSE] ELSE identity
    /\ session' = Revoked({t \in Tokens : session[t].owner = s})
    /\ UNCHANGED <<invite, flow, claims, consumed, begun, issued, attempts,
                   epoch, held>>

---------------------------------------------------------------------------
(* Time, the purge, and recovery *)

InviteExpires(e) ==
    /\ e \in Reserved
    /\ invite' = [invite EXCEPT ![e].state = "expired"]
    /\ UNCHANGED <<identity, flow, claims, consumed, begun, session, issued,
                   attempts, epoch, held>>
FlowExpires(b) ==
    /\ flow[b].live
    /\ flow' = [flow EXCEPT ![b].live = FALSE]
    /\ UNCHANGED <<invite, identity, claims, consumed, begun, session, issued,
                   attempts, epoch, held>>
SessionExpires(t) ==
    /\ session[t].state = "live"
    /\ session' = [session EXCEPT ![t].state = "expired"]
    /\ UNCHANGED <<invite, identity, flow, claims, consumed, begun, issued,
                   attempts, epoch, held>>
BucketTurns(k) ==
    /\ attempts[k] # 0
    /\ attempts' = [attempts EXCEPT ![k] = 0]
    /\ UNCHANGED <<invite, identity, flow, claims, consumed, begun, session,
                   issued, epoch, held>>

\* purge: expired flows go; a session that goes could not have been used.
Purge(b) ==
    /\ ~held /\ flow[b].status # "none" /\ ~flow[b].live
    /\ flow' = [flow EXCEPT ![b] = NoFlow]
    /\ UNCHANGED <<invite, identity, claims, consumed, begun, session, issued,
                   attempts, epoch, held>>

BeginRestore ==
    /\ epoch < MaxEpoch
    /\ epoch' = epoch + 1 /\ held' = TRUE
    /\ UNCHANGED <<invite, identity, flow, claims, consumed, begun, session,
                   issued, attempts>>
Resume ==
    /\ held /\ held' = FALSE
    /\ UNCHANGED <<invite, identity, flow, claims, consumed, begun, session,
                   issued, attempts, epoch>>

IdentityNext ==
    \/ \E e \in Emails : Invite(e) \/ RevokeInvite(e) \/ InviteExpires(e)
    \/ \E b \in Browsers : Begin(b) \/ Consume(b) \/ FlowExpires(b) \/ Purge(b)
    \/ \E c \in claims : Fail(c) \/ CallbackDies(c)
    \/ \E c \in claims, s \in Subjects, e \in Emails, p \in 0 .. issued :
           Complete(c, s, e, p)
    \/ \E t \in Tokens : SessionExpires(t) \/ Logout(t, "one") \/ Logout(t, "all")
    \/ \E s \in Subjects, disable \in BOOLEAN : Operator(s, disable)
    \/ \E k \in Browsers \cup {None} : BucketTurns(k)
    \/ BeginRestore \/ Resume

IdentitySpec == IdentityInit /\ [][IdentityNext]_identityVars

---------------------------------------------------------------------------
(* Properties *)

IdentityTypeOK ==
    /\ invite \in [Emails -> InviteRecord]
    /\ identity \in [Subjects -> IdentityRecord]
    /\ flow \in [Browsers -> FlowRecord]
    /\ claims \in SUBSET Claim
    /\ consumed \in [FlowIds -> Nat]
    /\ begun \in 0 .. MaxFlows /\ issued \in 0 .. MaxSessions
    /\ session \in [Tokens -> SessionRecord]
    /\ attempts \in [Browsers \cup {None} -> Nat]
    /\ \A b \in Browsers : attempts[b] <= BrowserLimit + 1
    /\ attempts[None] <= GlobalLimit + 1
    /\ epoch \in Epochs /\ held \in BOOLEAN

\* However invitations, renewals, expiries and registrations race, no more seats
\* are taken than there are (admission.py seat_count), and an owner has no more
\* live sessions of the epoch than the limit (sessions.py issue_session).
SeatsWithinLimit == Seats <= SeatLimit
SessionsWithinLimit == \A s \in Subjects : Cardinality(Active(s)) <= SessionLimit
LimitsHold == SeatsWithinLimit /\ SessionsWithinLimit

\* A login flow is handed to one callback, and gives one session at most, in the
\* epoch it began in, however often its callback is called and whatever became of
\* the flow (flows.py consume, admission.py complete).
LoginOnce ==
    /\ \A f \in FlowIds : consumed[f] <= 1
    /\ \A t, u \in Tokens :
           session[t].flow # 0 /\ session[t].flow = session[u].flow => t = u

\* An owner whom an operator disabled has no session left that is not revoked, and
\* a login under way when that happened does not bring one back.
DisabledIsOut ==
    \A t \in Tokens : Open(t) => identity[session[t].owner].enabled

\* A session is earned by one login, and kept only while its owner is let in.
SessionsAreEarned == LoginOnce /\ DisabledIsOut
=============================================================================
