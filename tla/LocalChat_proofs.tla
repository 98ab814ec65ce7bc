--------------------------- MODULE LocalChat_proofs ---------------------------
(***************************************************************************)
(* Proofs about the conversations of the local app (LocalChat), for any    *)
(* number of request threads, runs, messages and restarts: the session the *)
(* next turn on a todo would resume is one its thread shows, and a message *)
(* starts one turn in each process (ChatInv); a run at work is in reach    *)
(* (RunIsInReach itself, with ChatInv); a turn that was recorded stays,    *)
(* but for what crossed it (RecordInv, with ChatInv).                      *)
(***************************************************************************)
EXTENDS LocalChat, FiniteSetTheorems, TLAPS

---------------------------------------------------------------------------
(* The invariants *)

\* A session is remembered with a thread that shows the turn that opened it.
Remembers(seq, s) == s # None => Contains(seq, s)

\* A request under way is for a conversation there is, one that looks up a message
\* has one, the chat alone is read in two parts, and the copy of a todo's row is
\* like the row.
WellFormed(q) ==
    /\ q.step # "idle" => q.conv \in Conversations
    /\ q.step = "deliver" => q.turn.from # None
    /\ q.step = "recall" => q.conv = Chat
    /\ q.conv # Chat => Remembers(q.turn.base, q.turn.carried)

\* So is each request; a run has its conversation and its place, and a registered
\* run is of the conversation it is registered for.
RowsAgree ==
    /\ \A t \in Threads : WellFormed(req[t])
    /\ \A r \in Runs : ~Fresh(r) => run[r].conv \in Conversations
    /\ \A r \in Runs : Fresh(r) => run[r].at = "unborn"
    /\ \A r \in Runs : run[r].status \in Terminal => run[r].at = "over"
    /\ \A c \in Conversations : registry[c] # None =>
           run[registry[c]].conv = c /\ ~Fresh(registry[c])

\* The row of a todo, and the copy of it a run was started with.
MemoryHolds ==
    /\ \A c \in Conversations \ {Chat} : Remembers(log[c], session[c])
    /\ \A r \in Runs : run[r].conv # Chat => Remembers(turn[r].base, turn[r].carried)

\* A message has one request at most, which notes it when it has looked it up, and
\* no more turns than the processes that were restarted, but for the one of this
\* process once the request is through.
Begun(m) == {r \in Runs : ~Fresh(r) /\ turn[r].from = m}
Pending(m) == {t \in Threads : req[t].turn.from = m}
TurnsCounted ==
    \A m \in Messages \ twice :
        /\ \A t, u \in Pending(m) : t = u
        /\ \A t \in Pending(m) : m \in handled <=> req[t].step # "deliver"
        /\ IsFiniteSet(Begun(m))
        /\ Cardinality(Begun(m))
             <= restarts + (IF m \in handled /\ Pending(m) = {} THEN 1 ELSE 0)

ChatInv == TypeOK /\ RowsAgree /\ MemoryHolds /\ TurnsCounted

\* What has been written to a thread, and may be in one or in a copy of one.
Ends == {"saved", "told", "over"}
Written == {r \in Runs : run[r].at \in Ends} \cup (posted \ {append.on})

\* The thread seq keeps the turn r, given what was forgotten, the turns and what the
\* notices could see: it contains the turn, or one that crossed it.
Keeps(seq, r, forgotten, turns, seen) ==
    \/ Contains(seq, r) \/ r \in forgotten
    \/ \E q \in Item : /\ Contains(seq, q)
                       /\ r \notin (IF q \in Runs THEN turns[q].saw ELSE seen[q])
                       /\ ~Contains(turns[r].base, q)

\* A copy seq of a thread fits the turns that were stored when it was taken: it has
\* nothing but what was written, and it keeps them.
Fits(seq, stored, written, forgotten, turns, seen) ==
    /\ \A x \in Item : Contains(seq, x) => x \in written
    /\ \A r \in stored : /\ r \in Runs /\ r \in written
                         /\ Keeps(seq, r, forgotten, turns, seen)

\* So do the threads themselves, and every copy that may be written back.
RecordInv ==
    /\ append.on # None => append.on \in posted
    /\ \A c \in Conversations : Fits(log[c], Stored(c), Written, gone, turn, noted)
    /\ \A t \in Threads :
           Fits(req[t].turn.base, req[t].turn.saw, Written, gone, turn, noted)
    /\ \A r \in Runs : Fits(turn[r].base, turn[r].saw, Written, gone, turn, noted)
    /\ append.on # None =>
           Fits(append.base, noted[append.on], Written, gone, turn, noted)

---------------------------------------------------------------------------
(* Threads of bubbles *)

LEMMA AppendContains ==
    ASSUME NEW s \in Seq(Item), NEW e, NEW x
    PROVE  Contains(Append(s, e), x) <=> Contains(s, x) \/ x = e
<1>1. ASSUME Contains(Append(s, e), x) PROVE Contains(s, x) \/ x = e
  BY <1>1 DEF Contains
<1>2. ASSUME Contains(s, x) PROVE Contains(Append(s, e), x)
  <2>1. PICK i \in 1 .. Len(s) : s[i] = x
    BY <1>2 DEF Contains
  <2>2. i \in 1 .. Len(Append(s, e)) /\ Append(s, e)[i] = x
    BY <2>1
  <2> QED  BY <2>2 DEF Contains
<1>3. ASSUME x = e PROVE Contains(Append(s, e), x)
  <2>1. /\ Len(s) + 1 \in 1 .. Len(Append(s, e))
        /\ Append(s, e)[Len(s) + 1] = x
    BY <1>3
  <2> QED  BY <2>1 DEF Contains
<1> QED  BY <1>1, <1>2, <1>3

LEMMA FreshRun == ASSUME \E r \in Runs : Fresh(r) PROVE NewRun \in Runs /\ Fresh(NewRun)
BY Zenon DEF NewRun

---------------------------------------------------------------------------
(* Types *)

LEMMA TurnTypes ==
    /\ NoTurn \in TurnRecord /\ Idle \in Request /\ WellFormed(Idle)
    /\ NoTurn.base = <<>> /\ NoTurn.carried = None /\ NoTurn.from = None /\ NoTurn.saw = {}
    /\ Idle.step = "idle" /\ Idle.conv = Chat /\ Idle.turn = NoTurn
<1>1. <<>> \in Seq(Item)
  OBVIOUS
<1> QED  BY <1>1 DEF NoTurn, TurnRecord, Idle, Request, Steps, WellFormed

LEMMA RunTypes == Unborn \in RunRecord /\ NewToken \in TokenRecord
BY DEF Unborn, RunRecord, Statuses, Places, Endings, Procs, NewToken, TokenRecord

LEMMA TypesStart == Init => TypeOK
<1> SUFFICES ASSUME Init PROVE TypeOK
  OBVIOUS
<1>1. /\ registry \in [Conversations -> Runs \cup {None}]
      /\ run \in [Runs -> RunRecord] /\ token \in [Runs -> TokenRecord]
  BY RunTypes DEF Init, RunsInit
<1>2. /\ log \in [Conversations -> Seq(Item)]
      /\ session \in [Conversations -> Runs \cup {None}]
      /\ turn \in [Runs -> TurnRecord] /\ req \in [Threads -> Request]
      /\ append \in [on: Notices \cup {None}, base: Seq(Item)]
  <2>1. <<>> \in Seq(Item)
    OBVIOUS
  <2> QED  BY <2>1, TurnTypes DEF Init, NoAppend
<1>3. /\ posted \in SUBSET Notices /\ handled \in SUBSET Messages
      /\ replied \in SUBSET Runs /\ restarts \in 0 .. MaxRestarts
      /\ noted \in [Notices -> SUBSET Runs]
      /\ gone \in SUBSET Runs /\ dropped \in SUBSET Runs /\ twice \in SUBSET Messages
  BY RestartsBounded DEF Init
<1> QED  BY <1>1, <1>2, <1>3 DEF TypeOK

RunTypeOK ==
    /\ registry \in [Conversations -> Runs \cup {None}]
    /\ run \in [Runs -> RunRecord] /\ token \in [Runs -> TokenRecord]

LEMMA KilledTypes ==
    ASSUME RunTypeOK, NEW r \in Runs
    PROVE  /\ Killed(r) \subseteq Procs /\ LeaderEnds(r) \subseteq Procs
           /\ AttachKills(r) \subseteq Procs /\ token[r].proc \in Procs
BY DEF RunTypeOK, Killed, LeaderEnds, AttachKills, TokenRecord, Procs

\* What the thread of a run does to the run.
GoesOn(r) ==
    /\ registry' = registry
    /\ run' \in [Runs -> RunRecord] /\ token' \in [Runs -> TokenRecord]
    /\ \A q \in Runs \ {r} : run'[q] = run[q] /\ token'[q] = token[q]
    /\ run'[r].conv = run[r].conv /\ token'[r].stopped = token[r].stopped
    /\ run'[r].status = "unborn" <=> run[r].status = "unborn"
    /\ run'[r].status = "running" => run[r].status = "running"
    /\ run'[r].status = "unborn" => run'[r].at = "unborn"
    /\ run'[r].status \in Terminal => run'[r].at = "over"
    /\ run[r].at \in Ends => run'[r].at \in Ends

\* The run is one of those whose turn is recorded.
IsRecorded(r) ==
    /\ ToRecord(r)
    /\ run[r].at \in {"saved", "told"} \/ run[r].status \in Terminal

LEMMA RunGoesOn ==
    ASSUME RunTypeOK, RowsAgree, NEW r \in Runs, Executes(r) \/ AgentMoves(r)
    PROVE  GoesOn(r) /\ (IsRecorded(r)' => IsRecorded(r)) /\ UNCHANGED chatVars
<1>s. RunRecord = [conv: Conversations \cup {None}, engine: Engines \cup {"hermes"},
              status: Statuses, at: Places, ending: Endings]
      /\ TokenRecord = [stopped: BOOLEAN, proc: Procs, acted: BOOLEAN]
  BY DEF RunRecord, TokenRecord
<1>t. run \in [Runs -> RunRecord] /\ token \in [Runs -> TokenRecord]
  BY DEF RunTypeOK
<1>d. /\ run[r].status = "unborn" => run[r].at = "unborn"
      /\ run[r].status \in Terminal => run[r].at = "over"
  BY DEF RowsAgree, Fresh
<1>k. /\ Killed(r) \subseteq Procs /\ LeaderEnds(r) \subseteq Procs
      /\ AttachKills(r) \subseteq Procs /\ token[r].proc \in Procs
  BY KilledTypes
<1>0. UNCHANGED chatVars
  BY Zenon DEF Executes, AgentMoves
<1>1. CASE Launch(r)
  <2>1. run' \in [Runs -> RunRecord] /\ token' \in [Runs -> TokenRecord]
    <3>1. /\ "spawned" \in Places /\ "ended" \in Places /\ "failed" \in Endings
          /\ "up" \in Procs
      BY DEF Places, Endings, Procs
    <3>2. run' \in [Runs -> RunRecord]
      <4>1. CASE run' = [run EXCEPT ![r].at = "spawned"]
        BY <4>1, <1>t, <1>s, <3>1
      <4>2. CASE run' = [run EXCEPT ![r].at = "ended", ![r].ending = "failed"]
        BY <4>2, <1>t, <1>s, <3>1
      <4> QED  BY <4>1, <4>2, <1>1 DEF Launch
    <3>3. token' \in [Runs -> TokenRecord]
      BY <1>1, <1>t, <1>s, <3>1 DEF Launch
    <3> QED  BY <3>2, <3>3
  <2> QED  BY <1>0, <1>1, <1>t, <1>d, <2>1, <1>s DEF Launch, GoesOn, Ends, Terminal, IsRecorded, ToRecord, Live
<1>2. CASE Attach(r)
  <2>1. run' \in [Runs -> RunRecord] /\ token' \in [Runs -> TokenRecord]
    BY <1>2, <1>t, <1>s, <1>k DEF Attach, Places
  <2> QED  BY <1>0, <1>2, <1>t, <1>d, <2>1, <1>s DEF Attach, GoesOn, Ends, Terminal, IsRecorded, ToRecord, Live
<1>3. CASE Timeout(r)
  <2>1. run' \in [Runs -> RunRecord] /\ token' \in [Runs -> TokenRecord]
    <3>1. PICK p \in Procs : token' = [token EXCEPT ![r].proc = p]
      BY <1>3, <1>k, Zenon DEF Timeout
    <3>2. run' = [run EXCEPT ![r].at = "late"] /\ "late" \in Places
      BY <1>3 DEF Timeout, Places
    <3>3. run' \in [Runs -> RunRecord]
      BY <3>2, <1>t, <1>s
    <3>4. token' \in [Runs -> TokenRecord]
      BY <3>1, <1>t, <1>s
    <3> QED  BY <3>3, <3>4
  <2>2. PICK p : token' = [token EXCEPT ![r].proc = p]
    BY <1>3, Zenon DEF Timeout
  <2> QED  BY <1>0, <1>3, <1>t, <1>d, <2>1, <2>2, <1>s DEF Timeout, GoesOn, Ends, Terminal, IsRecorded, ToRecord, Live
<1>4. CASE Collect(r)
  <2>1. run' \in [Runs -> RunRecord] /\ token' \in [Runs -> TokenRecord]
    <3>1. PICK e \in Endings : run' = [run EXCEPT ![r].at = "ended", ![r].ending = e]
      BY <1>4 DEF Collect, Outcome, Endings
    <3>2. token' = token /\ "ended" \in Places
      BY <1>4 DEF Collect, Places
    <3>3. run' \in [Runs -> RunRecord]
      BY <3>1, <3>2, <1>t, <1>s
    <3> QED  BY <3>2, <3>3, <1>t
  <2>2. PICK e : run' = [run EXCEPT ![r].at = "ended", ![r].ending = e]
    BY <1>4, Zenon DEF Collect
  <2>3. token' = token /\ registry' = registry /\ run[r].at \in {"waiting", "late"}
        /\ run[r].status = "running"
    BY <1>4 DEF Collect, Attached, Live
  <2> QED  BY <1>0, <1>t, <1>d, <2>1, <2>2, <2>3, <1>s DEF GoesOn, Ends, Terminal, IsRecorded, ToRecord
<1>5. CASE SdkReturn(r)
  <2>1. run' \in [Runs -> RunRecord] /\ token' \in [Runs -> TokenRecord]
    <3>1. PICK e \in Endings : run' = [run EXCEPT ![r].at = "ended", ![r].ending = e]
      BY <1>5 DEF SdkReturn, Endings
    <3>2. token' = token /\ "ended" \in Places
      BY <1>5 DEF SdkReturn, Places
    <3>3. run' \in [Runs -> RunRecord]
      BY <3>1, <3>2, <1>t, <1>s
    <3> QED  BY <3>2, <3>3, <1>t
  <2>2. PICK e : run' = [run EXCEPT ![r].at = "ended", ![r].ending = e]
    BY <1>5, Zenon DEF SdkReturn
  <2>3. token' = token /\ registry' = registry /\ run[r].at = "begun" /\ run[r].status = "running"
    BY <1>5 DEF SdkReturn, Live
  <2> QED  BY <1>0, <1>t, <1>d, <2>1, <2>2, <2>3, <1>s DEF GoesOn, Ends, Terminal, IsRecorded, ToRecord
<1>6. CASE Close(r)
  <2>1. FinalStatus(r) \in Terminal /\ (FinalStatus(r) = "done" <=> run[r].ending = "reply")
    BY DEF FinalStatus, Terminal
  <2>2. run' \in [Runs -> RunRecord] /\ token' \in [Runs -> TokenRecord]
    BY <1>6, <1>t, <1>s, <2>1 DEF Close, Places, Statuses
  <2>3. FinalStatus(r) \notin {"running", "unborn"}
    BY <2>1 DEF Terminal
  <2> QED  BY <1>0, <1>6, <1>t, <1>d, <2>1, <2>2, <2>3, <1>s DEF Close, GoesOn, Ends, Terminal, IsRecorded, ToRecord, Live
<1>7. CASE Act(r)
  <2>1. run' \in [Runs -> RunRecord] /\ token' \in [Runs -> TokenRecord]
    BY <1>7, <1>t, <1>s DEF Act
  <2> QED  BY <1>0, <1>7, <1>t, <1>d, <2>1, <1>s DEF Act, GoesOn, Ends, Terminal, IsRecorded, ToRecord, Live
<1>8. CASE Exit(r)
  <2>1. run' \in [Runs -> RunRecord] /\ token' \in [Runs -> TokenRecord]
    BY <1>8, <1>t, <1>s, <1>k DEF Exit, Procs
  <2> QED  BY <1>0, <1>8, <1>t, <1>d, <2>1, <1>s DEF Exit, GoesOn, Ends, Terminal, IsRecorded, ToRecord, Live
<1> QED  BY <1>1, <1>2, <1>3, <1>4, <1>5, <1>6, <1>7, <1>8 DEF Executes, AgentMoves

\* So do the end of a turn and what it tells the phone.
LEMMA TurnGoesOn ==
    ASSUME RunTypeOK, RowsAgree, NEW r \in Runs, Persist(r) \/ PersistFails(r) \/ Tell(r)
    PROVE  /\ GoesOn(r) /\ (IsRecorded(r)' => IsRecorded(r) \/ Persists(r))
           /\ ~Persist(r) => (IsRecorded(r)' => IsRecorded(r))
<1>t. run \in [Runs -> RunRecord] /\ token \in [Runs -> TokenRecord]
  BY DEF RunTypeOK
<1>d. /\ run[r].status = "unborn" => run[r].at = "unborn"
      /\ run[r].status \in Terminal => run[r].at = "over"
  BY DEF RowsAgree, Fresh
<1>1. run' \in [Runs -> RunRecord] /\ token' \in [Runs -> TokenRecord]
  BY <1>t DEF Persist, PersistFails, Tell, RunRecord, Places, Endings
<1>2. CASE Persist(r)
  BY <1>2, <1>1, <1>t, <1>d DEF Persist, GoesOn, Ends, Terminal, IsRecorded, ToRecord, Live, RunRecord, TokenRecord, Persists
<1>3. CASE PersistFails(r)
  BY <1>3, <1>1, <1>t, <1>d DEF PersistFails, GoesOn, Ends, Terminal, IsRecorded, ToRecord, Live, RunRecord, TokenRecord
<1>4. CASE Tell(r)
  BY <1>4, <1>1, <1>t, <1>d DEF Tell, GoesOn, Ends, Terminal, IsRecorded, ToRecord, Live, RunRecord, TokenRecord
<1> QED  BY <1>2, <1>3, <1>4

---------------------------------------------------------------------------
(* Requests *)

LEMMA RequestGoesTo ==
    ASSUME TypeOK, RowsAgree, NEW t \in Threads, NEW X \in Request,
           req' = [req EXCEPT ![t] = X], WellFormed(X)
    PROVE  /\ req' \in [Threads -> Request]
           /\ req'[t] = X /\ \A u \in Threads \ {t} : req'[u] = req[u]
           /\ \A u \in Threads : WellFormed(req'[u])
<1>1. req \in [Threads -> Request] /\ \A u \in Threads : WellFormed(req[u])
  BY DEF TypeOK, RowsAgree
<1>2. req' \in [Threads -> Request]
  BY <1>1, Zenon
<1>3. req'[t] = X /\ \A u \in Threads \ {t} : req'[u] = req[u]
  BY <1>1
<1>4. \A u \in Threads : WellFormed(req'[u])
  BY <1>1, <1>3
<1> QED  BY <1>2, <1>3, <1>4

\* What the inductive step has to show for one message.
LEMMA CountOf ==
    ASSUME TurnsCounted, TypeOK, NEW m \in Messages \ twice
    PROVE  /\ \A t, u \in Pending(m) : t = u
           /\ \A t \in Pending(m) : m \in handled <=> req[t].step # "deliver"
           /\ IsFiniteSet(Begun(m)) /\ Cardinality(Begun(m)) \in Nat /\ restarts \in Nat
           /\ m \in handled /\ Pending(m) = {} => Cardinality(Begun(m)) <= restarts + 1
           /\ ~(m \in handled /\ Pending(m) = {}) => Cardinality(Begun(m)) <= restarts
<1> DEFINE n == Cardinality(Begun(m))
<1>1. /\ \A t, u \in Pending(m) : t = u
      /\ \A t \in Pending(m) : m \in handled <=> req[t].step # "deliver"
      /\ IsFiniteSet(Begun(m))
      /\ n <= restarts + (IF m \in handled /\ Pending(m) = {} THEN 1 ELSE 0)
  BY Zenon DEF TurnsCounted
<1>2. n \in Nat /\ restarts \in Nat
  BY <1>1, FS_CardinalityType, RestartsBounded DEF TypeOK
<1> HIDE DEF n
<1>3. /\ m \in handled /\ Pending(m) = {} => n <= restarts + 1
      /\ ~(m \in handled /\ Pending(m) = {}) => n <= restarts
  BY <1>1, <1>2
<1> QED  BY <1>1, <1>2, <1>3, Zenon DEF n

LEMMA CountAgain ==
    ASSUME \A m \in Messages \ twice' :
               /\ \A t, u \in Pending(m)' : t = u
               /\ \A t \in Pending(m)' : m \in handled' <=> req'[t].step # "deliver"
               /\ IsFiniteSet(Begun(m)') /\ Cardinality(Begun(m)') \in Nat /\ restarts' \in Nat
               /\ m \in handled' /\ Pending(m)' = {} => Cardinality(Begun(m)') <= restarts' + 1
               /\ ~(m \in handled' /\ Pending(m)' = {}) => Cardinality(Begun(m)') <= restarts'
    PROVE  TurnsCounted'
<1> SUFFICES ASSUME NEW m \in Messages \ twice'
             PROVE  /\ \A t, u \in Pending(m)' : t = u
                    /\ \A t \in Pending(m)' : m \in handled' <=> req'[t].step # "deliver"
                    /\ IsFiniteSet(Begun(m)')
                    /\ Cardinality(Begun(m)')
                         <= restarts' + (IF m \in handled' /\ Pending(m)' = {} THEN 1 ELSE 0)
  BY Zenon DEF TurnsCounted
<1>1. Cardinality(Begun(m)')
         <= restarts' + (IF m \in handled' /\ Pending(m)' = {} THEN 1 ELSE 0)
  <2>1. CASE m \in handled' /\ Pending(m)' = {}
    BY <2>1
  <2>2. CASE ~(m \in handled' /\ Pending(m)' = {})
    BY <2>2
  <2> QED  BY <2>1, <2>2
<1> QED  BY <1>1, Zenon

\* No turn is begun, and the requests for messages that are left are where they were.
LEMMA TurnsKeep ==
    ASSUME TypeOK, TurnsCounted, UNCHANGED <<handled, restarts, twice>>,
           \A m \in Messages : Begun(m)' = Begun(m),
           \A t \in Threads : req'[t].turn.from # None =>
               /\ req'[t].turn.from = req[t].turn.from
               /\ req'[t].step = "deliver" <=> req[t].step = "deliver"
    PROVE  TurnsCounted'
<1>1. ASSUME NEW m \in Messages \ twice'
      PROVE  /\ \A t, u \in Pending(m)' : t = u
             /\ \A t \in Pending(m)' : m \in handled' <=> req'[t].step # "deliver"
             /\ IsFiniteSet(Begun(m)') /\ Cardinality(Begun(m)') \in Nat /\ restarts' \in Nat
             /\ m \in handled' /\ Pending(m)' = {} => Cardinality(Begun(m)') <= restarts' + 1
             /\ ~(m \in handled' /\ Pending(m)' = {}) => Cardinality(Begun(m)') <= restarts'
  <2> DEFINE n == Cardinality(Begun(m))
  <2>1. m \in Messages \ twice /\ m # None
    BY <1>1, NoneIsNoMessage
  <2>2. /\ \A t, u \in Pending(m) : t = u
        /\ \A t \in Pending(m) : m \in handled <=> req[t].step # "deliver"
        /\ IsFiniteSet(Begun(m)) /\ n \in Nat /\ restarts \in Nat
        /\ m \in handled /\ Pending(m) = {} => n <= restarts + 1
        /\ ~(m \in handled /\ Pending(m) = {}) => n <= restarts
    BY <2>1, CountOf, Zenon
  <2>3. \A t \in Pending(m)' : t \in Pending(m)
            /\ (req'[t].step = "deliver" <=> req[t].step = "deliver")
    BY <2>1 DEF Pending
  <2>4. Begun(m)' = Begun(m) /\ handled' = handled /\ restarts' = restarts
    BY <2>1
  <2>5. /\ \A t, u \in Pending(m)' : t = u
        /\ \A t \in Pending(m)' : m \in handled' <=> req'[t].step # "deliver"
    BY <2>2, <2>3, <2>4
  <2> HIDE DEF n
  <2>6. /\ m \in handled' /\ Pending(m)' = {} => n <= restarts' + 1
        /\ ~(m \in handled' /\ Pending(m)' = {}) => n <= restarts'
    BY <2>2, <2>3, <2>4
  <2> QED  BY <2>2, <2>4, <2>5, <2>6, Zenon DEF n
<1> QED  BY <1>1, CountAgain, Zenon

LEMMA RunsKeep ==
    ASSUME RowsAgree, TypeOK, run' = run,
           \A c \in Conversations : registry'[c] \in {registry[c], None},
           \A t \in Threads : WellFormed(req'[t])
    PROVE  RowsAgree'
<1>1. \A c \in Conversations : registry'[c] # None =>
          run'[registry'[c]].conv = c /\ run'[registry'[c]].status # "unborn"
  BY DEF RowsAgree, Fresh
<1>2. /\ \A r \in Runs : run'[r].status # "unborn" => run'[r].conv \in Conversations
      /\ \A r \in Runs : run'[r].status = "unborn" => run'[r].at = "unborn"
      /\ \A r \in Runs : run'[r].status \in Terminal => run'[r].at = "over"
  BY DEF RowsAgree, Fresh
<1> QED  BY <1>1, <1>2, Zenon DEF RowsAgree, Fresh

LEMMA BegunKeeps ==
    ASSUME \A r \in Runs : (run'[r].status = "unborn") <=> (run[r].status = "unborn"),
           turn' = turn
    PROVE  \A m \in Messages : Begun(m)' = Begun(m)
BY DEF Begun, Fresh

\* A request that looks nothing up goes on to X, with the message it has or none.
GoesTo(t, X) ==
    /\ X \in Request /\ req' = [req EXCEPT ![t] = X] /\ WellFormed(X)
    /\ X.turn.from \in {None, req[t].turn.from}
    /\ X.step # "deliver" /\ req[t].step # "deliver"

LEMMA RequestsBase ==
    ASSUME ChatInv, NEW t \in Threads, NEW X, GoesTo(t, X),
           UNCHANGED <<run, turn, append, posted, handled, replied, restarts, noted, twice>>,
           registry' \in [Conversations -> Runs \cup {None}],
           \A c \in Conversations : registry'[c] \in {registry[c], None},
           token' \in [Runs -> TokenRecord], log' \in [Conversations -> Seq(Item)],
           session' \in [Conversations -> Runs \cup {None}],
           gone' \subseteq Runs, dropped' \subseteq Runs,
           \A c \in Conversations \ {Chat} : Remembers(log'[c], session'[c])
    PROVE  ChatInv'
<1>i. TypeOK /\ RowsAgree /\ MemoryHolds /\ TurnsCounted
  BY DEF ChatInv
<1>g. /\ X \in Request /\ req' = [req EXCEPT ![t] = X] /\ WellFormed(X)
      /\ X.turn.from \in {None, req[t].turn.from}
      /\ X.step # "deliver" /\ req[t].step # "deliver"
  BY DEF GoesTo
<1>1. /\ req' \in [Threads -> Request]
      /\ req'[t] = X /\ \A u \in Threads \ {t} : req'[u] = req[u]
      /\ \A u \in Threads : WellFormed(req'[u])
  BY <1>i, <1>g, RequestGoesTo, Zenon
<1>2. TypeOK'
  BY <1>1, <1>i DEF TypeOK
<1>3. RowsAgree'
  BY <1>1, <1>i, RunsKeep
<1>4. MemoryHolds'
  BY <1>i DEF MemoryHolds
<1>5. TurnsCounted'
  <2>1. \A m \in Messages : Begun(m)' = Begun(m)
    BY BegunKeeps
  <2>2. \A u \in Threads : req'[u].turn.from # None =>
               /\ req'[u].turn.from = req[u].turn.from
               /\ req'[u].step = "deliver" <=> req[u].step = "deliver"
    BY <1>1, <1>g
  <2> QED  BY <2>1, <2>2, <1>i, TurnsKeep
<1> QED  BY <1>2, <1>3, <1>4, <1>5 DEF ChatInv

\* What a request that moves on has copied: what it had, or the row, or nothing yet.
Copied(t, what) ==
    \/ what.base = req[t].turn.base /\ what.saw = req[t].turn.saw
    \/ what.base = <<>> /\ what.saw = {}
    \/ /\ req[t].conv \in Conversations
       /\ what.base = log[req[t].conv] /\ what.saw = Stored(req[t].conv)

Looks(t) ==
    \/ \E c \in Conversations : Ask(t, c) \/ ResetBegins(t, c)
    \/ Read(t) \/ Recall(t) \/ Check(t) \/ RequestFails(t)

LEMMA IdleMoves ==
    ASSUME NEW t \in Threads, Leaves(t), req[t].step # "deliver"
    PROVE  GoesTo(t, Idle) /\ Copied(t, Idle.turn)
<1>1. req' = [req EXCEPT ![t] = Idle]
  BY DEF Leaves
<1> QED  BY <1>1, TurnTypes DEF GoesTo, Copied

\* The steps of a request that change it alone.
LEMMA LooksMove ==
    ASSUME ChatInv, NEW t \in Threads, Looks(t)
    PROVE  UNCHANGED allButReq /\ \E X : GoesTo(t, X) /\ Copied(t, X.turn)
<1>i. TypeOK /\ RowsAgree /\ MemoryHolds
  BY DEF ChatInv
<1>q. /\ req \in [Threads -> Request] /\ req[t] \in Request /\ req[t].turn \in TurnRecord
      /\ WellFormed(req[t])
  BY <1>i DEF TypeOK, RowsAgree, Request
<1>c. req[t].step # "idle" => req[t].conv \in Conversations
  BY <1>q DEF WellFormed
<1>1. ASSUME NEW c \in Conversations, Ask(t, c)
      PROVE  UNCHANGED allButReq /\ \E X : GoesTo(t, X) /\ Copied(t, X.turn)
  <2> DEFINE N == [NoTurn EXCEPT !.from = None]
             X == [step |-> FirstStep(c), conv |-> c, turn |-> N]
  <2>1. UNCHANGED allButReq /\ req' = [req EXCEPT ![t] = X] /\ req[t].step = "idle"
    BY <1>1 DEF Ask, Opens
  <2>2. N \in TurnRecord /\ N.from = None /\ N.carried = None /\ N.base = <<>> /\ N.saw = {}
    BY TurnTypes DEF TurnRecord
  <2> HIDE DEF N
  <2>3. X \in Request /\ X.turn = N /\ X.step \in {"check", "read"} /\ X.conv = c
    BY <2>2 DEF Request, FirstStep, Steps
  <2> HIDE DEF X
  <2>4. GoesTo(t, X)
    BY <2>1, <2>2, <2>3 DEF GoesTo, WellFormed, Remembers
  <2> QED  BY <2>1, <2>2, <2>3, <2>4 DEF Copied
<1>2. ASSUME NEW c \in Conversations, ResetBegins(t, c)
      PROVE  UNCHANGED allButReq /\ \E X : GoesTo(t, X) /\ Copied(t, X.turn)
  <2> DEFINE X == [Idle EXCEPT !.step = "stop", !.conv = c]
  <2>1. UNCHANGED allButReq /\ req' = [req EXCEPT ![t] = X] /\ req[t].step = "idle"
    BY <1>2 DEF ResetBegins
  <2>2. X \in Request /\ X.conv = c /\ X.turn = NoTurn /\ X.step = "stop"
    BY TurnTypes DEF Request, Steps
  <2> HIDE DEF X
  <2>3. GoesTo(t, X)
    BY <2>1, <2>2, TurnTypes DEF GoesTo, WellFormed, Remembers
  <2> QED  BY <2>1, <2>2, <2>3, TurnTypes DEF Copied
<1>3. ASSUME Read(t) PROVE UNCHANGED allButReq /\ \E X : GoesTo(t, X) /\ Copied(t, X.turn)
  <2> DEFINE c == req[t].conv
             seen == [req[t].turn EXCEPT !.base = log[c], !.saw = Stored(c)]
             what == IF c = Chat THEN seen ELSE [seen EXCEPT !.carried = session[c]]
             X == [req[t] EXCEPT !.step = AfterRead(c), !.turn = what]
  <2>1. UNCHANGED allButReq /\ req[t].step = "read" /\ c \in Conversations
    BY <1>3, <1>c DEF Read
  <2>2. req' = [req EXCEPT ![t] = X]
    BY <1>3, <1>q, Zenon DEF Read, Moves, Request
  <2>3. log[c] \in Seq(Item) /\ session[c] \in Runs \cup {None} /\ Stored(c) \subseteq Runs
    BY <2>1, <1>i DEF TypeOK, Stored, Recorded
  <2>4. seen \in TurnRecord /\ seen.base = log[c] /\ seen.saw = Stored(c)
        /\ seen.from = req[t].turn.from
    BY <2>3, <1>q DEF TurnRecord
  <2> HIDE DEF seen
  <2>5. what \in TurnRecord /\ what.base = log[c] /\ what.saw = Stored(c)
        /\ what.from = req[t].turn.from /\ (c # Chat => what.carried = session[c])
    BY <2>3, <2>4 DEF TurnRecord
  <2> HIDE DEF what
  <2>6. X \in Request /\ X.turn = what /\ X.conv = c /\ X.step = AfterRead(c)
    BY <2>5, <1>q DEF Request, AfterRead, Steps
  <2> HIDE DEF X
  <2>7. c # Chat => Remembers(log[c], session[c])
    BY <2>1, <1>i DEF MemoryHolds
  <2>8. WellFormed(X)
    BY <2>1, <2>5, <2>6, <2>7 DEF WellFormed, AfterRead
  <2>9. GoesTo(t, X)
    BY <2>1, <2>2, <2>5, <2>6, <2>8 DEF GoesTo, AfterRead
  <2> QED  BY <2>1, <2>5, <2>6, <2>9 DEF Copied
<1>4. ASSUME Recall(t) PROVE UNCHANGED allButReq /\ \E X : GoesTo(t, X) /\ Copied(t, X.turn)
  <2> DEFINE what == [req[t].turn EXCEPT !.carried = session[req[t].conv]]
             X == [req[t] EXCEPT !.step = "start", !.turn = what]
  <2>1. /\ UNCHANGED allButReq /\ req[t].step = "recall" /\ req[t].conv \in Conversations
        /\ req[t].conv = Chat
    BY <1>4, <1>c, <1>q DEF Recall, WellFormed
  <2>2. req' = [req EXCEPT ![t] = X]
    BY <1>4, <1>q, Zenon DEF Recall, Moves
  <2>3. session[req[t].conv] \in Runs \cup {None}
    BY <2>1, <1>i DEF TypeOK
  <2>4. what \in TurnRecord /\ what.base = req[t].turn.base /\ what.saw = req[t].turn.saw
        /\ what.from = req[t].turn.from
    BY <2>3, <1>q DEF TurnRecord
  <2> HIDE DEF what
  <2>5. X \in Request /\ X.turn = what /\ X.conv = req[t].conv /\ X.step = "start"
    BY <2>4, <1>q DEF Request, Steps
  <2> HIDE DEF X
  <2>6. GoesTo(t, X)
    BY <2>1, <2>2, <2>4, <2>5 DEF GoesTo, WellFormed
  <2> QED  BY <2>1, <2>4, <2>5, <2>6 DEF Copied
<1>5. ASSUME Check(t) PROVE UNCHANGED allButReq /\ \E X : GoesTo(t, X) /\ Copied(t, X.turn)
  <2>1. UNCHANGED allButReq /\ req[t].step = "check" /\ req[t].conv \in Conversations
    BY <1>5, <1>c DEF Check
  <2>2. CASE Busy(req[t].conv)
    BY <1>5, <2>1, <2>2, IdleMoves DEF Check
  <2>3. CASE ~Busy(req[t].conv)
    <3> DEFINE X == [req[t] EXCEPT !.step = AfterCheck(req[t].conv), !.turn = req[t].turn]
    <3>1. req' = [req EXCEPT ![t] = X]
      BY <1>5, <2>3, <1>q, Zenon DEF Check, Moves
    <3>2. /\ X \in Request /\ X.conv = req[t].conv /\ X.turn = req[t].turn
          /\ X.step \in {"read", "start"}
      BY <1>q DEF Request, AfterCheck, Steps
    <3> HIDE DEF X
    <3>3. GoesTo(t, X)
      BY <2>1, <3>1, <3>2, <1>q DEF GoesTo, WellFormed
    <3> QED  BY <2>1, <3>2, <3>3 DEF Copied
  <2> QED  BY <2>2, <2>3
<1>6. ASSUME RequestFails(t)
      PROVE  UNCHANGED allButReq /\ \E X : GoesTo(t, X) /\ Copied(t, X.turn)
  BY <1>6, IdleMoves DEF RequestFails
<1> QED  BY <1>1, <1>2, <1>3, <1>4, <1>5, <1>6, Zenon DEF Looks

LEMMA LooksBase == ASSUME ChatInv, NEW t \in Threads, Looks(t) PROVE ChatInv'
<1>1. UNCHANGED allButReq
  BY LooksMove, Zenon
<1>2. PICK X : GoesTo(t, X)
  BY LooksMove, Zenon
<1>3. TypeOK /\ MemoryHolds
  BY DEF ChatInv
<1>4. /\ UNCHANGED <<run, turn, append, posted, handled, replied, restarts, noted, twice>>
      /\ UNCHANGED <<registry, token, log, session, gone, dropped>>
  BY <1>1 DEF allButReq, runVars, rowVars, history
<1>5. /\ registry' \in [Conversations -> Runs \cup {None}]
      /\ token' \in [Runs -> TokenRecord] /\ log' \in [Conversations -> Seq(Item)]
      /\ session' \in [Conversations -> Runs \cup {None}]
      /\ gone' \subseteq Runs /\ dropped' \subseteq Runs
  BY <1>3, <1>4 DEF TypeOK
<1>6. \A c \in Conversations \ {Chat} : Remembers(log'[c], session'[c])
  BY <1>3, <1>4 DEF MemoryHolds
<1> QED  BY <1>2, <1>4, <1>5, <1>6, RequestsBase

\* A message is looked up: by one request, or by two at once.
LEMMA DeliverBase ==
    ASSUME ChatInv, NEW t \in Threads, NEW m \in Messages, Deliver(t, m)
    PROVE  /\ ChatInv' /\ \E X : req' = [req EXCEPT ![t] = X] /\ X.turn = [NoTurn EXCEPT !.from = m]
           /\ UNCHANGED <<runVars, rowVars, turn, append, posted, noted, gone, dropped>>
<1> DEFINE N == [NoTurn EXCEPT !.from = m]
           X == [step |-> "deliver", conv |-> Chat, turn |-> N]
<1>i. TypeOK /\ RowsAgree /\ MemoryHolds /\ TurnsCounted
  BY DEF ChatInv
<1>1. /\ req' = [req EXCEPT ![t] = X] /\ req[t].step = "idle" /\ m \notin handled
      /\ twice' = IF LookedUp(m) THEN twice \cup {m} ELSE twice
      /\ UNCHANGED <<runVars, rowVars, turn, append, posted, handled, replied, restarts,
                     noted, gone, dropped>>
  BY DEF Deliver, Opens
<1>2. N \in TurnRecord /\ N.from = m
  BY TurnTypes DEF TurnRecord
<1>m. m # None /\ Chat \in Conversations
  BY NoneIsNoMessage, ChatIsKey
<1> HIDE DEF N
<1>3. X \in Request /\ X.turn = N /\ X.step = "deliver" /\ X.conv = Chat
  BY <1>2 DEF Request, Steps
<1> HIDE DEF X
<1>w. WellFormed(X)
  BY <1>2, <1>3, <1>m DEF WellFormed
<1>4. /\ req' \in [Threads -> Request]
      /\ req'[t] = X /\ \A u \in Threads \ {t} : req'[u] = req[u]
      /\ \A u \in Threads : WellFormed(req'[u])
  BY <1>1, <1>3, <1>w, <1>i, RequestGoesTo, Zenon
<1>5. TypeOK'
  <2>1. twice' \in SUBSET Messages
    BY <1>1, <1>i DEF TypeOK
  <2> QED  BY <2>1, <1>1, <1>4, <1>i DEF TypeOK, runVars, rowVars
<1>6. RowsAgree'
  <2>1. run' = run /\ \A c \in Conversations : registry'[c] \in {registry[c], None}
    BY <1>1 DEF runVars
  <2> QED  BY <2>1, <1>4, <1>i, RunsKeep
<1>7. MemoryHolds'
  BY <1>1, <1>i DEF MemoryHolds, runVars, rowVars
<1>8. TurnsCounted'
  <2>b. \A k \in Messages : Begun(k)' = Begun(k)
    BY <1>1, BegunKeeps DEF runVars
  <2>1. ASSUME NEW k \in Messages \ twice'
        PROVE  /\ \A v, u \in Pending(k)' : v = u
               /\ \A u \in Pending(k)' : k \in handled' <=> req'[u].step # "deliver"
               /\ IsFiniteSet(Begun(k)') /\ Cardinality(Begun(k)') \in Nat /\ restarts' \in Nat
               /\ k \in handled' /\ Pending(k)' = {} => Cardinality(Begun(k)') <= restarts' + 1
               /\ ~(k \in handled' /\ Pending(k)' = {}) => Cardinality(Begun(k)') <= restarts'
    <3> DEFINE n == Cardinality(Begun(k))
    <3>1. k \in Messages \ twice /\ (k = m => ~LookedUp(m))
      BY <1>1, <2>1
    <3>2. /\ \A v, u \in Pending(k) : v = u
          /\ \A u \in Pending(k) : k \in handled <=> req[u].step # "deliver"
          /\ IsFiniteSet(Begun(k)) /\ n \in Nat /\ restarts \in Nat
          /\ k \in handled /\ Pending(k) = {} => n <= restarts + 1
          /\ ~(k \in handled /\ Pending(k) = {}) => n <= restarts
      BY <3>1, <1>i, CountOf, Zenon
    <3>3. Begun(k)' = Begun(k) /\ handled' = handled /\ restarts' = restarts
      BY <2>1, <2>b, <1>1
    <3> HIDE DEF n
    <3>4. CASE k = m
      <4>1. Pending(k) = {}
        BY <3>1, <3>2, <3>4, <1>1 DEF LookedUp, Pending
      <4>2. Pending(k)' = {t} /\ req'[t].step = "deliver"
        BY <4>1, <3>4, <1>2, <1>3, <1>4 DEF Pending
      <4> QED  BY <4>1, <4>2, <3>2, <3>3, <3>4, <1>1, Zenon DEF n
    <3>5. CASE k # m
      <4>1. Pending(k)' \subseteq Pending(k) /\ \A u \in Pending(k)' : req'[u] = req[u]
        BY <3>5, <1>2, <1>3, <1>4 DEF Pending
      <4>2. /\ k \in handled /\ Pending(k)' = {} => n <= restarts + 1
            /\ ~(k \in handled /\ Pending(k)' = {}) => n <= restarts
        BY <4>1, <3>2
      <4>3. /\ \A v, u \in Pending(k)' : v = u
            /\ \A u \in Pending(k)' : k \in handled <=> req'[u].step # "deliver"
        BY <4>1, <3>2
      <4> QED  BY <4>2, <4>3, <3>2, <3>3, Zenon DEF n
    <3> QED  BY <3>4, <3>5
  <2> QED  BY <2>1, CountAgain, Zenon
<1> QED  BY <1>1, <1>3, <1>5, <1>6, <1>7, <1>8, Zenon DEF ChatInv, N

\* The message is noted as seen.
LEMMA RememberBase ==
    ASSUME ChatInv, NEW t \in Threads, Remember(t)
    PROVE  /\ ChatInv' /\ \E X : req' = [req EXCEPT ![t] = X] /\ X.turn = req[t].turn
           /\ UNCHANGED <<runVars, rowVars, turn, append, posted, noted, gone, dropped>>
<1> DEFINE X == [req[t] EXCEPT !.step = FirstStep(Chat), !.turn = req[t].turn]
           m == req[t].turn.from
<1>i. TypeOK /\ RowsAgree /\ MemoryHolds /\ TurnsCounted
  BY DEF ChatInv
<1>q. /\ req \in [Threads -> Request] /\ req[t] \in Request /\ WellFormed(req[t])
  BY <1>i DEF TypeOK, RowsAgree
<1>1. /\ req[t].step = "deliver" /\ handled' = handled \cup {m}
      /\ UNCHANGED <<runVars, rowVars, turn, append, posted, replied, restarts, history>>
  BY DEF Remember
<1>2. req' = [req EXCEPT ![t] = X]
  BY <1>q, Zenon DEF Remember, Moves
<1>m. m \in Messages /\ m # None
  BY <1>1, <1>q DEF WellFormed, Request, TurnRecord
<1>3. X \in Request /\ X.turn = req[t].turn /\ X.step \in {"check", "read"} /\ X.conv = req[t].conv
  BY <1>q DEF Request, FirstStep, Steps
<1>h. UNCHANGED <<noted, gone, dropped, twice>>
  BY <1>1 DEF history
<1> HIDE DEF X, m
<1>w. WellFormed(X)
  BY <1>3, <1>q, <1>1 DEF WellFormed
<1>4. /\ req' \in [Threads -> Request]
      /\ req'[t] = X /\ \A u \in Threads \ {t} : req'[u] = req[u]
      /\ \A u \in Threads : WellFormed(req'[u])
  BY <1>2, <1>3, <1>w, <1>i, RequestGoesTo, Zenon
<1>5. TypeOK'
  BY <1>1, <1>h, <1>m, <1>4, <1>i DEF TypeOK, runVars, rowVars
<1>6. RowsAgree'
  <2>1. run' = run /\ \A c \in Conversations : registry'[c] \in {registry[c], None}
    BY <1>1 DEF runVars
  <2> QED  BY <2>1, <1>4, <1>i, RunsKeep
<1>7. MemoryHolds'
  BY <1>1, <1>i DEF MemoryHolds, runVars, rowVars
<1>8. TurnsCounted'
  <2>b. \A k \in Messages : Begun(k)' = Begun(k)
    BY <1>1, BegunKeeps DEF runVars
  <2>p. \A k \in Messages : Pending(k)' = Pending(k)
    BY <1>3, <1>4 DEF Pending
  <2>1. ASSUME NEW k \in Messages \ twice'
        PROVE  /\ \A v, u \in Pending(k)' : v = u
               /\ \A u \in Pending(k)' : k \in handled' <=> req'[u].step # "deliver"
               /\ IsFiniteSet(Begun(k)') /\ Cardinality(Begun(k)') \in Nat /\ restarts' \in Nat
               /\ k \in handled' /\ Pending(k)' = {} => Cardinality(Begun(k)') <= restarts' + 1
               /\ ~(k \in handled' /\ Pending(k)' = {}) => Cardinality(Begun(k)') <= restarts'
    <3> DEFINE n == Cardinality(Begun(k))
    <3>1. k \in Messages \ twice
      BY <1>h, <2>1
    <3>2. /\ \A v, u \in Pending(k) : v = u
          /\ \A u \in Pending(k) : k \in handled <=> req[u].step # "deliver"
          /\ IsFiniteSet(Begun(k)) /\ n \in Nat /\ restarts \in Nat
          /\ k \in handled /\ Pending(k) = {} => n <= restarts + 1
          /\ ~(k \in handled /\ Pending(k) = {}) => n <= restarts
      BY <3>1, <1>i, CountOf, Zenon
    <3>3. Begun(k)' = Begun(k) /\ Pending(k)' = Pending(k) /\ restarts' = restarts
      BY <2>1, <2>b, <2>p, <1>1
    <3> HIDE DEF n
    <3>4. CASE k = m
      <4>1. t \in Pending(k)
        BY <3>4 DEF Pending, m
      <4>2. Pending(k) = {t} /\ k \in handled' /\ req'[t].step # "deliver"
        BY <4>1, <3>2, <3>4, <1>1, <1>3, <1>4
      <4>3. /\ \A v, u \in Pending(k)' : v = u
            /\ \A u \in Pending(k)' : k \in handled' <=> req'[u].step # "deliver"
        BY <4>2, <3>2, <3>3
      <4>4. Pending(k)' # {} /\ n <= restarts
        BY <4>2, <3>2, <3>3
      <4> QED  BY <4>3, <4>4, <3>2, <3>3, Zenon DEF n
    <3>5. CASE k # m
      <4>1. t \notin Pending(k) /\ (k \in handled' <=> k \in handled)
        BY <3>5, <1>1 DEF Pending, m
      <4>2. /\ \A v, u \in Pending(k)' : v = u
            /\ \A u \in Pending(k)' : k \in handled' <=> req'[u].step # "deliver"
        BY <4>1, <3>2, <3>3, <1>4 DEF Pending
      <4> QED  BY <4>1, <4>2, <3>2, <3>3, Zenon DEF n
    <3> QED  BY <3>4, <3>5
  <2> QED  BY <2>1, CountAgain, Zenon
<1>9. UNCHANGED <<runVars, rowVars, turn, append, posted, noted, gone, dropped>>
  BY <1>1, <1>h
<1> QED  BY <1>2, <1>3, <1>5, <1>6, <1>7, <1>8, <1>9, Zenon DEF ChatInv

---------------------------------------------------------------------------
(* Stops and resets *)

LEMMA StopTypes ==
    ASSUME TypeOK, NEW c \in Conversations, Stop(c)
    PROVE  /\ token' \in [Runs -> TokenRecord]
           /\ \A r \in Runs : token[r].stopped => token'[r].stopped
           /\ \A r \in Runs : token'[r].acted = token[r].acted
<1>1. CASE Busy(c)
  <2> DEFINE r == registry[c]
  <2>1. r \in Runs
    BY <1>1 DEF TypeOK, Busy
  <2>2. PICK p \in Procs : token' = [token EXCEPT ![r].stopped = TRUE, ![r].proc = p]
    BY <1>1, <2>1, KilledTypes DEF Stop, RunTypeOK, TypeOK
  <2> HIDE DEF r
  <2>3. token' \in [Runs -> TokenRecord]
    BY <2>1, <2>2 DEF TypeOK, TokenRecord
  <2>4. \A q \in Runs : token[q].stopped => token'[q].stopped
    BY <2>1, <2>2 DEF TypeOK, TokenRecord
  <2>5. \A q \in Runs : token'[q].acted = token[q].acted
    BY <2>1, <2>2 DEF TypeOK, TokenRecord
  <2> QED  BY <2>3, <2>4, <2>5
<1>2. CASE ~Busy(c)
  BY <1>2 DEF Stop, TypeOK
<1> QED  BY <1>1, <1>2

LEMMA ResetMoves ==
    ASSUME ChatInv, NEW t \in Threads, NEW s \in {"pop", "clear"},
           req[t].step \in {"stop", "pop"}, Moves(t, s, NoTurn)
    PROVE  \E X : GoesTo(t, X) /\ Copied(t, X.turn)
<1> DEFINE X == [req[t] EXCEPT !.step = s, !.turn = NoTurn]
<1>q. req \in [Threads -> Request] /\ req[t] \in Request /\ WellFormed(req[t])
  BY DEF ChatInv, TypeOK, RowsAgree
<1>1. req' = [req EXCEPT ![t] = X]
  BY <1>q, Zenon DEF Moves
<1>2. X \in Request /\ X.conv = req[t].conv /\ X.turn = NoTurn /\ X.step = s
  BY <1>q, TurnTypes DEF Request, Steps
<1> HIDE DEF X
<1>3. GoesTo(t, X)
  BY <1>1, <1>2, <1>q, TurnTypes DEF GoesTo, WellFormed, Remembers
<1> QED  BY <1>2, <1>3, TurnTypes DEF Copied

LEMMA ResetsBase ==
    ASSUME ChatInv, NEW t \in Threads, ResetStops(t) \/ ResetPops(t) \/ ResetClears(t)
    PROVE  ChatInv' /\ \E X : GoesTo(t, X) /\ Copied(t, X.turn)
<1>i. TypeOK /\ RowsAgree /\ MemoryHolds
  BY DEF ChatInv
<1>c. req[t].step # "idle" => req[t].conv \in Conversations
  BY <1>i DEF RowsAgree, WellFormed
<1>k. \A c \in Conversations \ {Chat} : Remembers(log[c], session[c])
  BY <1>i DEF MemoryHolds
<1> DEFINE c == req[t].conv
<1>1. CASE ResetStops(t)
  <2>1. /\ UNCHANGED <<run, turn, append, posted, handled, replied, restarts, noted, twice>>
        /\ UNCHANGED <<registry, log, session, gone, dropped>>
        /\ req[t].step = "stop" /\ Stop(c) /\ Moves(t, "pop", NoTurn)
    BY <1>1 DEF ResetStops, Stop, rowVars, history
  <2>2. PICK X : GoesTo(t, X) /\ Copied(t, X.turn)
    BY <2>1, ResetMoves
  <2>3. token' \in [Runs -> TokenRecord]
    BY <2>1, <1>c, <1>i, StopTypes
  <2>4. /\ registry' \in [Conversations -> Runs \cup {None}]
        /\ log' \in [Conversations -> Seq(Item)]
        /\ session' \in [Conversations -> Runs \cup {None}]
        /\ gone' \subseteq Runs /\ dropped' \subseteq Runs
    BY <2>1, <1>i DEF TypeOK
  <2>5. ChatInv'
    BY <2>1, <2>2, <2>3, <2>4, <1>k, RequestsBase
  <2> QED  BY <2>2, <2>5
<1>2. CASE ResetPops(t)
  <2>1. /\ UNCHANGED <<run, turn, append, posted, handled, replied, restarts, noted, twice>>
        /\ UNCHANGED <<token, log, session, gone>>
        /\ req[t].step = "pop" /\ registry' = [registry EXCEPT ![c] = None]
        /\ dropped' = dropped \cup {r \in Runs : registry[c] = r /\ AtWork(r)}
        /\ Moves(t, "clear", NoTurn)
    BY <1>2 DEF ResetPops, Pop, rowVars
  <2>2. PICK X : GoesTo(t, X) /\ Copied(t, X.turn)
    BY <2>1, ResetMoves
  <2>4. /\ registry' \in [Conversations -> Runs \cup {None}]
        /\ \A d \in Conversations : registry'[d] \in {registry[d], None}
        /\ token' \in [Runs -> TokenRecord] /\ log' \in [Conversations -> Seq(Item)]
        /\ session' \in [Conversations -> Runs \cup {None}]
        /\ gone' \subseteq Runs /\ dropped' \subseteq Runs
    BY <2>1, <1>i DEF TypeOK
  <2>5. ChatInv'
    BY <2>1, <2>2, <2>4, <1>k, RequestsBase
  <2> QED  BY <2>2, <2>5
<1>3. CASE ResetClears(t)
  <2>1. /\ UNCHANGED <<run, turn, append, posted, handled, replied, restarts, noted, twice>>
        /\ UNCHANGED <<registry, token, dropped>>
        /\ req[t].step = "clear" /\ Leaves(t)
        /\ log' = [log EXCEPT ![c] = <<>>] /\ session' = [session EXCEPT ![c] = None]
        /\ gone' = gone \cup {r \in Runs : run[r].conv = c}
    BY <1>3 DEF ResetClears, runVars
  <2>2. GoesTo(t, Idle) /\ Copied(t, Idle.turn)
    BY <2>1, IdleMoves
  <2>3. log' \in [Conversations -> Seq(Item)]
    <3>1. <<>> \in Seq(Item)
      OBVIOUS
    <3> QED  BY <2>1, <3>1, <1>i DEF TypeOK
  <2>4. /\ registry' \in [Conversations -> Runs \cup {None}]
        /\ token' \in [Runs -> TokenRecord]
        /\ session' \in [Conversations -> Runs \cup {None}]
        /\ gone' \subseteq Runs /\ dropped' \subseteq Runs
    BY <2>1, <1>i DEF TypeOK
  <2>5. \A d \in Conversations \ {Chat} : Remembers(log'[d], session'[d])
    BY <2>1, <1>k, <1>i DEF Remembers, TypeOK
  <2>6. ChatInv'
    BY <2>1, <2>2, <2>3, <2>4, <2>5, RequestsBase
  <2> QED  BY <2>2, <2>6
<1> QED  BY <1>1, <1>2, <1>3

---------------------------------------------------------------------------
(* The steps that leave the requests alone *)

LEMMA RowsBase ==
    ASSUME ChatInv, UNCHANGED <<req, turn, handled, restarts, twice>>,
           registry' \in [Conversations -> Runs \cup {None}],
           run' \in [Runs -> RunRecord], token' \in [Runs -> TokenRecord],
           log' \in [Conversations -> Seq(Item)],
           session' \in [Conversations -> Runs \cup {None}],
           append' \in [on: Notices \cup {None}, base: Seq(Item)],
           posted' \subseteq Notices, noted' \in [Notices -> SUBSET Runs],
           replied' \subseteq Runs, gone' \subseteq Runs, dropped' \subseteq Runs,
           \A c \in Conversations \ {Chat} : Remembers(log'[c], session'[c]),
           \A r \in Runs :
               /\ (run'[r].status = "unborn") <=> (run[r].status = "unborn")
               /\ run'[r].conv = run[r].conv
               /\ run'[r].status = "unborn" => run'[r].at = "unborn"
               /\ run'[r].status \in Terminal => run'[r].at = "over",
           \A c \in Conversations : registry'[c] \in {registry[c], None}
    PROVE  ChatInv'
<1>i. TypeOK /\ RowsAgree /\ MemoryHolds /\ TurnsCounted
  BY DEF ChatInv
<1>1. TypeOK'
  BY <1>i DEF TypeOK
<1>2. RowsAgree'
  <2>1. \A c \in Conversations : registry[c] # None => registry[c] \in Runs
    BY <1>i DEF TypeOK
  <2>2. \A c \in Conversations : registry'[c] # None =>
            run'[registry'[c]].conv = c /\ run'[registry'[c]].status # "unborn"
    <3> SUFFICES ASSUME NEW c \in Conversations, registry'[c] # None
                 PROVE  run'[registry'[c]].conv = c /\ run'[registry'[c]].status # "unborn"
      OBVIOUS
    <3>1. registry'[c] = registry[c] /\ registry[c] \in Runs
      BY <2>1
    <3>2. run[registry[c]].conv = c /\ run[registry[c]].status # "unborn"
      BY <3>1, <1>i, NoneIsNew DEF RowsAgree, Fresh
    <3> QED  BY <3>1, <3>2
  <2>3. \A r \in Runs : run'[r].status # "unborn" => run'[r].conv \in Conversations
    BY <1>i DEF RowsAgree, Fresh
  <2>4. \A t \in Threads : WellFormed(req'[t])
    BY <1>i DEF RowsAgree
  <2> QED  BY <2>2, <2>3, <2>4, Zenon DEF RowsAgree, Fresh
<1>3. MemoryHolds'
  BY <1>i DEF MemoryHolds
<1>4. TurnsCounted'
  <2>1. \A m \in Messages : Begun(m)' = Begun(m)
    BY BegunKeeps
  <2> QED  BY <2>1, <1>i, TurnsKeep
<1> QED  BY <1>1, <1>2, <1>3, <1>4 DEF ChatInv

LEMMA SessionRemembered ==
    ASSUME TypeOK, MemoryHolds, NEW r \in Runs
    PROVE  /\ Append(turn[r].base, r) \in Seq(Item) /\ SessionAfter(r) \in Runs \cup {None}
           /\ turn[r].base \in Seq(Item) /\ r \in Item
           /\ run[r].conv # Chat => Remembers(Append(turn[r].base, r), SessionAfter(r))
<1>1. turn[r].base \in Seq(Item) /\ turn[r].carried \in Runs \cup {None} /\ r \in Item
  BY DEF TypeOK, TurnRecord, Item
<1>2. Append(turn[r].base, r) \in Seq(Item)
  BY <1>1
<1>3. \A x : Contains(Append(turn[r].base, r), x) <=> Contains(turn[r].base, x) \/ x = r
  BY <1>1, AppendContains
<1>4. run[r].conv # Chat => Remembers(turn[r].base, turn[r].carried)
  BY DEF MemoryHolds
<1>5. /\ run[r].conv # Chat => Remembers(Append(turn[r].base, r), turn[r].carried)
      /\ Remembers(Append(turn[r].base, r), r)
  BY <1>3, <1>4, Zenon DEF Remembers
<1> QED  BY <1>1, <1>2, <1>5 DEF SessionAfter, Remembers

\* What a step of a run changes besides the run.
LEMMA RunsChange ==
    ASSUME ChatInv, NEW r \in Runs, TurnStep(r) \/ AgentMoves(r)
    PROVE  /\ GoesOn(r)
           /\ UNCHANGED <<turn, req, append, posted, handled, restarts, noted, gone,
                          dropped, twice>>
           /\ replied' \in SUBSET Runs
           /\ \/ /\ UNCHANGED <<log, session>> /\ (IsRecorded(r)' => IsRecorded(r))
              \/ /\ log' = [log EXCEPT ![run[r].conv] = Append(turn[r].base, r)]
                 /\ session' = [session EXCEPT ![run[r].conv] = SessionAfter(r)]
                 /\ run[r].at = "ended" /\ run'[r].at = "saved" /\ run[r].status = "running"
<1>i. TypeOK /\ RowsAgree /\ RunTypeOK
  BY DEF ChatInv, TypeOK, RunTypeOK
<1>1. CASE Executes(r) \/ AgentMoves(r)
  <2>1. GoesOn(r) /\ (IsRecorded(r)' => IsRecorded(r)) /\ UNCHANGED chatVars
    BY <1>1, <1>i, RunGoesOn
  <2> QED  BY <2>1, <1>i DEF chatVars, rowVars, history, TypeOK
<1>2. CASE Persist(r)
  <2>1. GoesOn(r) /\ (IsRecorded(r)' => IsRecorded(r) \/ Persists(r))
    BY <1>2, <1>i, TurnGoesOn, Zenon
  <2>2. /\ UNCHANGED <<turn, req, append, posted, handled, restarts, noted, gone,
                       dropped, twice>>
        /\ replied' \in SUBSET Runs
        /\ run[r].at = "ended" /\ run[r].status = "running"
    BY <1>2, <1>i DEF Persist, history, TypeOK, Live
  <2>3. run'[r].at = "saved"
    BY <1>2, <1>i DEF Persist, RunTypeOK, RunRecord
  <2>4. CASE Persists(r)
    BY <1>2, <2>1, <2>2, <2>3, <2>4 DEF Persist
  <2>5. CASE ~Persists(r)
    BY <1>2, <2>1, <2>2, <2>5 DEF Persist
  <2> QED  BY <2>4, <2>5
<1>3. CASE PersistFails(r)
  <2>1. ~Persist(r)
    BY <1>3, <1>i DEF PersistFails, Persist, RunTypeOK, RunRecord
  <2>2. GoesOn(r) /\ (IsRecorded(r)' => IsRecorded(r))
    BY <1>3, <2>1, <1>i, TurnGoesOn, Zenon
  <2> QED  BY <1>3, <2>2, <1>i DEF PersistFails, chatVars, rowVars, history, TypeOK
<1>4. CASE Tell(r)
  <2>1. ~Persist(r)
    BY <1>4 DEF Tell, Persist
  <2>2. GoesOn(r) /\ (IsRecorded(r)' => IsRecorded(r))
    BY <1>4, <2>1, <1>i, TurnGoesOn, Zenon
  <2> QED  BY <1>4, <2>2, <1>i DEF Tell, rowVars, history, TypeOK
<1> QED  BY <1>1, <1>2, <1>3, <1>4 DEF TurnStep

LEMMA RunsBase ==
    ASSUME ChatInv, NEW r \in Runs, TurnStep(r) \/ AgentMoves(r)
    PROVE  ChatInv'
<1>i. TypeOK /\ RowsAgree /\ MemoryHolds
  BY DEF ChatInv
<1>1. /\ GoesOn(r)
      /\ UNCHANGED <<turn, req, append, posted, handled, restarts, noted, gone, dropped, twice>>
      /\ replied' \in SUBSET Runs
      /\ \/ UNCHANGED <<log, session>>
         \/ /\ log' = [log EXCEPT ![run[r].conv] = Append(turn[r].base, r)]
            /\ session' = [session EXCEPT ![run[r].conv] = SessionAfter(r)]
  BY RunsChange, Zenon
<1>2. /\ log' \in [Conversations -> Seq(Item)]
      /\ session' \in [Conversations -> Runs \cup {None}]
      /\ \A c \in Conversations \ {Chat} : Remembers(log'[c], session'[c])
  <2>1. CASE UNCHANGED <<log, session>>
    BY <2>1, <1>i DEF TypeOK, MemoryHolds
  <2>2. CASE /\ log' = [log EXCEPT ![run[r].conv] = Append(turn[r].base, r)]
             /\ session' = [session EXCEPT ![run[r].conv] = SessionAfter(r)]
    BY <2>2, <1>i, SessionRemembered DEF TypeOK, MemoryHolds
  <2> QED  BY <1>1, <2>1, <2>2
<1>3. \A q \in Runs :
          /\ (run'[q].status = "unborn") <=> (run[q].status = "unborn")
          /\ run'[q].conv = run[q].conv
          /\ run'[q].status = "unborn" => run'[q].at = "unborn"
          /\ run'[q].status \in Terminal => run'[q].at = "over"
  BY <1>1, <1>i DEF GoesOn, RowsAgree, Fresh
<1>4. /\ registry' \in [Conversations -> Runs \cup {None}]
      /\ run' \in [Runs -> RunRecord] /\ token' \in [Runs -> TokenRecord]
      /\ append' \in [on: Notices \cup {None}, base: Seq(Item)]
      /\ posted' \subseteq Notices /\ noted' \in [Notices -> SUBSET Runs]
      /\ replied' \subseteq Runs /\ gone' \subseteq Runs /\ dropped' \subseteq Runs
      /\ \A c \in Conversations : registry'[c] \in {registry[c], None}
  BY <1>1, <1>i DEF GoesOn, TypeOK
<1> QED  BY <1>1, <1>2, <1>3, <1>4, RowsBase

\* A stop, and the notices of the poller.
LEMMA OthersBase ==
    ASSUME ChatInv,
           \/ \E t \in Threads, c \in Conversations : UserStops(t, c)
           \/ PollerStep
    PROVE  ChatInv'
<1>i. TypeOK /\ RowsAgree /\ MemoryHolds
  BY DEF ChatInv
<1>k. \A c \in Conversations \ {Chat} : Remembers(log[c], session[c])
  BY <1>i DEF MemoryHolds
<1>r. \A r \in Runs : /\ run[r].status = "unborn" => run[r].at = "unborn"
                      /\ run[r].status \in Terminal => run[r].at = "over"
  BY <1>i DEF RowsAgree, Fresh
<1>1. ASSUME NEW t \in Threads, NEW c \in Conversations, UserStops(t, c) PROVE ChatInv'
  <2>1. UNCHANGED chatVars /\ UNCHANGED <<registry, run>> /\ token' \in [Runs -> TokenRecord]
    BY <1>1, <1>i, StopTypes DEF UserStops, Stop
  <2> QED  BY <2>1, <1>i, <1>k, <1>r, RowsBase DEF TypeOK, chatVars, rowVars, history
<1>2. ASSUME NEW n \in Notices, AppendReads(n) PROVE ChatInv'
  <2>1. /\ append' = [on |-> n, base |-> log[Chat]] /\ log[Chat] \in Seq(Item)
        /\ posted' = posted \cup {n} /\ noted' = [noted EXCEPT ![n] = Stored(Chat)]
        /\ Stored(Chat) \subseteq Runs
    BY <1>2, <1>i, ChatIsKey DEF AppendReads, TypeOK, Stored, Recorded
  <2>2. UNCHANGED <<runVars, log, session, turn, req, handled, replied, restarts, gone,
                    dropped, twice>>
    BY <1>2 DEF AppendReads, rowVars
  <2>3. /\ append' \in [on: Notices \cup {None}, base: Seq(Item)]
        /\ posted' \subseteq Notices /\ noted' \in [Notices -> SUBSET Runs]
    BY <2>1, <1>i DEF TypeOK
  <2> QED  BY <2>2, <2>3, <1>i, <1>k, <1>r, RowsBase DEF TypeOK, runVars
<1>3. CASE AppendWrites
  <2>1. /\ append.on \in Notices /\ append.base \in Seq(Item) /\ append.on \in Item
        /\ log' = [log EXCEPT ![Chat] = Append(append.base, append.on)]
        /\ append' = [on |-> None, base |-> <<>>]
        /\ UNCHANGED <<runVars, session, turn, req, posted, handled, replied, restarts,
                       noted, gone, dropped, twice>>
    BY <1>3, <1>i DEF AppendWrites, NoAppend, TypeOK, Item, history
  <2>2. Append(append.base, append.on) \in Seq(Item)
    BY <2>1
  <2>3. log' \in [Conversations -> Seq(Item)]
    BY <2>1, <2>2, <1>i DEF TypeOK
  <2>4. \A c \in Conversations \ {Chat} : Remembers(log'[c], session'[c])
    BY <2>1, <1>k, <1>i DEF TypeOK
  <2>5. append' \in [on: Notices \cup {None}, base: Seq(Item)]
    <3>1. <<>> \in Seq(Item)
      OBVIOUS
    <3> QED  BY <2>1, <3>1
  <2> QED  BY <2>1, <2>3, <2>4, <2>5, <1>i, <1>r, RowsBase DEF TypeOK, runVars
<1> QED  BY <1>1, <1>2, <1>3 DEF PollerStep

LEMMA RestartBase == ASSUME ChatInv, Restart PROVE ChatInv'
<1>i. TypeOK /\ RowsAgree /\ MemoryHolds /\ TurnsCounted
  BY DEF ChatInv
<1>0. /\ registry' = [c \in Conversations |-> None]
      /\ run' = [r \in Runs |-> IF run[r].status = "running"
                              THEN [run[r] EXCEPT !.status = "lost", !.at = "over"]
                              ELSE run[r]]
      /\ token' = [r \in Runs |-> [token[r] EXCEPT !.proc = "none"]]
      /\ req' = [t \in Threads |-> Idle] /\ handled' = {} /\ restarts' = restarts + 1
      /\ restarts < MaxRestarts
      /\ UNCHANGED <<log, session, turn, append, posted, replied, noted, gone, dropped, twice>>
  BY DEF Restart, RunsRestart, Live, rowVars, history
<1>r. /\ \A r \in Runs : run'[r] \in RunRecord /\ run'[r].conv = run[r].conv
      /\ \A r \in Runs : (run'[r].status = "unborn") <=> (run[r].status = "unborn")
      /\ \A r \in Runs : run'[r].status \in Terminal \cup {"unborn"} => run'[r] = run[r]
  <2> SUFFICES ASSUME NEW r \in Runs
               PROVE  /\ run'[r] \in RunRecord /\ run'[r].conv = run[r].conv
                      /\ (run'[r].status = "unborn") <=> (run[r].status = "unborn")
                      /\ run'[r].status \in Terminal \cup {"unborn"} => run'[r] = run[r]
    OBVIOUS
  <2>1. run[r] \in RunRecord
    BY <1>i DEF TypeOK
  <2>2. run'[r] = IF run[r].status = "running"
                  THEN [run[r] EXCEPT !.status = "lost", !.at = "over"] ELSE run[r]
    BY <1>0
  <2>3. [run[r] EXCEPT !.status = "lost", !.at = "over"] \in RunRecord
    BY <2>1 DEF RunRecord, Statuses, Places
  <2>4. CASE run[r].status = "running"
    BY <2>1, <2>2, <2>3, <2>4 DEF RunRecord, Terminal
  <2>5. CASE run[r].status # "running"
    BY <2>1, <2>2, <2>5
  <2> QED  BY <2>4, <2>5
<1>1. TypeOK'
  <2>1. run' \in [Runs -> RunRecord]
    BY <1>0, <1>r
  <2>2. token' \in [Runs -> TokenRecord]
    <3>1. ASSUME NEW r \in Runs PROVE [token[r] EXCEPT !.proc = "none"] \in TokenRecord
      <4>1. token[r] \in TokenRecord /\ "none" \in Procs
        BY <1>i DEF TypeOK, Procs
      <4> QED  BY <4>1 DEF TokenRecord
    <3>2. token' = [r \in Runs |-> [token[r] EXCEPT !.proc = "none"]]
      BY <1>0
    <3> HIDE DEF TokenRecord
    <3>3. \A r \in Runs : token'[r] \in TokenRecord
      BY <3>1, <3>2, Zenon
    <3> QED  BY <3>2, <3>3, Zenon
  <2>3. req' \in [Threads -> Request] /\ registry' \in [Conversations -> Runs \cup {None}]
        /\ handled' \in SUBSET Messages
    BY <1>0, TurnTypes
  <2>4. restarts' \in 0 .. MaxRestarts
    <3>1. restarts \in 0 .. MaxRestarts
      BY <1>i DEF TypeOK
    <3>2. restarts' = restarts + 1 /\ restarts < MaxRestarts
      BY <1>0
    <3> QED  BY <3>1, <3>2, RestartsBounded
  <2>5. UNCHANGED <<log, session, turn, append, posted, replied, noted, gone, dropped, twice>>
    BY <1>0
  <2>6. TypeOK
    BY <1>i
  <2> QED  BY <2>1, <2>2, <2>3, <2>4, <2>5, <2>6 DEF TypeOK
<1>2. RowsAgree'
  BY <1>0, <1>r, <1>i, TurnTypes DEF RowsAgree, Fresh
<1>3. MemoryHolds'
  BY <1>0, <1>r, <1>i DEF MemoryHolds
<1>4. TurnsCounted'
  <2>b. \A k \in Messages : Begun(k)' = Begun(k)
    BY <1>0, <1>r, BegunKeeps
  <2>p. \A k \in Messages : Pending(k)' = {}
    BY <1>0, TurnTypes, NoneIsNoMessage DEF Pending
  <2>1. ASSUME NEW k \in Messages \ twice'
        PROVE  /\ \A t, u \in Pending(k)' : t = u
               /\ \A t \in Pending(k)' : k \in handled' <=> req'[t].step # "deliver"
               /\ IsFiniteSet(Begun(k)') /\ Cardinality(Begun(k)') \in Nat /\ restarts' \in Nat
               /\ k \in handled' /\ Pending(k)' = {} => Cardinality(Begun(k)') <= restarts' + 1
               /\ ~(k \in handled' /\ Pending(k)' = {}) => Cardinality(Begun(k)') <= restarts'
    <3> DEFINE n == Cardinality(Begun(k))
    <3>1. k \in Messages \ twice
      BY <1>0, <2>1
    <3>2. /\ IsFiniteSet(Begun(k)) /\ n \in Nat /\ restarts \in Nat
          /\ k \in handled /\ Pending(k) = {} => n <= restarts + 1
          /\ ~(k \in handled /\ Pending(k) = {}) => n <= restarts
      BY <3>1, <1>i, CountOf, Zenon
    <3>3. Begun(k)' = Begun(k) /\ Pending(k)' = {} /\ restarts' = restarts + 1
      BY <2>1, <2>b, <2>p, <1>0
    <3> HIDE DEF n
    <3>h. handled' = {}
      BY <1>0
    <3>4. n <= restarts + 1
      BY <3>2
    <3>5. restarts + 1 \in Nat /\ n <= (restarts + 1) + 1
      BY <3>2, <3>4
    <3> QED  BY <3>2, <3>3, <3>4, <3>5, <3>h, Zenon DEF n
  <2> QED  BY <2>1, CountAgain, Zenon
<1> QED  BY <1>1, <1>2, <1>3, <1>4 DEF ChatInv

---------------------------------------------------------------------------
(* Starts *)

\* Starting finds the conversation busy, or takes its key for a run that is new.
StartsRun(t, e) ==
    LET c == req[t].conv IN
    /\ NewRun \in Runs /\ Fresh(NewRun) /\ ~Busy(c)
    /\ run' = [run EXCEPT ![NewRun] = [conv |-> c, engine |-> e,
                   status |-> "running", at |-> "begun", ending |-> "none"]]
    /\ turn' = [turn EXCEPT ![NewRun] = req[t].turn]
    /\ registry' \in [Conversations -> Runs \cup {None}]
    /\ registry'[c] = NewRun
    /\ \A d \in Conversations \ {c} :
           registry'[d] = registry[d] \/ (registry'[d] = None /\ Finished(d))
FindsRun(t) ==
    /\ Busy(req[t].conv) /\ run' = run /\ turn' = turn
    /\ registry' \in [Conversations -> Runs \cup {None}]
    /\ \A d \in Conversations :
           registry'[d] = registry[d] \/ (registry'[d] = None /\ Finished(d))

LEMMA StartShape ==
    ASSUME ChatInv, NEW t \in Threads, NEW e \in Engines, Start(t, e)
    PROVE  /\ StartsRun(t, e) \/ FindsRun(t)
           /\ req[t].step = "start" /\ req[t].conv \in Conversations
           /\ req' = [req EXCEPT ![t] = Idle]
           /\ UNCHANGED <<token, log, session, append, posted, handled, replied, restarts,
                         noted, gone, dropped, twice>>
<1> DEFINE c == req[t].conv
<1>i. TypeOK /\ RowsAgree
  BY DEF ChatInv
<1>1. req[t].step = "start" /\ c \in Conversations
      /\ UNCHANGED <<token, log, session, append, posted, handled, replied, restarts,
                         noted, gone, dropped, twice>>
      /\ req' = [req EXCEPT ![t] = Idle]
  BY <1>i DEF Start, RowsAgree, WellFormed, Leaves, Register, rowVars, history
<1>2. NewRun \in Runs /\ Fresh(NewRun)
  BY FreshRun DEF Start
<1>3. PICK swept \in SUBSET {k \in Conversations : Finished(k)} :
        /\ registry' = [k \in Conversations |->
                          IF k = c /\ ~Busy(c) THEN NewRun
                          ELSE IF k \in swept THEN None ELSE registry[k]]
        /\ run' = IF Busy(c) THEN run
                  ELSE [run EXCEPT ![NewRun] = [conv |-> c, engine |-> e,
                            status |-> "running", at |-> "begun", ending |-> "none"]]
  BY Zenon DEF Start, Register
<1>4. turn' = IF Busy(c) THEN turn ELSE [turn EXCEPT ![NewRun] = req[t].turn]
  BY DEF Start
<1>5. registry' \in [Conversations -> Runs \cup {None}]
  BY <1>3, <1>2, <1>i DEF TypeOK
<1>6. CASE Busy(c)
  BY <1>6, <1>3, <1>4, <1>5, <1>1 DEF FindsRun
<1>7. CASE ~Busy(c)
  BY <1>7, <1>2, <1>3, <1>4, <1>5, <1>1 DEF StartsRun
<1> QED  BY <1>1, <1>6, <1>7

LEMMA StartBase ==
    ASSUME ChatInv, NEW t \in Threads, NEW e \in Engines, Start(t, e) PROVE ChatInv'
<1>i. TypeOK /\ RowsAgree /\ MemoryHolds /\ TurnsCounted
  BY DEF ChatInv
<1> DEFINE c == req[t].conv
<1>0. /\ StartsRun(t, e) \/ FindsRun(t)
      /\ req[t].step = "start" /\ c \in Conversations
      /\ req' = [req EXCEPT ![t] = Idle]
      /\ UNCHANGED <<token, log, session, append, posted, handled, replied, restarts,
                     noted, gone, dropped, twice>>
  BY StartShape, Zenon
<1>1. GoesTo(t, Idle)
  BY <1>0, IdleMoves DEF Leaves
<1>2. /\ req' \in [Threads -> Request]
      /\ req'[t] = Idle /\ \A u \in Threads \ {t} : req'[u] = req[u]
      /\ \A u \in Threads : WellFormed(req'[u])
  BY <1>i, <1>0, TurnTypes, RequestGoesTo, Zenon
<1>q. /\ req[t].turn \in TurnRecord
      /\ c # Chat => Remembers(req[t].turn.base, req[t].turn.carried)
  BY <1>i DEF TypeOK, Request, RowsAgree, WellFormed
<1>3. CASE FindsRun(t)
  <2>1. run' = run /\ turn' = turn
        /\ registry' \in [Conversations -> Runs \cup {None}]
        /\ \A d \in Conversations : registry'[d] \in {registry[d], None}
    BY <1>3 DEF FindsRun
  <2>2. /\ token' \in [Runs -> TokenRecord] /\ log' \in [Conversations -> Seq(Item)]
        /\ session' \in [Conversations -> Runs \cup {None}]
        /\ gone' \subseteq Runs /\ dropped' \subseteq Runs
        /\ \A d \in Conversations \ {Chat} : Remembers(log'[d], session'[d])
    BY <1>0, <1>i DEF TypeOK, MemoryHolds
  <2> QED  BY <2>1, <2>2, <1>0, <1>1, RequestsBase
<1>4. CASE StartsRun(t, e)
  <2> DEFINE r == NewRun
             N == [conv |-> c, engine |-> e, status |-> "running", at |-> "begun", ending |-> "none"]
  <2>1. /\ r \in Runs /\ run[r].status = "unborn"
        /\ run' = [run EXCEPT ![r] = N] /\ turn' = [turn EXCEPT ![r] = req[t].turn]
        /\ registry' \in [Conversations -> Runs \cup {None}] /\ registry'[c] = r
        /\ \A d \in Conversations \ {c} : registry'[d] \in {registry[d], None}
    BY <1>4 DEF StartsRun, Fresh
  <2>n. /\ N \in RunRecord /\ N.conv = c /\ N.status = "running"
    BY <1>0 DEF RunRecord, Statuses, Places, Endings
  <2> HIDE DEF r, N
  <2>o. /\ run' \in [Runs -> RunRecord] /\ turn' \in [Runs -> TurnRecord]
        /\ run'[r] = N /\ turn'[r] = req[t].turn
        /\ \A q \in Runs \ {r} : run'[q] = run[q] /\ turn'[q] = turn[q]
    BY <2>1, <2>n, <1>i, <1>q DEF TypeOK
  <2>2. TypeOK'
    BY <2>1, <2>o, <1>0, <1>2, <1>i DEF TypeOK
  <2>3. RowsAgree'
    <3>1. ASSUME NEW d \in Conversations, registry'[d] # None
          PROVE  run'[registry'[d]].conv = d /\ run'[registry'[d]].status # "unborn"
      <4>1. CASE d = c
        BY <4>1, <2>1, <2>o, <2>n
      <4>2. CASE d # c
        <5>1. registry'[d] = registry[d] /\ registry[d] \in Runs
          BY <4>2, <2>1, <3>1, <1>i DEF TypeOK
        <5>2. run[registry[d]].conv = d /\ run[registry[d]].status # "unborn"
          BY <5>1, <3>1, <1>i DEF RowsAgree, Fresh
        <5> QED  BY <5>1, <5>2, <2>o, <2>1
      <4> QED  BY <4>1, <4>2
    <3>2. /\ \A q \in Runs : run'[q].status # "unborn" => run'[q].conv \in Conversations
          /\ \A q \in Runs : run'[q].status = "unborn" => run'[q].at = "unborn"
          /\ \A q \in Runs : run'[q].status \in Terminal => run'[q].at = "over"
      BY <2>o, <2>n, <1>0, <1>i DEF RowsAgree, Fresh, Terminal
    <3> QED  BY <3>1, <3>2, <1>2, Zenon DEF RowsAgree, Fresh
  <2>4. MemoryHolds'
    BY <2>o, <2>n, <1>q, <1>0, <1>i DEF MemoryHolds
  <2>5. TurnsCounted'
    <3>1. ASSUME NEW k \in Messages \ twice'
          PROVE  /\ \A v, u \in Pending(k)' : v = u
                 /\ \A u \in Pending(k)' : k \in handled' <=> req'[u].step # "deliver"
                 /\ IsFiniteSet(Begun(k)') /\ Cardinality(Begun(k)') \in Nat /\ restarts' \in Nat
                 /\ k \in handled' /\ Pending(k)' = {} => Cardinality(Begun(k)') <= restarts' + 1
                 /\ ~(k \in handled' /\ Pending(k)' = {}) => Cardinality(Begun(k)') <= restarts'
      <4> DEFINE n == Cardinality(Begun(k))
      <4>1. k \in Messages \ twice /\ k # None
        BY <1>0, <3>1, NoneIsNoMessage
      <4>2. /\ \A v, u \in Pending(k) : v = u
            /\ \A u \in Pending(k) : k \in handled <=> req[u].step # "deliver"
            /\ IsFiniteSet(Begun(k)) /\ n \in Nat /\ restarts \in Nat
            /\ k \in handled /\ Pending(k) = {} => n <= restarts + 1
            /\ ~(k \in handled /\ Pending(k) = {}) => n <= restarts
        BY <4>1, <1>i, CountOf, Zenon
      <4>3. /\ Pending(k)' \subseteq Pending(k) /\ handled' = handled /\ restarts' = restarts
            /\ \A u \in Pending(k)' : req'[u] = req[u]
        BY <1>0, <1>2, <4>1, TurnTypes DEF Pending
      <4>p. /\ \A v, u \in Pending(k)' : v = u
            /\ \A u \in Pending(k)' : k \in handled' <=> req'[u].step # "deliver"
        BY <4>2, <4>3
      <4>4. CASE req[t].turn.from = k
        <5>1. t \in Pending(k) /\ t \notin Pending(k)' /\ k \in handled
          BY <4>4, <4>1, <4>2, <1>0, <1>2, TurnTypes DEF Pending
        <5>2. Pending(k)' = {}
          BY <5>1, <4>2, <4>3
        <5>3. Begun(k)' = Begun(k) \cup {r} /\ r \notin Begun(k)
          BY <4>4, <2>1, <2>o, <2>n DEF Begun, Fresh
        <5>4. IsFiniteSet(Begun(k)') /\ Cardinality(Begun(k)') = n + 1
          <6>1. /\ IsFiniteSet(Begun(k) \cup {r})
                /\ Cardinality(Begun(k) \cup {r}) = Cardinality(Begun(k)) + 1
            BY <4>2, <5>3, FS_AddElement
          <6> QED  BY <6>1, <5>3
        <5> HIDE DEF n
        <5>5. n + 1 <= restarts + 1 /\ n + 1 \in Nat
          BY <4>2, <5>1
        <5> QED  BY <5>1, <5>2, <5>4, <5>5, <4>2, <4>3, <4>p, Zenon
      <4>5. CASE req[t].turn.from # k
        <5>1. Begun(k)' = Begun(k)
          BY <4>5, <2>1, <2>o, <2>n DEF Begun, Fresh
        <5>2. Pending(k)' = Pending(k)
          BY <4>5, <4>1, <1>2, TurnTypes DEF Pending
        <5> QED  BY <5>1, <5>2, <4>2, <4>3, <4>p, Zenon
      <4> QED  BY <4>4, <4>5
    <3> QED  BY <3>1, CountAgain, Zenon
  <2> QED  BY <2>2, <2>3, <2>4, <2>5 DEF ChatInv
<1> QED  BY <1>0, <1>3, <1>4

LEMMA ChatStarts == Init => ChatInv
<1> SUFFICES ASSUME Init PROVE ChatInv
  OBVIOUS
<1>1. TypeOK
  BY TypesStart
<1>2. /\ run = [r \in Runs |-> Unborn] /\ Unborn.status = "unborn" /\ Unborn.at = "unborn"
      /\ registry = [c \in Conversations |-> None] /\ req = [t \in Threads |-> Idle]
      /\ turn = [r \in Runs |-> NoTurn] /\ session = [c \in Conversations |-> None]
      /\ handled = {} /\ restarts = 0
  BY DEF Init, RunsInit, Unborn
<1>3. RowsAgree
  BY <1>2, TurnTypes DEF RowsAgree, Fresh, Terminal
<1>4. MemoryHolds
  BY <1>2, TurnTypes DEF MemoryHolds, Remembers
<1>5. TurnsCounted
  <2>1. ASSUME NEW m \in Messages PROVE Begun(m) = {} /\ Pending(m) = {}
    BY <1>2, TurnTypes, NoneIsNoMessage DEF Begun, Pending, Fresh
  <2> QED  BY <2>1, <1>2, FS_EmptySet DEF TurnsCounted
<1> QED  BY <1>1, <1>3, <1>4, <1>5 DEF ChatInv

LEMMA ChatSteps == ChatInv /\ [Next]_vars => ChatInv'
<1> SUFFICES ASSUME ChatInv, [Next]_vars PROVE ChatInv'
  OBVIOUS
<1>1. ASSUME NEW t \in Threads, RequestStep(t) PROVE ChatInv'
  BY <1>1, RememberBase, LooksBase, ResetsBase, StartBase, Zenon DEF RequestStep, Looks
<1>2. ASSUME NEW t \in Threads, UserStep(t) PROVE ChatInv'
  BY <1>2, LooksBase, DeliverBase, OthersBase, Zenon DEF UserStep, Looks
<1>3. ASSUME NEW r \in Runs, TurnStep(r) \/ AgentMoves(r) PROVE ChatInv'
  BY <1>3, RunsBase
<1>4. CASE PollerStep
  BY <1>4, OthersBase
<1>5. CASE Restart
  BY <1>5, RestartBase
<1>6. CASE UNCHANGED vars
  <2>1. /\ UNCHANGED <<req, turn, handled, restarts, twice>>
        /\ UNCHANGED <<registry, run, token, log, session, append, posted, replied, noted,
                       gone, dropped>>
    BY <1>6 DEF vars, runVars, chatVars, rowVars, history
  <2> QED  BY <2>1, RowsBase DEF ChatInv, TypeOK, RowsAgree, MemoryHolds, Fresh
<1> QED  BY <1>1, <1>2, <1>3, <1>4, <1>5, <1>6, Zenon DEF Next

\* The inductive invariant of the rows and their copies, for any number of threads,
\* messages and restarts: types, requests, memory and the count of turns.
THEOREM ChatInvariance == Spec => []ChatInv
BY ChatStarts, ChatSteps, PTL DEF Spec

\* Every variable keeps its type.
THEOREM ChatTypes == Spec => []TypeOK
<1>1. ChatInv => TypeOK
  BY DEF ChatInv
<1> QED  BY <1>1, ChatInvariance, PTL

\* The session of a todo was opened by a turn its thread shows: persist and
\* reset_thread replace the two together, and a turn is built on a copy of both.
THEOREM MemoryStaysVisible == Spec => []MemoryIsVisible
<1>1. ChatInv => MemoryIsVisible
  BY DEF ChatInv, MemoryHolds, MemoryIsVisible, Remembers
<1> QED  BY <1>1, ChatInvariance, PTL

\* _seen_set: a message starts at most one turn in each process that saw it, however
\* often WhatsApp delivers it, unless two requests look it up at once.
THEOREM TurnsAreNotRepeated == Spec => []OneTurnPerMessage
<1>1. ASSUME ChatInv PROVE OneTurnPerMessage
  <2> SUFFICES ASSUME NEW m \in Messages \ twice
               PROVE  Cardinality({r \in Runs : ~Fresh(r) /\ turn[r].from = m}) <= 1 + restarts
    BY DEF OneTurnPerMessage
  <2> DEFINE n == Cardinality(Begun(m))
  <2>1. /\ n \in Nat /\ restarts \in Nat
        /\ m \in handled /\ Pending(m) = {} => n <= restarts + 1
        /\ ~(m \in handled /\ Pending(m) = {}) => n <= restarts
    BY <1>1, CountOf, Zenon DEF ChatInv
  <2> HIDE DEF n
  <2>2. n <= 1 + restarts
    BY <2>1
  <2> QED  BY <2>2 DEF n, Begun
<1> QED  BY <1>1, ChatInvariance, PTL

---------------------------------------------------------------------------
(* Reach *)

\* Steps that drop no run at work from the registry, and begin none.
LEMMA ReachKeeps ==
    ASSUME TypeOK, RowsAgree, RunIsInReach, dropped \subseteq dropped',
           \A r \in Runs : AtWork(r)' => AtWork(r) /\ run'[r].conv = run[r].conv,
           \A c \in Conversations, r \in Runs :
               registry[c] = r /\ AtWork(r) => registry'[c] = r \/ r \in dropped'
    PROVE  RunIsInReach'
<1> SUFFICES ASSUME NEW r \in Runs, AtWork(r)'
             PROVE  registry'[run'[r].conv] = r \/ r \in dropped'
  BY DEF RunIsInReach
<1>1. AtWork(r) /\ run'[r].conv = run[r].conv /\ run[r].conv \in Conversations
  BY DEF RowsAgree, AtWork, Live, Fresh
<1>2. registry[run[r].conv] = r \/ r \in dropped
  BY <1>1 DEF RunIsInReach
<1> QED  BY <1>1, <1>2

LEMMA ReachStarts == Init => RunIsInReach
BY DEF Init, RunsInit, Unborn, RunIsInReach, AtWork, Live

LEMMA StartReach ==
    ASSUME ChatInv, RunIsInReach, NEW t \in Threads, NEW e \in Engines, Start(t, e)
    PROVE  RunIsInReach'
<1>i. TypeOK /\ RowsAgree
  BY DEF ChatInv
<1> DEFINE c == req[t].conv
<1>0. /\ StartsRun(t, e) \/ FindsRun(t)
      /\ c \in Conversations /\ token' = token /\ dropped' = dropped
  BY StartShape, Zenon
<1>1. CASE FindsRun(t)
  BY <1>0, <1>1, <1>i, NoneIsNew, ReachKeeps DEF FindsRun, Finished, AtWork, Live
<1>2. CASE StartsRun(t, e)
  <2> DEFINE r == NewRun
             N == [conv |-> c, engine |-> e, status |-> "running", at |-> "begun", ending |-> "none"]
  <2>1. /\ r \in Runs /\ ~Busy(c)
        /\ run' = [run EXCEPT ![r] = N] /\ registry'[c] = r
        /\ \A d \in Conversations \ {c} :
               registry'[d] = registry[d] \/ (registry'[d] = None /\ Finished(d))
    BY <1>2 DEF StartsRun
  <2>n. N.conv = c
    OBVIOUS
  <2> HIDE DEF r, N, c
  <2>o. run'[r] = N /\ \A q \in Runs \ {r} : run'[q] = run[q]
    BY <2>1, <1>i DEF TypeOK
  <2> SUFFICES ASSUME NEW s \in Runs, AtWork(s)'
               PROVE  registry'[run'[s].conv] = s \/ s \in dropped'
    BY DEF RunIsInReach
  <2>2. CASE s = r
    BY <2>1, <2>2, <2>n, <2>o
  <2>3. CASE s # r
    <3>1. run'[s] = run[s] /\ AtWork(s) /\ run[s].conv \in Conversations
      BY <2>3, <2>o, <1>0, <1>i DEF AtWork, Live, RowsAgree, Fresh
    <3>2. CASE registry[run[s].conv] = s
      <4>1. run[s].conv # c
        BY <3>1, <3>2, <2>1, NoneIsNew DEF Busy, AtWork
      <4> QED  BY <3>1, <3>2, <4>1, <2>1 DEF Finished, AtWork
    <3>3. CASE s \in dropped
      BY <3>3, <1>0
    <3> QED  BY <3>1, <3>2, <3>3 DEF RunIsInReach
  <2> QED  BY <2>2, <2>3
<1> QED  BY <1>0, <1>1, <1>2

LEMMA ReachSteps == ChatInv /\ RunIsInReach /\ [Next]_vars => RunIsInReach'
<1> SUFFICES ASSUME ChatInv, RunIsInReach, [Next]_vars PROVE RunIsInReach'
  OBVIOUS
<1>i. TypeOK /\ RowsAgree
  BY DEF ChatInv
<1>s. ASSUME UNCHANGED <<registry, run, dropped>>,
             \A r \in Runs : token[r].stopped => token'[r].stopped
      PROVE  RunIsInReach'
  BY <1>i, <1>s, ReachKeeps DEF AtWork, Live
<1>c. ASSUME NEW c \in Conversations, Stop(c), dropped' = dropped PROVE RunIsInReach'
  <2>1. \A r \in Runs : token[r].stopped => token'[r].stopped
    BY <1>c, <1>i, StopTypes
  <2>2. UNCHANGED <<registry, run>>
    BY <1>c DEF Stop
  <2> QED  BY <2>1, <2>2, <1>c, <1>s
<1>1. ASSUME NEW t \in Threads, RequestStep(t) \/ UserStep(t) PROVE RunIsInReach'
  <2>1. CASE Remember(t)
    BY <2>1, <1>s DEF Remember, runVars, history
  <2>2. CASE Looks(t)
    <3>1. UNCHANGED allButReq
      BY <2>2, LooksMove, Zenon
    <3> QED  BY <3>1, <1>s DEF allButReq, runVars, history
  <2>3. ASSUME NEW e \in Engines, Start(t, e) PROVE RunIsInReach'
    BY <2>3, StartReach
  <2>4. CASE ResetStops(t)
    <3>1. req[t].conv \in Conversations /\ Stop(req[t].conv) /\ dropped' = dropped
      BY <2>4, <1>i DEF ResetStops, RowsAgree, WellFormed, history
    <3> QED  BY <3>1, <1>c
  <2>5. CASE ResetPops(t)
    <3>1. /\ UNCHANGED <<run, token>> /\ registry' = [registry EXCEPT ![req[t].conv] = None]
          /\ dropped' = dropped \cup {r \in Runs : registry[req[t].conv] = r /\ AtWork(r)}
      BY <2>5 DEF ResetPops, Pop
    <3>2. \A r \in Runs : AtWork(r)' => AtWork(r) /\ run'[r].conv = run[r].conv
      BY <3>1 DEF AtWork, Live
    <3>3. \A c \in Conversations, r \in Runs :
              registry[c] = r /\ AtWork(r) => registry'[c] = r \/ r \in dropped'
      BY <3>1, <1>i DEF TypeOK
    <3> QED  BY <3>1, <3>2, <3>3, <1>i, ReachKeeps
  <2>6. CASE ResetClears(t)
    BY <2>6, <1>s DEF ResetClears, runVars
  <2>7. ASSUME NEW m \in Messages, Deliver(t, m) PROVE RunIsInReach'
    BY <2>7, <1>s DEF Deliver, runVars
  <2>8. ASSUME NEW c \in Conversations, UserStops(t, c) PROVE RunIsInReach'
    BY <2>8, <1>c DEF UserStops, chatVars, history
  <2> QED  BY <1>1, <2>1, <2>2, <2>3, <2>4, <2>5, <2>6, <2>7, <2>8, Zenon
           DEF RequestStep, UserStep, Looks
<1>2. ASSUME NEW r \in Runs, TurnStep(r) \/ AgentMoves(r) PROVE RunIsInReach'
  <2>1. GoesOn(r) /\ dropped' = dropped
    BY <1>2, RunsChange, Zenon
  <2>2. \A q \in Runs : AtWork(q)' => AtWork(q) /\ run'[q].conv = run[q].conv
    BY <2>1 DEF GoesOn, AtWork, Live
  <2> QED  BY <2>1, <2>2, <1>i, ReachKeeps DEF GoesOn
<1>3. CASE PollerStep
  BY <1>3, <1>s DEF PollerStep, AppendReads, AppendWrites, runVars, history
<1>4. CASE Restart
  <2>1. ASSUME NEW r \in Runs PROVE run'[r].status # "running"
    <3>1. run'[r] = IF run[r].status = "running"
                    THEN [run[r] EXCEPT !.status = "lost", !.at = "over"] ELSE run[r]
      BY <1>4 DEF Restart, RunsRestart, Live
    <3>2. run[r] \in RunRecord
      BY <1>i DEF TypeOK
    <3>3. run[r].status = "running" => run'[r].status = "lost"
      BY <3>1, <3>2 DEF RunRecord
    <3> QED  BY <3>1, <3>3
  <2> QED  BY <2>1 DEF RunIsInReach, AtWork, Live
<1>5. CASE UNCHANGED vars
  BY <1>5, <1>s DEF vars, runVars, chatVars, history
<1> QED  BY <1>1, <1>2, <1>3, <1>4, <1>5, Zenon DEF Next

\* A run nobody has told to stop is registered for its conversation: runs.start takes
\* no key of a live run, and the pop of discard follows its stop.  What the two steps
\* of a reset leave open is a run started between them, which the pop drops.
THEOREM RunsStayInReach == Spec => []RunIsInReach
<1>1. Init => ChatInv /\ RunIsInReach
  BY ChatStarts, ReachStarts
<1>2. (ChatInv /\ RunIsInReach) /\ [Next]_vars => (ChatInv /\ RunIsInReach)'
  BY ChatSteps, ReachSteps
<1> QED  BY <1>1, <1>2, PTL DEF Spec

\* So two runs of one conversation are at work together only after a reset has dropped
\* one of them.
THEOREM SecondRunIsDropped ==
    Spec => [](\A r, s \in Runs : r # s /\ AtWork(r) /\ AtWork(s) /\ run[r].conv = run[s].conv
                   => r \in dropped \/ s \in dropped)
<1>1. RunIsInReach => \A r, s \in Runs :
          r # s /\ AtWork(r) /\ AtWork(s) /\ run[r].conv = run[s].conv
              => r \in dropped \/ s \in dropped
  BY DEF RunIsInReach
<1> QED  BY <1>1, RunsStayInReach, PTL

---------------------------------------------------------------------------
(* What is recorded *)

\* A copy that fits goes on to fit, as more is written and forgotten; what a written
\* turn or notice was built on does not change.
LEMMA FitsGrows ==
    ASSUME NEW seq, NEW saw, NEW W, NEW G, NEW T, NEW N, Fits(seq, saw, W, G, T, N),
           NEW less \in SUBSET saw, NEW V, NEW H, NEW U, NEW M, W \subseteq V, G \subseteq H,
           \A q \in W : (q \in Runs => U[q] = T[q]) /\ (q \notin Runs => M[q] = N[q])
    PROVE  Fits(seq, less, V, H, U, M)
<1>1. \A x \in Item : Contains(seq, x) => x \in V
  BY DEF Fits
<1>2. ASSUME NEW r \in less PROVE r \in Runs /\ r \in V /\ Keeps(seq, r, H, U, M)
  <2>1. r \in Runs /\ r \in W /\ Keeps(seq, r, G, T, N)
    BY <1>2 DEF Fits
  <2>2. CASE Contains(seq, r) \/ r \in G
    BY <2>1, <2>2 DEF Keeps
  <2>3. CASE \E q \in Item : /\ Contains(seq, q)
                             /\ r \notin (IF q \in Runs THEN T[q].saw ELSE N[q])
                             /\ ~Contains(T[r].base, q)
    <3>1. PICK q \in Item : /\ Contains(seq, q)
                            /\ r \notin (IF q \in Runs THEN T[q].saw ELSE N[q])
                            /\ ~Contains(T[r].base, q)
      BY <2>3
    <3>2. q \in W
      BY <3>1 DEF Fits
    <3>3. U[r] = T[r] /\ (q \in Runs => U[q] = T[q]) /\ (q \notin Runs => M[q] = N[q])
      BY <2>1, <3>2
    <3>4. /\ r \notin (IF q \in Runs THEN U[q].saw ELSE M[q])
          /\ ~Contains(U[r].base, q)
      BY <3>1, <3>3
    <3> QED  BY <2>1, <3>1, <3>4 DEF Keeps
  <2> QED  BY <2>1, <2>2, <2>3 DEF Keeps
<1> QED  BY <1>1, <1>2 DEF Fits

LEMMA NothingFits ==
    ASSUME NEW W, NEW G, NEW T, NEW N PROVE Fits(<<>>, {}, W, G, T, N)
BY DEF Fits, Contains

\* A writer appends its own item to its copy: the new thread keeps what the copy was to
\* keep, and it keeps the turns the writer had not seen, for they crossed it.
LEMMA AppendFits ==
    ASSUME NEW seq \in Seq(Item), NEW x \in Item, NEW saw, NEW W, NEW G, NEW T, NEW N,
           Fits(seq, saw, W, G, T, N),
           saw = (IF x \in Runs THEN T[x].saw ELSE N[x]),
           NEW more, NEW V, W \cup {x} \subseteq V,
           \A r \in more : r \in Runs /\ r \in V /\ (r = x \/ ~Contains(T[r].base, x))
    PROVE  Fits(Append(seq, x), more, V, G, T, N)
<1>a. \A y : Contains(Append(seq, x), y) <=> Contains(seq, y) \/ y = x
  BY AppendContains
<1>1. \A y \in Item : Contains(Append(seq, x), y) => y \in V
  BY <1>a DEF Fits
<1>2. ASSUME NEW r \in more PROVE Keeps(Append(seq, x), r, G, T, N)
  <2>1. CASE r = x
    BY <2>1, <1>a DEF Keeps
  <2>2. CASE r \in saw
    <3>1. Keeps(seq, r, G, T, N)
      BY <2>2 DEF Fits
    <3> QED  BY <3>1, <1>a, Zenon DEF Keeps
  <2>3. CASE r # x /\ r \notin saw
    <3>1. /\ Contains(Append(seq, x), x)
          /\ r \notin (IF x \in Runs THEN T[x].saw ELSE N[x])
          /\ ~Contains(T[r].base, x)
      BY <1>2, <2>3, <1>a
    <3> QED  BY <3>1, Zenon DEF Keeps
  <2> QED  BY <2>1, <2>2, <2>3
<1> QED  BY <1>1, <1>2, Zenon DEF Fits

LEMMA StoredIs ==
    \A c, r : r \in Stored(c) <=> r \in Runs /\ IsRecorded(r) /\ run[r].conv = c
BY DEF Stored, Recorded, IsRecorded

LEMMA StoredNext ==
    \A c, r : r \in Stored(c)' <=> r \in Runs /\ IsRecorded(r)' /\ run'[r].conv = c
BY DEF Stored, Recorded, IsRecorded

LEMMA StoredIsWritten ==
    ASSUME RowsAgree, NEW r \in Runs, IsRecorded(r)
    PROVE  r \in Written /\ run[r].conv \in Conversations
BY DEF RowsAgree, IsRecorded, Written, Ends, Terminal, Fresh

\* Nothing that was written changes what it was built on.
Grows ==
    /\ Written \subseteq Written' /\ gone \subseteq gone'
    /\ \A q \in Written : (q \in Runs => turn'[q] = turn[q])
                          /\ (q \notin Runs => noted'[q] = noted[q])

\* A copy is the old one, or it fits.
LEMMA RecordKeeps ==
    ASSUME RecordInv, Grows, append'.on # None => append'.on \in posted',
           \A c \in Conversations :
               \/ log'[c] = log[c] /\ Stored(c)' \subseteq Stored(c)
               \/ Fits(log'[c], Stored(c)', Written', gone', turn', noted'),
           \A t \in Threads :
               \/ req'[t].turn = req[t].turn
               \/ Fits(req'[t].turn.base, req'[t].turn.saw, Written', gone', turn', noted'),
           \A r \in Runs :
               \/ turn'[r] = turn[r]
               \/ Fits(turn'[r].base, turn'[r].saw, Written', gone', turn', noted'),
           append'.on # None =>
               \/ append' = append /\ noted'[append.on] = noted[append.on]
               \/ Fits(append'.base, noted'[append'.on], Written', gone', turn', noted')
    PROVE  RecordInv'
<1>g. /\ Written \subseteq Written' /\ gone \subseteq gone'
      /\ \A q \in Written : (q \in Runs => turn'[q] = turn[q])
                            /\ (q \notin Runs => noted'[q] = noted[q])
  BY DEF Grows
<1>1. ASSUME NEW c \in Conversations
      PROVE  Fits(log'[c], Stored(c)', Written', gone', turn', noted')
  <2>1. CASE log'[c] = log[c] /\ Stored(c)' \subseteq Stored(c)
    <3>1. Fits(log[c], Stored(c), Written, gone, turn, noted)
      BY DEF RecordInv
    <3>2. Stored(c)' \in SUBSET Stored(c)
      BY <2>1
    <3>3. Fits(log[c], Stored(c)', Written', gone', turn', noted')
      BY <1>g, <3>1, <3>2, FitsGrows
    <3> QED  BY <3>3, <2>1
  <2> QED  BY <2>1
<1>2. ASSUME NEW t \in Threads
      PROVE  Fits(req'[t].turn.base, req'[t].turn.saw, Written', gone', turn', noted')
  <2>1. CASE req'[t].turn = req[t].turn
    <3>1. Fits(req[t].turn.base, req[t].turn.saw, Written, gone, turn, noted)
      BY DEF RecordInv
    <3>2. req[t].turn.saw \in SUBSET req[t].turn.saw
      OBVIOUS
    <3>3. Fits(req[t].turn.base, req[t].turn.saw, Written', gone', turn', noted')
      BY <1>g, <3>1, <3>2, FitsGrows
    <3> QED  BY <3>3, <2>1
  <2> QED  BY <2>1
<1>3. ASSUME NEW r \in Runs
      PROVE  Fits(turn'[r].base, turn'[r].saw, Written', gone', turn', noted')
  <2>1. CASE turn'[r] = turn[r]
    <3>1. Fits(turn[r].base, turn[r].saw, Written, gone, turn, noted)
      BY DEF RecordInv
    <3>2. turn[r].saw \in SUBSET turn[r].saw
      OBVIOUS
    <3>3. Fits(turn[r].base, turn[r].saw, Written', gone', turn', noted')
      BY <1>g, <3>1, <3>2, FitsGrows
    <3> QED  BY <3>3, <2>1
  <2> QED  BY <2>1
<1>4. ASSUME append'.on # None
      PROVE  Fits(append'.base, noted'[append'.on], Written', gone', turn', noted')
  <2>1. CASE append' = append /\ noted'[append.on] = noted[append.on]
    <3>1. Fits(append.base, noted[append.on], Written, gone, turn, noted)
      BY <1>4, <2>1 DEF RecordInv
    <3>2. noted[append.on] \in SUBSET noted[append.on]
      OBVIOUS
    <3>3. Fits(append.base, noted[append.on], Written', gone', turn', noted')
      BY <1>g, <3>1, <3>2, FitsGrows
    <3> QED  BY <3>3, <2>1
  <2> QED  BY <1>4, <2>1
<1> QED  BY <1>1, <1>2, <1>3, <1>4, Zenon DEF RecordInv

\* A request moves alone.
LEMMA RequestsRecord ==
    ASSUME ChatInv, RecordInv, NEW t \in Threads, NEW X, req' = [req EXCEPT ![t] = X],
           Copied(t, X.turn),
           UNCHANGED <<log, turn, append, posted, noted>>, Written' = Written,
           gone \subseteq gone', \A c \in Conversations : Stored(c)' = Stored(c)
    PROVE  RecordInv'
<1>1. req'[t] = X /\ \A u \in Threads \ {t} : req'[u] = req[u]
  BY DEF ChatInv, TypeOK
<1>2. Grows
  BY DEF Grows
<1>3. Fits(X.turn.base, X.turn.saw, Written, gone, turn, noted)
  <2>1. CASE X.turn.base = req[t].turn.base /\ X.turn.saw = req[t].turn.saw
    BY <2>1 DEF RecordInv
  <2>2. CASE X.turn.base = <<>> /\ X.turn.saw = {}
    BY <2>2, NothingFits
  <2>3. CASE /\ req[t].conv \in Conversations
             /\ X.turn.base = log[req[t].conv] /\ X.turn.saw = Stored(req[t].conv)
    BY <2>3 DEF RecordInv
  <2> QED  BY <2>1, <2>2, <2>3 DEF Copied
<1>4. Fits(X.turn.base, X.turn.saw, Written', gone', turn', noted')
  <2>1. X.turn.saw \in SUBSET X.turn.saw
    OBVIOUS
  <2> QED  BY <1>2, <1>3, <2>1, FitsGrows DEF Grows
<1>5. \A u \in Threads :
          \/ req'[u].turn = req[u].turn
          \/ Fits(req'[u].turn.base, req'[u].turn.saw, Written', gone', turn', noted')
  BY <1>1, <1>4
<1>6. \A c \in Conversations : log'[c] = log[c] /\ Stored(c)' \subseteq Stored(c)
  OBVIOUS
<1>7. append'.on # None => append'.on \in posted'
  BY DEF RecordInv
<1> QED  BY <1>2, <1>5, <1>6, <1>7, RecordKeeps, Zenon

\* The runs, and what their agents did, are as they were.
LEMMA SameRuns ==
    ASSUME UNCHANGED <<run, append, posted>>,
           \A r \in Runs : token'[r].acted = token[r].acted
    PROVE  Written' = Written /\ \A c \in Conversations : Stored(c)' = Stored(c)
<1>1. Written' = Written
  BY DEF Written
<1>2. \A r \in Runs : IsRecorded(r)' <=> IsRecorded(r)
  BY DEF IsRecorded, ToRecord
<1> QED  BY <1>1, <1>2, StoredIs, StoredNext

LEMMA ResetsRecord ==
    ASSUME ChatInv, RecordInv, NEW t \in Threads,
           ResetStops(t) \/ ResetPops(t) \/ ResetClears(t)
    PROVE  RecordInv'
<1>i. TypeOK /\ RowsAgree
  BY DEF ChatInv
<1>c. req[t].step # "idle" => req[t].conv \in Conversations
  BY <1>i DEF RowsAgree, WellFormed
<1> PICK X : GoesTo(t, X) /\ Copied(t, X.turn)
  BY ResetsBase, Zenon
<1>x. req' = [req EXCEPT ![t] = X]
  BY DEF GoesTo
<1>1. CASE ResetStops(t) \/ ResetPops(t)
  <2>1. UNCHANGED <<run, log, turn, append, posted, noted, gone>>
    BY <1>1 DEF ResetStops, ResetPops, Stop, Pop, rowVars, history
  <2>2. \A r \in Runs : token'[r].acted = token[r].acted
    <3>1. CASE ResetStops(t)
      BY <3>1, <1>c, <1>i, StopTypes DEF ResetStops
    <3>2. CASE ResetPops(t)
      BY <3>2 DEF ResetPops, Pop
    <3> QED  BY <1>1, <3>1, <3>2
  <2>3. Written' = Written /\ \A c \in Conversations : Stored(c)' = Stored(c)
    BY <2>1, <2>2, SameRuns
  <2> QED  BY <1>x, <2>1, <2>3, RequestsRecord
<1>2. CASE ResetClears(t)
  <2> PICK c \in Conversations : c = req[t].conv
    BY <1>2, <1>c DEF ResetClears
  <2>1. /\ UNCHANGED <<run, token, turn, append, posted, noted>>
        /\ log' = [log EXCEPT ![c] = <<>>]
        /\ gone' = gone \cup {r \in Runs : run[r].conv = c} /\ req' = [req EXCEPT ![t] = Idle]
    BY <1>2, <1>c DEF ResetClears, runVars, Leaves
  <2>2. Written' = Written /\ \A d \in Conversations : Stored(d)' = Stored(d)
    BY <2>1, SameRuns
  <2>3. Grows
    BY <2>1, <2>2 DEF Grows
  <2>l. log'[c] = <<>> /\ \A d \in Conversations \ {c} : log'[d] = log[d]
    BY <2>1, <1>i DEF TypeOK
  <2>4. Fits(log'[c], Stored(c)', Written', gone', turn', noted')
    <3>1. ~\E x : Contains(<<>>, x)
      BY DEF Contains
    <3>2. \A r \in Stored(c) : r \in Runs /\ r \in Written /\ r \in gone'
      BY <2>1, <1>i, StoredIs, StoredIsWritten
    <3> QED  BY <2>1, <2>2, <2>l, <3>1, <3>2 DEF Fits, Keeps
  <2>5. \A d \in Conversations :
            \/ log'[d] = log[d] /\ Stored(d)' \subseteq Stored(d)
            \/ Fits(log'[d], Stored(d)', Written', gone', turn', noted')
    BY <2>2, <2>4, <2>l
  <2>6. \A u \in Threads :
            \/ req'[u].turn = req[u].turn
            \/ Fits(req'[u].turn.base, req'[u].turn.saw, Written', gone', turn', noted')
    <3>1. req'[t] = Idle /\ \A u \in Threads \ {t} : req'[u] = req[u]
      BY <2>1, <1>i DEF TypeOK
    <3>2. Fits(Idle.turn.base, Idle.turn.saw, Written', gone', turn', noted')
      BY TurnTypes, NothingFits
    <3> QED  BY <3>1, <3>2
  <2>7. append'.on # None => append'.on \in posted'
    BY <2>1 DEF RecordInv
  <2> QED  BY <2>1, <2>3, <2>5, <2>6, <2>7, RecordKeeps, Zenon
<1> QED  BY <1>1, <1>2

\* A run begins with the copy its request made; nothing was written under its name.
LEMMA StartRecord ==
    ASSUME ChatInv, RecordInv, NEW t \in Threads, NEW e \in Engines, Start(t, e)
    PROVE  RecordInv'
<1>i. TypeOK /\ RowsAgree
  BY DEF ChatInv
<1> DEFINE c == req[t].conv
<1>0. /\ StartsRun(t, e) \/ FindsRun(t)
      /\ req' = [req EXCEPT ![t] = Idle]
      /\ UNCHANGED <<token, log, append, posted, noted, gone>>
  BY StartShape, Zenon
<1>1. CASE FindsRun(t)
  <2>1. run' = run /\ turn' = turn
    BY <1>1 DEF FindsRun
  <2>2. Written' = Written /\ \A d \in Conversations : Stored(d)' = Stored(d)
    BY <1>0, <2>1, SameRuns
  <2>3. Copied(t, Idle.turn)
    BY TurnTypes DEF Copied
  <2> QED  BY <1>0, <2>1, <2>2, <2>3, RequestsRecord
<1>2. CASE StartsRun(t, e)
  <2> PICK r \in Runs : r = NewRun
    BY <1>2 DEF StartsRun
  <2> DEFINE N == [conv |-> c, engine |-> e, status |-> "running", at |-> "begun", ending |-> "none"]
  <2>1. /\ run[r].status = "unborn" /\ run[r].at = "unborn"
        /\ run' = [run EXCEPT ![r] = N] /\ turn' = [turn EXCEPT ![r] = req[t].turn]
    BY <1>2, <1>i DEF StartsRun, Fresh, RowsAgree
  <2>n. N.status = "running" /\ N.at = "begun"
    OBVIOUS
  <2> HIDE DEF N
  <2>o. /\ run'[r] = N /\ turn'[r] = req[t].turn
        /\ \A q \in Runs \ {r} : run'[q] = run[q] /\ turn'[q] = turn[q]
    BY <2>1, <1>i DEF TypeOK
  <2>2. Written' = Written /\ (r \in Written => r \in Notices)
    BY <2>1, <2>n, <2>o, <1>0, <1>i DEF Written, Ends, TypeOK
  <2>w. r \notin Written
    BY <2>1, <2>2, NoticesAreNotRuns
  <2>3. \A d \in Conversations : Stored(d)' = Stored(d)
    <3>1. ~IsRecorded(r) /\ ~IsRecorded(r)'
      BY <2>1, <2>n, <2>o DEF IsRecorded, Terminal
    <3>2. \A q \in Runs \ {r} : (IsRecorded(q)' <=> IsRecorded(q)) /\ run'[q].conv = run[q].conv
      BY <2>o, <1>0 DEF IsRecorded, ToRecord
    <3>3. ASSUME NEW d \in Conversations, NEW q \in Runs
          PROVE  q \in Stored(d)' <=> q \in Stored(d)
      <4>1. CASE q = r
        BY <3>1, <4>1, StoredIs, StoredNext
      <4>2. CASE q # r
        BY <3>2, <4>2, StoredIs, StoredNext
      <4> QED  BY <4>1, <4>2
    <3>4. \A d \in Conversations : Stored(d) \subseteq Runs /\ Stored(d)' \subseteq Runs
      BY StoredIs, StoredNext
    <3> QED  BY <3>3, <3>4
  <2>4. Grows
    BY <2>2, <2>w, <2>o, <1>0 DEF Grows
  <2>5. Fits(req[t].turn.base, req[t].turn.saw, Written', gone', turn', noted')
    <3>1. Fits(req[t].turn.base, req[t].turn.saw, Written, gone, turn, noted)
      BY DEF RecordInv
    <3>2. req[t].turn.saw \in SUBSET req[t].turn.saw
      OBVIOUS
    <3> QED  BY <2>4, <3>1, <3>2, FitsGrows DEF Grows
  <2>6. \A q \in Runs :
            \/ turn'[q] = turn[q]
            \/ Fits(turn'[q].base, turn'[q].saw, Written', gone', turn', noted')
    BY <2>o, <2>5
  <2>7. \A u \in Threads :
            \/ req'[u].turn = req[u].turn
            \/ Fits(req'[u].turn.base, req'[u].turn.saw, Written', gone', turn', noted')
    <3>1. req'[t] = Idle /\ \A u \in Threads \ {t} : req'[u] = req[u]
      BY <1>0, <1>i DEF TypeOK
    <3>2. Fits(Idle.turn.base, Idle.turn.saw, Written', gone', turn', noted')
      BY TurnTypes, NothingFits
    <3> QED  BY <3>1, <3>2
  <2>8. append'.on # None => append'.on \in posted'
    BY <1>0 DEF RecordInv
  <2>9. \A d \in Conversations : log'[d] = log[d] /\ Stored(d)' \subseteq Stored(d)
    BY <1>0, <2>3
  <2>10. append' = append /\ noted'[append.on] = noted[append.on]
    BY <1>0
  <2> QED  BY <2>4, <2>6, <2>7, <2>8, <2>9, <2>10, RecordKeeps, Zenon
<1> QED  BY <1>0, <1>1, <1>2

\* A run goes on, or writes its copy with itself appended: no copy has its name yet.
LEMMA RunsRecord ==
    ASSUME ChatInv, RecordInv, NEW r \in Runs, TurnStep(r) \/ AgentMoves(r)
    PROVE  RecordInv'
<1>i. TypeOK /\ RowsAgree
  BY DEF ChatInv
<1>0. /\ GoesOn(r)
      /\ UNCHANGED <<turn, req, append, posted, handled, restarts, noted, gone, dropped, twice>>
      /\ \/ UNCHANGED <<log, session>> /\ (IsRecorded(r)' => IsRecorded(r))
         \/ /\ log' = [log EXCEPT ![run[r].conv] = Append(turn[r].base, r)]
            /\ run[r].at = "ended" /\ run'[r].at = "saved" /\ run[r].status = "running"
  BY RunsChange, Zenon
<1>1. \A q \in Runs \ {r} : run'[q] = run[q] /\ token'[q] = token[q]
  BY <1>0 DEF GoesOn
<1>2. /\ run'[r].conv = run[r].conv
      /\ run[r].at \in Ends => run'[r].at \in Ends
  BY <1>0 DEF GoesOn
<1>3. \A q \in Runs \ {r} : (IsRecorded(q)' <=> IsRecorded(q)) /\ run'[q].conv = run[q].conv
  BY <1>1 DEF IsRecorded, ToRecord
<1>4. Written \subseteq Written'
  <2>1. \A q \in Runs : run[q].at \in Ends => run'[q].at \in Ends
    BY <1>1, <1>2
  <2>2. append' = append /\ posted' = posted
    BY <1>0
  <2> QED  BY <2>1, <2>2 DEF Written
<1>5. Grows
  BY <1>0, <1>4 DEF Grows
<1>6. append'.on # None => append'.on \in posted'
  BY <1>0 DEF RecordInv
<1>7. ASSUME NEW c \in Conversations, ~(IsRecorded(r)' /\ ~IsRecorded(r) /\ run[r].conv = c)
      PROVE  Stored(c)' \subseteq Stored(c)
  <2> SUFFICES ASSUME NEW q \in Runs, q \in Stored(c)' PROVE q \in Stored(c)
    BY StoredNext
  <2>1. CASE q = r
    BY <1>2, <1>7, <2>1, StoredIs, StoredNext
  <2>2. CASE q # r
    BY <1>3, <2>2, StoredIs, StoredNext
  <2> QED  BY <2>1, <2>2
<1>8. \A c \in Conversations :
          \/ log'[c] = log[c] /\ Stored(c)' \subseteq Stored(c)
          \/ Fits(log'[c], Stored(c)', Written', gone', turn', noted')
  <2>1. CASE UNCHANGED <<log, session>> /\ (IsRecorded(r)' => IsRecorded(r))
    BY <1>7, <2>1
  <2>2. CASE /\ log' = [log EXCEPT ![run[r].conv] = Append(turn[r].base, r)]
             /\ run[r].at = "ended" /\ run'[r].at = "saved" /\ run[r].status = "running"
    <3> SUFFICES ASSUME NEW c \in Conversations
                 PROVE  \/ log'[c] = log[c] /\ Stored(c)' \subseteq Stored(c)
                        \/ Fits(log'[c], Stored(c)', Written', gone', turn', noted')
      OBVIOUS
    <3>1. CASE run[r].conv # c
      BY <3>1, <2>2, <1>7, <1>i DEF TypeOK
    <3>2. CASE run[r].conv = c
      <4>1. log'[c] = Append(turn[r].base, r)
        BY <3>2, <2>2, <1>i DEF TypeOK
      <4>2. turn[r].base \in Seq(Item) /\ r \in Item
        BY <1>i DEF TypeOK, TurnRecord, Item
      <4>3. Fits(turn[r].base, turn[r].saw, Written, gone, turn, noted)
        BY DEF RecordInv
      <4>4. r \notin Written /\ r \in Written'
        BY <2>2, <1>i, NoticesAreNotRuns DEF Written, Ends, TypeOK
      <4>5. ASSUME NEW q \in Stored(c)'
            PROVE  q \in Runs /\ q \in Written' /\ (q = r \/ ~Contains(turn[q].base, r))
        <5>1. q \in Runs
          BY StoredNext
        <5>2. CASE q = r
          BY <4>4, <5>1, <5>2
        <5>3. CASE q # r
          <6>1. IsRecorded(q)
            BY <1>3, <5>1, <5>3, StoredNext
          <6>2. q \in Written
            BY <5>1, <6>1, <1>i, StoredIsWritten
          <6>3. ~Contains(turn[q].base, r)
            BY <5>1, <4>2, <4>4 DEF RecordInv, Fits
          <6> QED  BY <5>1, <6>2, <6>3, <1>4
        <5> QED  BY <5>2, <5>3
      <4>6. turn[r].saw = (IF r \in Runs THEN turn[r].saw ELSE noted[r])
        OBVIOUS
      <4>7. Written \cup {r} \subseteq Written'
        BY <1>4, <4>4
      <4>8. Fits(Append(turn[r].base, r), Stored(c)', Written', gone, turn, noted)
        BY <4>2, <4>3, <4>5, <4>6, <4>7, AppendFits
      <4> QED  BY <4>1, <4>8, <1>0
    <3> QED  BY <3>1, <3>2
  <2> QED  BY <1>0, <2>1, <2>2
<1> QED  BY <1>0, <1>5, <1>6, <1>8, RecordKeeps

\* The poller reads the chat, and writes its copy back with the notice.
LEMMA PollerRecord == ASSUME ChatInv, RecordInv, PollerStep PROVE RecordInv'
<1>i. TypeOK /\ RowsAgree
  BY DEF ChatInv
<1>1. ASSUME NEW n \in Notices, AppendReads(n) PROVE RecordInv'
  <2>1. /\ append' = [on |-> n, base |-> log[Chat]] /\ append.on = None /\ n \notin posted
        /\ posted' = posted \cup {n} /\ noted' = [noted EXCEPT ![n] = Stored(Chat)]
        /\ UNCHANGED <<run, token, log, turn, req, gone>> /\ Chat \in Conversations
    BY <1>1, ChatIsKey DEF AppendReads, runVars, rowVars
  <2>2. n \notin Written /\ n \notin Runs
    BY <2>1, NoticesAreNotRuns DEF Written
  <2>3. Written \subseteq Written'
    <3>1. None \notin posted
      BY <1>i, NoneIsNoMessage DEF TypeOK
    <3> QED  BY <2>1, <2>2, <3>1 DEF Written
  <2>4. Grows
    BY <2>1, <2>2, <2>3, <1>i DEF Grows, TypeOK, Written
  <2>5. \A c \in Conversations : Stored(c)' \subseteq Stored(c)
    <3>1. \A r \in Runs : IsRecorded(r)' => IsRecorded(r)
      BY <2>1 DEF IsRecorded, ToRecord
    <3> QED  BY <3>1, <2>1, StoredIs, StoredNext
  <2>6. Fits(append'.base, noted'[append'.on], Written', gone', turn', noted')
    <3>1. append'.base = log[Chat] /\ noted'[append'.on] = Stored(Chat)
      BY <2>1, <1>i DEF TypeOK
    <3>2. Fits(log[Chat], Stored(Chat), Written, gone, turn, noted)
      BY <2>1 DEF RecordInv
    <3>3. Stored(Chat) \in SUBSET Stored(Chat)
      OBVIOUS
    <3>4. Fits(log[Chat], Stored(Chat), Written', gone', turn', noted')
      BY <2>4, <3>2, <3>3, FitsGrows DEF Grows
    <3> QED  BY <3>1, <3>4
  <2>7. append'.on \in posted'
    BY <2>1
  <2>8. \A c \in Conversations : log'[c] = log[c] /\ Stored(c)' \subseteq Stored(c)
    BY <2>1, <2>5
  <2>9. (\A t \in Threads : req'[t].turn = req[t].turn) /\ (\A r \in Runs : turn'[r] = turn[r])
    BY <2>1
  <2> QED  BY <2>4, <2>6, <2>7, <2>8, <2>9, RecordKeeps
<1>2. CASE AppendWrites
  <2> PICK n : n = append.on
    OBVIOUS
  <2>1. /\ n \in Notices /\ n # None /\ append.base \in Seq(Item) /\ n \in Item /\ n \notin Runs
        /\ log' = [log EXCEPT ![Chat] = Append(append.base, n)]
        /\ append'.on = None /\ n \in posted /\ Chat \in Conversations
        /\ UNCHANGED <<run, token, turn, req, posted, noted, gone>>
    BY <1>2, <1>i, ChatIsKey, NoticesAreNotRuns
       DEF AppendWrites, NoAppend, TypeOK, Item, runVars, history, RecordInv
  <2>2. n \notin Written /\ Written \cup {n} \subseteq Written'
    <3>1. n \notin Written
      BY <2>1 DEF Written
    <3>2. None \notin posted
      BY <1>i, NoneIsNoMessage DEF TypeOK
    <3>3. n \in Written'
      BY <2>1, <3>2 DEF Written
    <3>4. Written \subseteq Written'
      BY <2>1, <3>2 DEF Written
    <3> QED  BY <3>1, <3>3, <3>4
  <2>3. Grows
    BY <2>1, <2>2 DEF Grows
  <2>4. \A c \in Conversations : Stored(c)' \subseteq Stored(c)
    <3>1. \A r \in Runs : IsRecorded(r)' => IsRecorded(r)
      BY <2>1 DEF IsRecorded, ToRecord
    <3> QED  BY <3>1, <2>1, StoredIs, StoredNext
  <2>5. Fits(append.base, noted[n], Written, gone, turn, noted)
    BY <2>1 DEF RecordInv
  <2>6. \A r \in Stored(Chat)' :
            r \in Runs /\ r \in Written' /\ (r = n \/ ~Contains(turn[r].base, n))
    <3> SUFFICES ASSUME NEW r \in Stored(Chat)'
                 PROVE  r \in Runs /\ r \in Written' /\ (r = n \/ ~Contains(turn[r].base, n))
      OBVIOUS
    <3>1. r \in Stored(Chat)
      BY <2>1, <2>4
    <3>2. r \in Runs /\ r \in Written
      BY <3>1, <1>i, StoredIs, StoredIsWritten
    <3>3. ~Contains(turn[r].base, n)
      BY <3>2, <2>1, <2>2 DEF RecordInv, Fits
    <3> QED  BY <3>2, <3>3, <2>2
  <2>7. noted[n] = (IF n \in Runs THEN turn[n].saw ELSE noted[n])
    BY <2>1
  <2>8. Fits(Append(append.base, n), Stored(Chat)', Written', gone, turn, noted)
    BY <2>1, <2>2, <2>5, <2>6, <2>7, AppendFits
  <2>9. \A c \in Conversations :
            \/ log'[c] = log[c] /\ Stored(c)' \subseteq Stored(c)
            \/ Fits(log'[c], Stored(c)', Written', gone', turn', noted')
    <3> SUFFICES ASSUME NEW c \in Conversations
                 PROVE  \/ log'[c] = log[c] /\ Stored(c)' \subseteq Stored(c)
                        \/ Fits(log'[c], Stored(c)', Written', gone', turn', noted')
      OBVIOUS
    <3>1. CASE c = Chat
      <4>1. log'[c] = Append(append.base, n)
        BY <3>1, <2>1, <1>i DEF TypeOK
      <4> QED  BY <4>1, <3>1, <2>1, <2>8
    <3>2. CASE c # Chat
      BY <3>2, <2>1, <2>4, <1>i DEF TypeOK
    <3> QED  BY <3>1, <3>2
  <2>10. (\A t \in Threads : req'[t].turn = req[t].turn) /\ (\A r \in Runs : turn'[r] = turn[r])
    BY <2>1
  <2> QED  BY <2>1, <2>3, <2>9, <2>10, RecordKeeps
<1> QED  BY <1>1, <1>2 DEF PollerStep

\* The threads of the process are gone, and what they would have written.
LEMMA RestartRecord == ASSUME ChatInv, RecordInv, Restart PROVE RecordInv'
<1>i. TypeOK /\ RowsAgree
  BY DEF ChatInv
<1>0. /\ run' = [r \in Runs |-> IF run[r].status = "running"
                              THEN [run[r] EXCEPT !.status = "lost", !.at = "over"]
                              ELSE run[r]]
      /\ token' = [r \in Runs |-> [token[r] EXCEPT !.proc = "none"]]
      /\ req' = [t \in Threads |-> Idle]
      /\ UNCHANGED <<log, turn, append, posted, noted, gone>>
  BY DEF Restart, RunsRestart, Live, rowVars, history
<1>1. ASSUME NEW r \in Runs
      PROVE  /\ run'[r].conv = run[r].conv
             /\ run[r].at \in Ends => run'[r].at \in Ends
             /\ IsRecorded(r)' => IsRecorded(r)
  <2>1. run[r] \in RunRecord /\ token[r] \in TokenRecord
    BY <1>i DEF TypeOK
  <2>2. /\ run'[r] = IF run[r].status = "running"
                     THEN [run[r] EXCEPT !.status = "lost", !.at = "over"] ELSE run[r]
        /\ token'[r] = [token[r] EXCEPT !.proc = "none"]
    BY <1>0
  <2>3. token'[r].acted = token[r].acted
    BY <2>1, <2>2 DEF TokenRecord
  <2>4. CASE run[r].status = "running"
    <3>1. run'[r].status = "lost" /\ run'[r].at = "over" /\ run'[r].conv = run[r].conv
      BY <2>1, <2>2, <2>4 DEF RunRecord
    <3> QED  BY <3>1 DEF IsRecorded, Terminal, Ends
  <2>5. CASE run[r].status # "running"
    BY <2>2, <2>3, <2>5 DEF IsRecorded, ToRecord
  <2> QED  BY <2>4, <2>5
<1>2. Written \subseteq Written'
  <2>1. append' = append /\ posted' = posted
    BY <1>0
  <2> QED  BY <1>1, <2>1 DEF Written
<1>3. Grows
  BY <1>0, <1>2 DEF Grows
<1>4. \A c \in Conversations : log'[c] = log[c] /\ Stored(c)' \subseteq Stored(c)
  <2> SUFFICES ASSUME NEW c \in Conversations
               PROVE  log'[c] = log[c] /\ Stored(c)' \subseteq Stored(c)
    OBVIOUS
  <2>1. log'[c] = log[c]
    BY <1>0
  <2>2. ASSUME NEW r \in Stored(c)' PROVE r \in Stored(c)
    <3>1. r \in Runs /\ IsRecorded(r)' /\ run'[r].conv = c
      BY <2>2, StoredNext
    <3>2. IsRecorded(r) /\ run[r].conv = c
      BY <3>1, <1>1
    <3> QED  BY <3>1, <3>2, StoredIs
  <2> QED  BY <2>1, <2>2
<1>5. \A t \in Threads :
          Fits(req'[t].turn.base, req'[t].turn.saw, Written', gone', turn', noted')
  <2> SUFFICES ASSUME NEW t \in Threads
               PROVE  Fits(req'[t].turn.base, req'[t].turn.saw,
                           Written', gone', turn', noted')
    OBVIOUS
  <2>1. req'[t].turn.base = <<>> /\ req'[t].turn.saw = {}
    BY <1>0 DEF Idle, NoTurn
  <2>2. Fits(<<>>, {}, Written', gone', turn', noted')
    BY NothingFits
  <2> QED  BY <2>1, <2>2
<1>6. append'.on # None => append'.on \in posted'
  BY <1>0 DEF RecordInv
<1>7. /\ \A r \in Runs : turn'[r] = turn[r]
      /\ append' = append /\ noted'[append.on] = noted[append.on]
  BY <1>0
<1> QED  BY <1>3, <1>4, <1>5, <1>6, <1>7, RecordKeeps

LEMMA RecordStarts == Init => RecordInv
<1> SUFFICES ASSUME Init PROVE RecordInv
  OBVIOUS
<1>1. /\ run = [r \in Runs |-> Unborn] /\ Unborn.status = "unborn" /\ Unborn.at = "unborn"
      /\ req = [t \in Threads |-> Idle] /\ turn = [r \in Runs |-> NoTurn]
      /\ log = [c \in Conversations |-> <<>>] /\ append.on = None
  BY DEF Init, RunsInit, Unborn, NoAppend
<1>2. \A c \in Conversations : Stored(c) = {}
  BY <1>1, StoredIs DEF IsRecorded, Terminal
<1> QED  BY <1>1, <1>2, TurnTypes, NothingFits DEF RecordInv

LEMMA RecordSteps == ChatInv /\ RecordInv /\ [Next]_vars => RecordInv'
<1> SUFFICES ASSUME ChatInv, RecordInv, [Next]_vars PROVE RecordInv'
  OBVIOUS
<1>a. ASSUME NEW t \in Threads, NEW X, req' = [req EXCEPT ![t] = X], Copied(t, X.turn),
             UNCHANGED <<runVars, log, turn, append, posted, noted, gone>>
      PROVE  RecordInv'
  <2>1. Written' = Written /\ \A c \in Conversations : Stored(c)' = Stored(c)
    BY <1>a, SameRuns DEF runVars
  <2> QED  BY <1>a, <2>1, RequestsRecord
<1>1. ASSUME NEW t \in Threads, RequestStep(t) \/ UserStep(t) PROVE RecordInv'
  <2>1. CASE Remember(t)
    <3>1. PICK X : req' = [req EXCEPT ![t] = X] /\ X.turn = req[t].turn
      BY <2>1, RememberBase, Zenon
    <3>2. UNCHANGED <<runVars, log, turn, append, posted, noted, gone>>
      BY <2>1, RememberBase DEF rowVars
    <3> QED  BY <3>1, <3>2, <1>a DEF Copied
  <2>2. CASE Looks(t)
    <3>1. PICK X : GoesTo(t, X) /\ Copied(t, X.turn)
      BY <2>2, LooksMove, Zenon
    <3>2. UNCHANGED allButReq
      BY <2>2, LooksMove, Zenon
    <3> QED  BY <3>1, <3>2, <1>a DEF GoesTo, allButReq, rowVars, history
  <2>3. ASSUME NEW m \in Messages, Deliver(t, m) PROVE RecordInv'
    <3>1. PICK X : req' = [req EXCEPT ![t] = X] /\ X.turn = [NoTurn EXCEPT !.from = m]
      BY <2>3, DeliverBase, Zenon
    <3>2. UNCHANGED <<runVars, log, turn, append, posted, noted, gone>>
      BY <2>3, DeliverBase DEF rowVars
    <3>3. X.turn.base = <<>> /\ X.turn.saw = {}
      BY <3>1, TurnTypes DEF TurnRecord
    <3> QED  BY <3>1, <3>2, <3>3, <1>a DEF Copied
  <2>4. ASSUME NEW e \in Engines, Start(t, e) PROVE RecordInv'
    BY <2>4, StartRecord
  <2>5. ASSUME NEW c \in Conversations, UserStops(t, c) PROVE RecordInv'
    <3>1. \A r \in Runs : token'[r].acted = token[r].acted
      BY <2>5, StopTypes DEF UserStops, ChatInv
    <3>2. UNCHANGED <<run, log, turn, req, append, posted, noted, gone>>
      BY <2>5 DEF UserStops, Stop, chatVars, rowVars, history
    <3>3. Written' = Written /\ \A d \in Conversations : Stored(d)' = Stored(d)
      BY <3>1, <3>2, SameRuns
    <3>4. Grows /\ (append'.on # None => append'.on \in posted')
      BY <3>2, <3>3 DEF Grows, RecordInv
    <3> QED  BY <3>2, <3>3, <3>4, RecordKeeps
  <2> QED  BY <1>1, <2>1, <2>2, <2>3, <2>4, <2>5, ResetsRecord, Zenon
           DEF RequestStep, UserStep, Looks
<1>2. ASSUME NEW r \in Runs, TurnStep(r) \/ AgentMoves(r) PROVE RecordInv'
  BY <1>2, RunsRecord
<1>3. CASE PollerStep
  BY <1>3, PollerRecord
<1>4. CASE Restart
  BY <1>4, RestartRecord
<1>5. CASE UNCHANGED vars
  <2>1. UNCHANGED <<run, token, log, turn, req, append, posted, noted, gone>>
    BY <1>5 DEF vars, runVars, chatVars, rowVars, history
  <2>2. Written' = Written /\ \A c \in Conversations : Stored(c)' = Stored(c)
    BY <2>1, SameRuns
  <2>3. Grows /\ (append'.on # None => append'.on \in posted')
    BY <2>1, <2>2 DEF Grows, RecordInv
  <2> QED  BY <2>1, <2>2, <2>3, RecordKeeps
<1> QED  BY <1>1, <1>2, <1>3, <1>4, <1>5, Zenon DEF Next

\* The inductive invariant of the threads and of every copy that may be written back:
\* each has nothing but what was written, and keeps what was stored when it was taken.
THEOREM RecordInvariance == Spec => [](ChatInv /\ RecordInv)
<1>1. Init => ChatInv /\ RecordInv
  BY ChatStarts, RecordStarts
<1>2. (ChatInv /\ RecordInv) /\ [Next]_vars => (ChatInv /\ RecordInv)'
  BY ChatSteps, RecordSteps
<1> QED  BY <1>1, <1>2, PTL DEF Spec

\* A turn that was answered, or had acted, stays in its thread until a reset, and
\* unless the thread shows a turn or a notice that crossed it: persist is reached
\* whatever a stop or a failure did to the turn, and it replaces the thread by a copy
\* that fits.
THEOREM TurnsStayRecorded == Spec => []TurnIsRecorded
<1>1. ASSUME ChatInv, RecordInv PROVE TurnIsRecorded
  <2> SUFFICES ASSUME NEW r \in Recorded
               PROVE  \/ Contains(log[run[r].conv], r) \/ r \in gone
                      \/ \E i \in DOMAIN log[run[r].conv] : Crossed(log[run[r].conv][i], r)
    BY DEF TurnIsRecorded
  <2>1. r \in Runs /\ IsRecorded(r)
    BY DEF Recorded, IsRecorded
  <2>2. run[r].conv \in Conversations
    BY <1>1, <2>1, StoredIsWritten DEF ChatInv
  <2>3. log[run[r].conv] \in Seq(Item)
    BY <1>1, <2>2 DEF ChatInv, TypeOK
  <2>4. Keeps(log[run[r].conv], r, gone, turn, noted)
    BY <1>1, <2>1, <2>2, StoredIs DEF RecordInv, Fits
  <2>5. CASE \E q \in Item : /\ Contains(log[run[r].conv], q)
                             /\ r \notin (IF q \in Runs THEN turn[q].saw ELSE noted[q])
                             /\ ~Contains(turn[r].base, q)
    <3>1. PICK q \in Item : /\ Contains(log[run[r].conv], q)
                            /\ r \notin (IF q \in Runs THEN turn[q].saw ELSE noted[q])
                            /\ ~Contains(turn[r].base, q)
      BY <2>5
    <3>2. Crossed(q, r)
      BY <3>1 DEF Crossed, Before
    <3>3. PICK i \in 1 .. Len(log[run[r].conv]) : log[run[r].conv][i] = q
      BY <3>1 DEF Contains
    <3>4. i \in DOMAIN log[run[r].conv]
      BY <2>3, <3>3
    <3> QED  BY <3>2, <3>3, <3>4
  <2> QED  BY <2>4, <2>5 DEF Keeps
<1> QED  BY <1>1, RecordInvariance, PTL

=============================================================================
