--------------------------- MODULE Dispatch_proofs ---------------------------
(***************************************************************************)
(* Proofs about Dispatch, for every number of jobs, rows, dispatchers,     *)
(* receivers, faults and restores.                                         *)
(***************************************************************************)
EXTENDS Dispatch, TLAPS

USE DispatchAssumption

\* Whoever is not idle has a real envelope.
MailOK ==
    /\ \A d \in Dispatchers : dispatcher[d].at # "idle" => dispatcher[d].mail \in Envelope
    /\ \A w \in Receivers : receiver[w].at # "idle" => receiver[w].mail \in Envelope

TypeInv == DispatchTypeOK /\ MailOK

\* A row somebody sends is a real row, and its fence has not gone back.
FencesBelow ==
    \A d \in Dispatchers, r \in Rows : Sends(d, r) =>
        outbox[r].job # 0 /\ dispatcher[d].fence <= outbox[r].fence

\* A lease gives its dispatcher a fence that no other one has for the row.
FencesDiffer ==
    \A r \in Rows, d, e \in Dispatchers :
        Sends(d, r) /\ Sends(e, r) /\ dispatcher[d].fence = dispatcher[e].fence => d = e

FenceInv == TypeInv /\ FencesBelow /\ FencesDiffer

-----------------------------------------------------------------------------
(* The rows *)

\* A row goes back to a lower fence only when nobody sends it, and never
\* ceases to be a row.
RowsMoveOn ==
    \A r \in Rows : \/ outbox'[r].job # 0 /\ outbox'[r].fence >= outbox[r].fence
                    \/ outbox'[r] = outbox[r]
                    \/ \A d \in Dispatchers : ~Sends(d, r)

\* Dispatchers only forget, or move on with what they have.
SendersMoveOn ==
    \A d \in Dispatchers :
        \/ dispatcher'[d].at = "idle"
        \/ /\ dispatcher[d].at # "idle"
           /\ dispatcher'[d].mail = dispatcher[d].mail
           /\ dispatcher'[d].fence = dispatcher[d].fence

\* Steps of that kind keep the invariant.
LEMMA MovingOnKeepsFenceInv ==
    ASSUME FenceInv, TypeInv', RowsMoveOn, SendersMoveOn PROVE FenceInv'
  <1>1. \A d \in Dispatchers, r \in Rows : Sends(d, r)' =>
            Sends(d, r) /\ dispatcher'[d].fence = dispatcher[d].fence
    BY DEF SendersMoveOn, Sends
  <1>2. FencesBelow'
    <2> SUFFICES ASSUME NEW d \in Dispatchers, NEW r \in Rows, Sends(d, r)'
                 PROVE  outbox'[r].job # 0 /\ dispatcher'[d].fence <= outbox'[r].fence
      BY DEF FencesBelow
    <2>1. Sends(d, r) /\ dispatcher'[d].fence = dispatcher[d].fence
      BY <1>1
    <2>2. outbox[r].job # 0 /\ dispatcher[d].fence <= outbox[r].fence
      BY <2>1 DEF FenceInv, FencesBelow
    <2>3. dispatcher[d].fence \in Nat /\ outbox[r].fence \in Nat /\ outbox'[r].fence \in Nat
      BY DEF FenceInv, TypeInv, DispatchTypeOK, Sender, OutboxRow
    <2>4. \/ outbox'[r].job # 0 /\ outbox'[r].fence >= outbox[r].fence
          \/ outbox'[r] = outbox[r]
      BY <2>1 DEF RowsMoveOn
    <2> QED BY <2>1, <2>2, <2>3, <2>4
  <1>3. FencesDiffer'
    BY <1>1 DEF FenceInv, FencesDiffer
  <1> QED BY <1>2, <1>3 DEF FenceInv

-----------------------------------------------------------------------------
(* What notify does to the rows *)

\* The row a notification takes is one nobody can tell from a missing one.
LEMMA SpareRowIsSpare ==
    ASSUME HasSpare PROVE SpareRow \in Rows /\ Spare(SpareRow)
  BY DEF HasSpare, SpareRow

\* Nobody sends a spare row.
LEMMA SpareIsNotSent ==
    ASSUME FenceInv, HasSpare, NEW d \in Dispatchers PROVE ~Sends(d, SpareRow)
  <1>1. SpareRow \in Rows /\ Spare(SpareRow)
    BY SpareRowIsSpare
  <1>2. SUFFICES ASSUME Sends(d, SpareRow) PROVE FALSE
    OBVIOUS
  <1>3. outbox[SpareRow].job # 0
    BY <1>1, <1>2 DEF FenceInv, FencesBelow
  <1>4. Forgotten(SpareRow)
    BY <1>1, <1>3 DEF Spare
  <1> QED BY <1>2, <1>4 DEF Forgotten

\* A new outbox row is an outbox row.
LEMMA NewRowType ==
    ASSUME TypeInv, NEW j \in Jobs, NEW due \in BOOLEAN
    PROVE  /\ NewRow(j, due) \in OutboxRow
           /\ NewRow(j, due).job # 0
  <1>1. runtime.epoch \in 0 .. MaxEpoch /\ j \in Nat /\ j # 0
    BY DEF TypeInv, DispatchTypeOK, Jobs
  <1> QED BY <1>1 DEF NewRow, OutboxRow

\* notify and wake_next give away a row that nobody sends.
LEMMA NotifyMovesOn ==
    ASSUME FenceInv, NEW j \in Jobs, Notify(j)
    PROVE  outbox' \in [Rows -> OutboxRow] /\ RowsMoveOn
  <1>1. HasSpare /\ outbox' = [outbox EXCEPT ![SpareRow] = NewRow(j, TRUE)]
    BY DEF Notify
  <1>2. outbox \in [Rows -> OutboxRow] /\ SpareRow \in Rows
    BY <1>1, SpareRowIsSpare DEF FenceInv, TypeInv, DispatchTypeOK
  <1>3. \A d \in Dispatchers : ~Sends(d, SpareRow)
    BY <1>1, SpareIsNotSent
  <1>4. NewRow(j, TRUE) \in OutboxRow
    BY NewRowType DEF FenceInv
  <1>5. outbox' \in [Rows -> OutboxRow]
    BY <1>1, <1>2, <1>4
  <1>6. RowsMoveOn
    BY <1>1, <1>2, <1>3 DEF RowsMoveOn
  <1> QED BY <1>5, <1>6

\* An outbox that stays as it is keeps all fences in order.
LEMMA SameRowsMoveOn == outbox' = outbox => RowsMoveOn
  BY DEF RowsMoveOn

\* wake_next only adds a row, to nobody's harm.
LEMMA WakeNextMovesOn ==
    ASSUME FenceInv, NEW js, WakeNext(js)
    PROVE  outbox' \in [Rows -> OutboxRow] /\ RowsMoveOn
  <1>1. CASE NextWaiting(js) = {}
    BY <1>1, SameRowsMoveOn DEF WakeNext, FenceInv, TypeInv, DispatchTypeOK
  <1>2. CASE NextWaiting(js) # {}
    <2>1. PICK j \in NextWaiting(js) : Notify(j)
      BY <1>2 DEF WakeNext
    <2>2. j \in Jobs
      BY <2>1 DEF NextWaiting
    <2> QED BY <2>1, <2>2, NotifyMovesOn
  <1> QED BY <1>1, <1>2

-----------------------------------------------------------------------------
(* The actions *)

\* The end of a job leaves the jobs jobs.
LEMMA ClosedType ==
    ASSUME TypeInv, NEW j \in Jobs, NEW target \in {"ended", "review"}
    PROVE  Closed(j, target) \in [Jobs -> JobRow]
  <1>1. jobs[j] \in JobRow /\ jobs \in [Jobs -> JobRow]
    BY DEF TypeInv, DispatchTypeOK
  <1>2. [jobs[j] EXCEPT !.state = target, !.due = TRUE] \in JobRow
    BY <1>1 DEF JobRow
  <1>3. Closed(j, target) = [jobs EXCEPT ![j] = [jobs[j] EXCEPT !.state = target, !.due = TRUE]]
    BY <1>1 DEF Closed, JobRow
  <1> QED BY <1>1, <1>2, <1>3

\* Accepting a job keeps the fences in order.
LEMMA AcceptMovesOn ==
    ASSUME FenceInv, NEW j \in Jobs, Accept(j) PROVE FenceInv'
  <1>1. outbox' \in [Rows -> OutboxRow] /\ RowsMoveOn
    BY NotifyMovesOn DEF Accept
  <1>2. [state |-> "waiting", epoch |-> runtime.epoch, due |-> TRUE] \in JobRow
    BY DEF FenceInv, TypeInv, DispatchTypeOK, JobRow
  <1>3. TypeInv'
    BY <1>1, <1>2 DEF Accept, FenceInv, TypeInv, DispatchTypeOK, MailOK
  <1>4. SendersMoveOn
    BY DEF Accept, SendersMoveOn
  <1> QED BY <1>1, <1>3, <1>4, MovingOnKeepsFenceInv

\* So does ending one.
LEMMA ClosingMovesOn ==
    ASSUME FenceInv, NEW j \in Jobs, NEW target \in {"ended", "review"},
           jobs' = Closed(j, target), WakeNext(Closed(j, target)),
           UNCHANGED <<runtime, dispatcher, broker, receiver, faults>>
    PROVE  FenceInv'
  <1>1. outbox' \in [Rows -> OutboxRow] /\ RowsMoveOn
    BY WakeNextMovesOn
  <1>2. jobs' \in [Jobs -> JobRow]
    BY ClosedType DEF FenceInv
  <1>3. TypeInv'
    BY <1>1, <1>2 DEF FenceInv, TypeInv, DispatchTypeOK, MailOK
  <1>4. SendersMoveOn
    BY DEF SendersMoveOn
  <1> QED BY <1>1, <1>3, <1>4, MovingOnKeepsFenceInv

\* So does sending one back to wait for a retry.
LEMMA RetryMovesOn ==
    ASSUME FenceInv, NEW j \in Jobs, Retry(j) PROVE FenceInv'
  <1>1. jobs \in [Jobs -> JobRow] /\ outbox \in [Rows -> OutboxRow] /\ HasSpare
    BY DEF FenceInv, TypeInv, DispatchTypeOK, Retry
  <1>2. jobs' \in [Jobs -> JobRow]
    BY <1>1 DEF Retry, JobRow
  <1>3. NewRow(j, FALSE) \in OutboxRow
    BY NewRowType DEF FenceInv
  <1>4. \A r \in Rows : [outbox[r] EXCEPT !.due = FALSE] \in OutboxRow
    BY <1>1 DEF OutboxRow
  <1>5. outbox' \in [Rows -> OutboxRow]
    BY <1>1, <1>3, <1>4 DEF Retry
  <1>6. RowsMoveOn
    <2> SUFFICES ASSUME NEW r \in Rows, r # SpareRow, outbox'[r] # outbox[r]
                 PROVE  outbox'[r].job # 0 /\ outbox'[r].fence >= outbox[r].fence
      BY <1>1, SpareIsNotSent DEF RowsMoveOn
    <2>1. outbox'[r] = [outbox[r] EXCEPT !.due = FALSE] /\ outbox[r].job = j
      BY DEF Retry
    <2>2. outbox[r] \in OutboxRow /\ j # 0
      BY <1>1 DEF Jobs
    <2> QED BY <2>1, <2>2 DEF OutboxRow
  <1>7. TypeInv'
    BY <1>2, <1>5 DEF Retry, FenceInv, TypeInv, DispatchTypeOK, MailOK
  <1>8. SendersMoveOn
    BY DEF Retry, SendersMoveOn
  <1> QED BY <1>6, <1>7, <1>8, MovingOnKeepsFenceInv

\* So does a redispatch.
LEMMA RedispatchMovesOn ==
    ASSUME FenceInv, NEW j \in Jobs, Redispatch(j) PROVE FenceInv'
  <1>1. CASE \E r \in Rows : outbox[r].job = j /\ outbox[r].quarantined
    BY <1>1, ClosingMovesOn DEF Redispatch
  <1>2. CASE ~\E r \in Rows : outbox[r].job = j /\ outbox[r].quarantined
    <2>1. outbox' \in [Rows -> OutboxRow] /\ RowsMoveOn
      BY <1>2, NotifyMovesOn DEF Redispatch
    <2>2. TypeInv'
      BY <1>2, <2>1 DEF Redispatch, FenceInv, TypeInv, DispatchTypeOK, MailOK
    <2>3. SendersMoveOn
      BY <1>2 DEF Redispatch, SendersMoveOn
    <2> QED BY <2>1, <2>2, <2>3, MovingOnKeepsFenceInv
  <1> QED BY <1>1, <1>2

\* A lease is the one step that makes a sender; its fence is above all others.
LEMMA LeaseKeepsFenceInv ==
    ASSUME FenceInv, NEW d \in Dispatchers, NEW r \in Rows, Lease(d, r) PROVE FenceInv'
  <1> DEFINE mail == [row |-> r, job |-> outbox[r].job, epoch |-> outbox[r].epoch]
             fence == outbox[r].fence + 1
  <1>1. /\ outbox \in [Rows -> OutboxRow] /\ outbox[r] \in OutboxRow
        /\ dispatcher \in [Dispatchers -> Sender]
        /\ runtime.epoch \in 1 .. MaxEpoch
    BY DEF FenceInv, TypeInv, DispatchTypeOK
  <1>2. outbox[r].job \in Jobs /\ outbox[r].epoch = runtime.epoch /\ outbox[r].job # 0
    BY DEF Lease, Jobs
  <1>3. mail \in Envelope
    BY <1>1, <1>2 DEF Envelope
  <1>4. /\ outbox' = [outbox EXCEPT ![r] = Leased(r)]
        /\ Leased(r) \in OutboxRow /\ Leased(r).fence = fence /\ Leased(r).job # 0
        /\ fence \in Nat /\ fence > outbox[r].fence
    <2>1. fence \in Nat /\ fence > outbox[r].fence
      BY <1>1 DEF OutboxRow
    <2>2. Leased(r) = [[outbox[r] EXCEPT !.lease = "live"] EXCEPT !.fence = fence]
      BY <1>1 DEF Leased, OutboxRow
    <2> HIDE DEF fence
    <2>3. /\ Leased(r) \in OutboxRow /\ Leased(r).fence = fence
          /\ Leased(r).job = outbox[r].job
      BY <1>1, <2>1, <2>2 DEF OutboxRow
    <2> QED BY <1>2, <2>1, <2>3 DEF Lease
  <1>5. /\ outbox' \in [Rows -> OutboxRow] /\ outbox'[r].fence = fence /\ outbox'[r].job # 0
        /\ \A q \in Rows \ {r} : outbox'[q] = outbox[q]
    BY <1>1, <1>4
  <1>6. dispatcher' = [dispatcher EXCEPT ![d] = [at |-> "sending", fence |-> fence, mail |-> mail]]
    BY <1>5 DEF Lease
  <1>7. [at |-> "sending", fence |-> fence, mail |-> mail] \in Sender
    BY <1>3, <1>4 DEF Sender
  <1> HIDE DEF mail, fence
  <1>8. TypeInv'
    BY <1>1, <1>3, <1>5, <1>6, <1>7 DEF Lease, FenceInv, TypeInv, DispatchTypeOK, MailOK
  <1>9. /\ dispatcher'[d].fence = fence /\ dispatcher'[d].mail = mail /\ mail.row = r
        /\ \A e \in Dispatchers \ {d} : dispatcher'[e] = dispatcher[e]
    BY <1>1, <1>6 DEF mail
  <1>10. \A e \in Dispatchers : Sends(e, r) => dispatcher[e].fence \in Nat /\ dispatcher[e].fence < fence
    BY <1>1, <1>4 DEF FenceInv, FencesBelow, Sender, OutboxRow
  <1>11. FencesBelow'
    <2> SUFFICES ASSUME NEW e \in Dispatchers, NEW q \in Rows, Sends(e, q)'
                 PROVE  outbox'[q].job # 0 /\ dispatcher'[e].fence <= outbox'[q].fence
      BY DEF FencesBelow
    <2>1. CASE e = d
      BY <2>1, <1>4, <1>5, <1>9 DEF Sends
    <2>2. CASE e # d /\ q = r
      BY <2>2, <1>4, <1>5, <1>9, <1>10 DEF Sends
    <2>3. CASE e # d /\ q # r
      BY <2>3, <1>5, <1>9 DEF Sends, FenceInv, FencesBelow
    <2> QED BY <2>1, <2>2, <2>3
  <1>12. FencesDiffer'
    <2> SUFFICES ASSUME NEW q \in Rows, NEW e \in Dispatchers, NEW g \in Dispatchers,
                        Sends(e, q)', Sends(g, q)',
                        dispatcher'[e].fence = dispatcher'[g].fence
                 PROVE  e = g
      BY DEF FencesDiffer
    <2>1. CASE e # d /\ g # d
      BY <2>1, <1>9 DEF Sends, FenceInv, FencesDiffer
    <2>2. CASE e = d /\ g # d
      BY <2>2, <1>9, <1>10, <1>4 DEF Sends
    <2>3. CASE e # d /\ g = d
      BY <2>3, <1>9, <1>10, <1>4 DEF Sends
    <2> QED BY <2>1, <2>2, <2>3
  <1> QED BY <1>8, <1>11, <1>12 DEF FenceInv

\* Send, the failures and the records: the dispatcher goes on or forgets, and the
\* row it writes stays a row with its fence.
LEMMA SendingMovesOn ==
    ASSUME FenceInv, NEW d \in Dispatchers,
           Send(d) \/ (\E taken \in BOOLEAN : SendFails(d, taken)) \/ DispatcherDies(d)
    PROVE  FenceInv'
  <1>1. /\ dispatcher \in [Dispatchers -> Sender]
        /\ dispatcher[d].at # "idle" => dispatcher[d].mail \in Envelope
        /\ broker \in SUBSET Envelope /\ faults \in 0 .. MaxFaults /\ faults \in Nat
    BY DEF FenceInv, TypeInv, DispatchTypeOK, MailOK
  <1>2. broker' \in SUBSET Envelope
    BY <1>1 DEF Send, SendFails, DispatcherDies
  <1>3. faults' \in 0 .. MaxFaults
    BY <1>1 DEF Send, SendFails, DispatcherDies, Fault
  <1>4. /\ dispatcher' \in [Dispatchers -> Sender]
        /\ SendersMoveOn
        /\ \A e \in Dispatchers : dispatcher'[e].at # "idle" => dispatcher'[e].mail \in Envelope
    <2>1. CASE DispatcherDies(d)
      BY <1>1, <2>1 DEF DispatcherDies, IdleSender, Sender, SendersMoveOn, FenceInv, TypeInv, MailOK
    <2>2. CASE Send(d) \/ \E taken \in BOOLEAN : SendFails(d, taken)
      <3>1. PICK at \in {"sent", "refused"} :
               dispatcher' = [dispatcher EXCEPT ![d].at = at] /\ dispatcher[d].at # "idle"
        BY <2>2 DEF Send, SendFails
      <3> QED BY <1>1, <3>1 DEF Sender, SendersMoveOn, FenceInv, TypeInv, MailOK
    <2> QED BY <2>1, <2>2
  <1>5. UNCHANGED <<runtime, jobs, outbox, receiver>>
    BY DEF Send, SendFails, DispatcherDies
  <1>6. TypeInv'
    BY <1>2, <1>3, <1>4, <1>5 DEF FenceInv, TypeInv, DispatchTypeOK, MailOK
  <1> QED BY <1>4, <1>5, <1>6, SameRowsMoveOn, MovingOnKeepsFenceInv

\* Changing one row, or none, without taking its job or its fence back.
LEMMA RowChangeMovesOn ==
    ASSUME FenceInv, NEW r \in Rows, NEW row \in OutboxRow, outbox[r].job # 0,
           row.job = outbox[r].job, row.fence = outbox[r].fence,
           outbox' = [outbox EXCEPT ![r] = row]
    PROVE  outbox' \in [Rows -> OutboxRow] /\ RowsMoveOn
  <1>1. outbox \in [Rows -> OutboxRow] /\ outbox[r] \in OutboxRow
    BY DEF FenceInv, TypeInv, DispatchTypeOK
  <1>2. outbox'[r] = row /\ \A q \in Rows \ {r} : outbox'[q] = outbox[q]
    BY <1>1
  <1>3. outbox[r].fence \in Nat
    BY <1>1 DEF OutboxRow
  <1> QED BY <1>1, <1>2, <1>3 DEF RowsMoveOn

\* The record of a send gives up the dispatcher's own row only.
LEMMA RecordingMovesOn ==
    ASSUME FenceInv, NEW d \in Dispatchers, RecordSent(d) \/ RecordRefused(d) PROVE FenceInv'
  <1> DEFINE r == dispatcher[d].mail.row
  <1>1. /\ dispatcher \in [Dispatchers -> Sender] /\ outbox \in [Rows -> OutboxRow]
        /\ dispatcher[d].at # "idle" /\ dispatcher[d].mail \in Envelope
    BY DEF FenceInv, TypeInv, DispatchTypeOK, MailOK, RecordSent, RecordRefused
  <1>2. r \in Rows /\ Sends(d, r)
    BY <1>1 DEF Envelope, Sends
  <1>3. outbox[r].job # 0 /\ outbox[r] \in OutboxRow
    BY <1>1, <1>2 DEF FenceInv, FencesBelow
  <1>4. outbox' \in [Rows -> OutboxRow] /\ RowsMoveOn
    <2>1. CASE outbox' = outbox
      BY <2>1, <1>1, SameRowsMoveOn
    <2>2. CASE outbox' # outbox /\ RecordSent(d)
      <3> DEFINE row == [outbox[r] EXCEPT !.published = TRUE, !.recent = TRUE, !.lease = "none"]
      <3>1. outbox' = [outbox EXCEPT ![r] = row]
        BY <1>1, <1>2, <2>2 DEF RecordSent
      <3>2. row \in OutboxRow /\ row.job = outbox[r].job /\ row.fence = outbox[r].fence
        BY <1>3 DEF OutboxRow
      <3> HIDE DEF row, r
      <3> QED BY <3>1, <3>2, <1>2, <1>3, RowChangeMovesOn
    <2>3. CASE outbox' # outbox /\ RecordRefused(d)
      <3> DEFINE row == [outbox[r] EXCEPT !.lease = "none", !.due = FALSE]
      <3>1. outbox' = [outbox EXCEPT ![r] = row]
        BY <1>1, <1>2, <2>3 DEF RecordRefused
      <3>2. row \in OutboxRow /\ row.job = outbox[r].job /\ row.fence = outbox[r].fence
        BY <1>3 DEF OutboxRow
      <3> HIDE DEF row, r
      <3> QED BY <3>1, <3>2, <1>2, <1>3, RowChangeMovesOn
    <2> QED BY <2>1, <2>2, <2>3
  <1>5. dispatcher' = [dispatcher EXCEPT ![d] = IdleSender] /\ IdleSender \in Sender
    BY DEF RecordSent, RecordRefused, IdleSender, Sender
  <1>6. UNCHANGED <<runtime, jobs, broker, receiver, faults>>
    BY DEF RecordSent, RecordRefused
  <1>7. SendersMoveOn
    BY <1>1, <1>5 DEF SendersMoveOn, IdleSender
  <1>8. TypeInv'
    BY <1>1, <1>4, <1>5, <1>6 DEF FenceInv, TypeInv, DispatchTypeOK, MailOK, IdleSender
  <1> QED BY <1>4, <1>7, <1>8, MovingOnKeepsFenceInv

\* Receivers that touch no row.
LEMMA ReceivingMovesOn ==
    ASSUME FenceInv, NEW w \in Receivers,
           \/ (\E m \in broker : Receive(w, m)) \/ Check(w) \/ Claim(w) \/ Settle(w)
           \/ ReceiverDies(w)
    PROVE  FenceInv'
  <1>1. /\ receiver \in [Receivers -> Reader] /\ broker \in SUBSET Envelope
        /\ receiver[w].at # "idle" => receiver[w].mail \in Envelope
        /\ faults \in 0 .. MaxFaults /\ faults \in Nat /\ jobs \in [Jobs -> JobRow]
    BY DEF FenceInv, TypeInv, DispatchTypeOK, MailOK
  <1>2. /\ receiver' \in [Receivers -> Reader]
        /\ \A v \in Receivers : receiver'[v].at # "idle" => receiver'[v].mail \in Envelope
    <2>1. CASE \E m \in broker : Receive(w, m)
      BY <1>1, <2>1 DEF Receive, Reader, FenceInv, TypeInv, MailOK
    <2>2. CASE Check(w) \/ Claim(w)
      <3>1. PICK at \in {"checked", "handled"} :
               receiver' = [receiver EXCEPT ![w].at = at] /\ receiver[w].at # "idle"
        BY <2>2 DEF Check, Claim
      <3> QED BY <1>1, <3>1 DEF Reader, FenceInv, TypeInv, MailOK
    <2>3. CASE Settle(w) \/ ReceiverDies(w)
      BY <1>1, <2>3 DEF Settle, ReceiverDies, IdleReader, Reader, FenceInv, TypeInv, MailOK
    <2> QED BY <2>1, <2>2, <2>3
  <1>3. jobs' \in [Jobs -> JobRow]
    <2>1. CASE ~Claim(w)
      BY <2>1, <1>1 DEF Receive, Check, Settle, ReceiverDies
    <2>2. CASE Claim(w)
      <3>1. \A j \in Jobs : [jobs[j] EXCEPT !.state = "running"] \in JobRow
        BY <1>1 DEF JobRow
      <3>2. receiver[w].mail \in Envelope
        BY <1>1, <2>2 DEF Claim
      <3> QED BY <1>1, <2>2, <3>1, <3>2 DEF Claim, Envelope
    <2> QED BY <2>1, <2>2
  <1>4. broker' \in SUBSET Envelope
    BY <1>1 DEF Receive, Check, Claim, Settle, ReceiverDies
  <1>5. faults' \in 0 .. MaxFaults
    BY <1>1 DEF Receive, Check, Claim, Settle, ReceiverDies, Fault
  <1>6. UNCHANGED <<runtime, outbox, dispatcher>>
    BY DEF Receive, Check, Claim, Settle, ReceiverDies
  <1>7. TypeInv'
    BY <1>2, <1>3, <1>4, <1>5, <1>6 DEF FenceInv, TypeInv, DispatchTypeOK, MailOK
  <1> QED BY <1>6, <1>7, SameRowsMoveOn, MovingOnKeepsFenceInv DEF SendersMoveOn

\* A quarantined row keeps its fence.
LEMMA PoisonMovesOn ==
    ASSUME FenceInv, NEW w \in Receivers, Poison(w) PROVE FenceInv'
  <1> DEFINE m == receiver[w].mail
             fails == jobs[m.job].state = "waiting"
             js == IF fails THEN Closed(m.job, "ended") ELSE jobs
             row == [outbox[m.row] EXCEPT !.quarantined = TRUE, !.lease = "none"]
             box == [outbox EXCEPT ![m.row].quarantined = TRUE, ![m.row].lease = "none"]
             woken == IF fails THEN NextWaiting(js) ELSE {}
  <1>1. /\ receiver \in [Receivers -> Reader] /\ receiver[w].at # "idle"
        /\ m \in Envelope /\ outbox \in [Rows -> OutboxRow] /\ jobs \in [Jobs -> JobRow]
        /\ faults \in 0 .. MaxFaults /\ faults \in Nat
    BY DEF FenceInv, TypeInv, DispatchTypeOK, MailOK, Poison
  <1>2. m.row \in Rows /\ m.job \in Jobs /\ m.job # 0 /\ Reads(w, m.row)
    BY <1>1 DEF Envelope, Jobs, Reads
  <1>3. outbox[m.row].job = m.job /\ outbox[m.row] \in OutboxRow
    BY <1>1, <1>2 DEF Poison, Known
  <1>4. js \in [Jobs -> JobRow] /\ jobs' = js
    BY <1>1, <1>2, ClosedType DEF Poison, FenceInv
  <1>5. row \in OutboxRow /\ row.job = outbox[m.row].job /\ row.fence = outbox[m.row].fence
    BY <1>3 DEF OutboxRow
  <1>6. box = [outbox EXCEPT ![m.row] = row]
    BY <1>1, <1>2
  <1>7. IF woken = {} THEN outbox' = box
        ELSE HasSpare /\ \E k \in woken : outbox' = [box EXCEPT ![SpareRow] = NewRow(k, TRUE)]
    BY DEF Poison
  <1>8. woken \subseteq Jobs
    BY DEF NextWaiting
  <1>9. receiver' = [receiver EXCEPT ![w].at = "handled"] /\ faults' \in 0 .. MaxFaults
    BY <1>1 DEF Poison, Fault
  <1>10. UNCHANGED <<runtime, dispatcher, broker>>
    BY DEF Poison
  <1> HIDE DEF js, row, box, woken
  <1>11. outbox' \in [Rows -> OutboxRow] /\ RowsMoveOn
    <2>1. CASE woken = {}
      <3>1. outbox' = [outbox EXCEPT ![m.row] = row]
        BY <2>1, <1>6, <1>7
      <3> HIDE DEF m
      <3> QED BY <3>1, <1>2, <1>3, <1>5, RowChangeMovesOn
    <2>2. CASE woken # {}
      <3>1. PICK k \in woken : outbox' = [box EXCEPT ![SpareRow] = NewRow(k, TRUE)]
        BY <2>2, <1>7
      <3>2. HasSpare /\ SpareRow \in Rows /\ NewRow(k, TRUE) \in OutboxRow
        BY <2>2, <1>7, <1>8, NewRowType, SpareRowIsSpare DEF FenceInv
      <3>3. /\ outbox' \in [Rows -> OutboxRow]
            /\ \A q \in Rows \ {SpareRow, m.row} : outbox'[q] = outbox[q]
            /\ m.row # SpareRow => outbox'[m.row] = row
        BY <3>1, <3>2, <1>1, <1>2, <1>5, <1>6
      <3>4. \A d \in Dispatchers : ~Sends(d, SpareRow)
        BY <3>2, SpareIsNotSent
      <3>5. outbox[m.row].fence \in Nat /\ row.job # 0
        BY <1>2, <1>3, <1>5 DEF OutboxRow
      <3> HIDE DEF m
      <3> QED BY <3>3, <3>4, <3>5, <1>5 DEF RowsMoveOn
    <2> QED BY <2>1, <2>2
  <1>12. /\ receiver' \in [Receivers -> Reader]
         /\ \A v \in Receivers : receiver'[v].at # "idle" => receiver'[v].mail \in Envelope
    BY <1>1, <1>9 DEF Reader, FenceInv, TypeInv, MailOK
  <1>13. TypeInv'
    BY <1>4, <1>9, <1>10, <1>11, <1>12 DEF FenceInv, TypeInv, DispatchTypeOK, MailOK
  <1> QED BY <1>10, <1>11, <1>13, MovingOnKeepsFenceInv DEF SendersMoveOn

\* A restore recalls rows and never lowers a fence.
LEMMA RestoreMovesOn ==
    ASSUME FenceInv, BeginRestore PROVE FenceInv'
  <1>1. /\ outbox \in [Rows -> OutboxRow] /\ jobs \in [Jobs -> JobRow]
        /\ runtime.epoch \in 1 .. MaxEpoch /\ MaxEpoch \in Nat
    BY DEF FenceInv, TypeInv, DispatchTypeOK
  <1>2. ASSUME NEW r \in Rows
        PROVE  /\ Recalled(outbox[r]) \in OutboxRow
               /\ Recalled(outbox[r]).job = outbox[r].job
               /\ Recalled(outbox[r]).fence >= outbox[r].fence
    <2> DEFINE fence == outbox[r].fence + 1
    <2>1. fence \in Nat /\ fence >= outbox[r].fence /\ outbox[r] \in OutboxRow
      BY <1>1 DEF OutboxRow
    <2>2. Recalled(outbox[r])
            = [[outbox[r] EXCEPT !.quarantined = TRUE, !.lease = "none"] EXCEPT !.fence = fence]
      BY <2>1 DEF OutboxRow, Recalled
    <2> HIDE DEF fence
    <2> QED BY <2>1, <2>2 DEF OutboxRow
  <1>3. /\ outbox' \in [Rows -> OutboxRow]
        /\ \A r \in Rows : \/ outbox'[r] = outbox[r]
                           \/ outbox[r].job # 0 /\ outbox'[r] = Recalled(outbox[r])
    <2>1. outbox' = [r \in Rows |-> IF outbox[r].job = 0 THEN outbox[r] ELSE Recalled(outbox[r])]
      BY DEF BeginRestore
    <2> QED BY <1>1, <1>2, <2>1
  <1>4. RowsMoveOn
    BY <1>2, <1>3 DEF RowsMoveOn
  <1>5. jobs' \in [Jobs -> JobRow]
    <2>1. \A j \in Jobs : Caught(jobs[j]) \in JobRow
      BY <1>1 DEF JobRow, Caught
    <2> QED BY <2>1 DEF BeginRestore
  <1>6. runtime' \in [epoch : 1 .. MaxEpoch, enabled : BOOLEAN]
    BY <1>1 DEF BeginRestore
  <1>7. TypeInv'
    BY <1>3, <1>5, <1>6 DEF BeginRestore, FenceInv, TypeInv, DispatchTypeOK, MailOK
  <1> QED BY <1>4, <1>7, MovingOnKeepsFenceInv DEF BeginRestore, SendersMoveOn

\* Time ends leases and delays, and gives no fence.
LEMMA ClockMovesOn ==
    ASSUME FenceInv, NEW r \in Rows, RowDue(r) \/ Age(r) \/ Lapse(r) PROVE FenceInv'
  <1>1. /\ outbox \in [Rows -> OutboxRow] /\ outbox[r] \in OutboxRow
        /\ faults \in 0 .. MaxFaults /\ faults \in Nat
    BY DEF FenceInv, TypeInv, DispatchTypeOK
  <1>2. PICK row \in {[outbox[r] EXCEPT !.due = TRUE], [outbox[r] EXCEPT !.recent = FALSE],
                      [outbox[r] EXCEPT !.lease = "lapsed"]} : outbox' = [outbox EXCEPT ![r] = row]
    BY <1>1 DEF RowDue, Age, Lapse
  <1>3. row \in OutboxRow /\ row.job = outbox[r].job /\ row.fence = outbox[r].fence
    BY <1>1, <1>2 DEF OutboxRow
  <1>4. outbox' \in [Rows -> OutboxRow] /\ outbox'[r] = row
        /\ \A q \in Rows \ {r} : outbox'[q] = outbox[q]
    BY <1>1, <1>2, <1>3
  <1>5. RowsMoveOn
    <2>1. CASE outbox[r].job # 0
      BY <2>1, <1>1, <1>3, <1>4 DEF RowsMoveOn, OutboxRow
    <2>2. CASE outbox[r].job = 0
      BY <2>2, <1>4 DEF RowsMoveOn, FenceInv, FencesBelow
    <2> QED BY <2>1, <2>2
  <1>6. faults' \in 0 .. MaxFaults /\ UNCHANGED <<runtime, jobs, dispatcher, broker, receiver>>
    BY <1>1 DEF RowDue, Age, Lapse, Fault
  <1>7. TypeInv'
    BY <1>4, <1>6 DEF FenceInv, TypeInv, DispatchTypeOK, MailOK
  <1> QED BY <1>5, <1>6, <1>7, MovingOnKeepsFenceInv DEF SendersMoveOn

\* The steps that change neither rows nor processes.
LEMMA OtherStepsMoveOn ==
    ASSUME FenceInv,
           \/ \E j \in Jobs : JobDue(j)
           \/ \E m \in broker : Lose(m)
           \/ Resume
           \/ UNCHANGED dispatchVars
    PROVE  FenceInv'
  <1>1. UNCHANGED <<outbox, dispatcher, receiver>>
    BY DEF JobDue, Lose, Resume, dispatchVars
  <1>2. /\ jobs \in [Jobs -> JobRow] /\ broker \in SUBSET Envelope
        /\ faults \in 0 .. MaxFaults /\ faults \in Nat
        /\ runtime \in [epoch : 1 .. MaxEpoch, enabled : BOOLEAN]
    BY DEF FenceInv, TypeInv, DispatchTypeOK
  <1>3. jobs' \in [Jobs -> JobRow]
    <2>1. \A j \in Jobs : [jobs[j] EXCEPT !.due = TRUE] \in JobRow
      BY <1>2 DEF JobRow
    <2> QED BY <1>2, <2>1 DEF JobDue, Lose, Resume, dispatchVars
  <1>4. broker' \in SUBSET Envelope /\ faults' \in 0 .. MaxFaults
    BY <1>2 DEF JobDue, Lose, Resume, dispatchVars, Fault
  <1>5. runtime' \in [epoch : 1 .. MaxEpoch, enabled : BOOLEAN]
    BY <1>2 DEF JobDue, Lose, Resume, dispatchVars
  <1>6. TypeInv'
    BY <1>1, <1>3, <1>4, <1>5 DEF FenceInv, TypeInv, DispatchTypeOK, MailOK
  <1> QED BY <1>1, <1>6, SameRowsMoveOn, MovingOnKeepsFenceInv DEF SendersMoveOn

-----------------------------------------------------------------------------

\* The invariant holds of empty tables.
LEMMA InitFenceInv == DispatchInit => FenceInv
  <1> SUFFICES ASSUME DispatchInit PROVE FenceInv
    OBVIOUS
  <1>1. NoRow \in OutboxRow /\ IdleSender \in Sender /\ IdleReader \in Reader
    BY DEF NoRow, OutboxRow, IdleSender, Sender, IdleReader, Reader
  <1>2. [epoch |-> 1, enabled |-> TRUE] \in [epoch : 1 .. MaxEpoch, enabled : BOOLEAN]
    OBVIOUS
  <1>3. [state |-> "none", epoch |-> 0, due |-> TRUE] \in JobRow
    BY DEF JobRow
  <1>4. DispatchTypeOK
    BY <1>1, <1>2, <1>3 DEF DispatchInit, DispatchTypeOK
  <1> QED BY <1>4 DEF DispatchInit, FenceInv, TypeInv, MailOK, FencesBelow, FencesDiffer,
                      Sends, IdleSender, IdleReader

\* Every step keeps it.
LEMMA NextFenceInv == FenceInv /\ [DispatchNext]_dispatchVars => FenceInv'
  <1> SUFFICES ASSUME FenceInv, [DispatchNext]_dispatchVars PROVE FenceInv'
    OBVIOUS
  <1>1. ASSUME NEW j \in Jobs, Accept(j) \/ Retry(j) \/ Redispatch(j) PROVE FenceInv'
    BY <1>1, AcceptMovesOn, RetryMovesOn, RedispatchMovesOn
  <1>2. ASSUME NEW j \in Jobs, NEW target \in {"ended", "review"}, End(j, target) \/ Reconcile(j)
        PROVE  FenceInv'
    BY <1>2, ClosingMovesOn DEF End, Reconcile
  <1>3. ASSUME NEW d \in Dispatchers, Dispatching(d) \/ DispatcherDies(d) PROVE FenceInv'
    BY <1>3, LeaseKeepsFenceInv, SendingMovesOn, RecordingMovesOn DEF Dispatching
  <1>4. ASSUME NEW d \in Dispatchers, NEW taken \in BOOLEAN, SendFails(d, taken) PROVE FenceInv'
    BY <1>4, SendingMovesOn
  <1>5. ASSUME NEW w \in Receivers, Receiving(w) \/ Poison(w) \/ ReceiverDies(w) PROVE FenceInv'
    BY <1>5, ReceivingMovesOn, PoisonMovesOn DEF Receiving
  <1>6. ASSUME NEW r \in Rows, RowDue(r) \/ Age(r) \/ Lapse(r) PROVE FenceInv'
    BY <1>6, ClockMovesOn
  <1> QED BY <1>1, <1>2, <1>3, <1>4, <1>5, <1>6, RestoreMovesOn, OtherStepsMoveOn
          DEF DispatchNext, Redispatching

\* The outbox, dispatchers and receivers keep their types, and fences order the
\* dispatchers of a row, in every reachable state.
THEOREM FencesInOrder == DispatchSpec => []FenceInv
  BY InitFenceInv, NextFenceInv, PTL DEF DispatchSpec

\* Outbox, jobs, broker, dispatchers and receivers keep their types.
THEOREM DispatchTypes == DispatchSpec => []DispatchTypeOK
  <1>1. FenceInv => DispatchTypeOK
    BY DEF FenceInv, TypeInv
  <1> QED BY <1>1, FencesInOrder, PTL

\* Dispatcher.once: two dispatchers never both may write the outcome of a row.
THEOREM RowsAreFenced == DispatchSpec => []OneDispatcherOwns
  <1>1. FenceInv => OneDispatcherOwns
    BY DEF FenceInv, FencesDiffer, OneDispatcherOwns, Owns, Sends
  <1> QED BY <1>1, FencesInOrder, PTL
=============================================================================
