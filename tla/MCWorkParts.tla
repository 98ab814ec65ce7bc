----------------------------- MODULE MCWorkParts -----------------------------
(* Two parts of the durable work that meet in a job's row, one at a time:    *)
(* the clock of a job, with a short delay, then a longer one, and the wake-ups*)
(* of jobs.                                                                  *)
EXTENDS LeaseFlags, Dispatch

MCRetrySeconds == <<1, 2>>

CONSTANT Parts
ASSUME PartsAreKnown == Parts \subseteq {"clock", "dispatch"}

VARIABLE part
partVars == <<clockVars, dispatchVars, part>>

ClockMoves == part = "clock" /\ ClockNext /\ UNCHANGED <<dispatchVars, part>>
DispatchMoves == part = "dispatch" /\ DispatchNext /\ UNCHANGED <<clockVars, part>>

PartsInit == part \in Parts /\ ClockInit /\ DispatchInit
PartsNext == ClockMoves \/ DispatchMoves
PartsSpec == PartsInit /\ [][PartsNext]_partVars

\* The fairness of FairClockSpec and FairDispatchSpec, each for its part.
FairPartsSpec ==
    /\ PartsSpec
    /\ WF_clockVars(part = "clock" /\ Tick) /\ WF_clockVars(part = "clock" /\ Sweep)
    /\ \A d \in Dispatchers : WF_dispatchVars(part = "dispatch" /\ Dispatching(d))
    /\ \A w \in Receivers : WF_dispatchVars(part = "dispatch" /\ Receiving(w))
    /\ WF_dispatchVars(part = "dispatch" /\ Redispatching)
    /\ \A r \in Rows :
          WF_dispatchVars(part = "dispatch" /\ (RowDue(r) \/ Age(r) \/ Lapse(r)))
=============================================================================
