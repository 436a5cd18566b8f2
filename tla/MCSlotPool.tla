----------------------------- MODULE MCSlotPool -----------------------------
(***************************************************************************)
(* The two schedulers of lib/audit_runner.py.  A backend runs one of them: *)
(* each behaviour starts the continuous one (SlotPool) or one iteration of *)
(* the cohort one (CohortPool), and the other rests in its final state.    *)
(***************************************************************************)
EXTENDS SlotPool

VARIABLES stage, policy, refill, kind, out, cfin, cretried, covertime, stop, epoch, extra, again

Cohort == INSTANCE CohortPool WITH fin <- cfin, retried <- cretried, overtime <- covertime

cohortVars == <<stage, policy, refill, kind, out, cfin, cretried, covertime, stop, epoch, extra, again>>

ContinuousInit == Init /\ stage = "barrier" /\ Cohort!Fresh /\ policy = "cohort-era" /\ refill

\* SlotPool's variables as Init has them, its driver at its end.
CohortInit ==
    /\ Cohort!Init
    /\ pc = "end"
    /\ sess = [a \in Slots |-> "none"]
    /\ fin = {} /\ idle = {} /\ retried = {} /\ ended = {}
    /\ clean = [a \in Slots |-> 0] /\ ran = [a \in Slots |-> 0]
    /\ halted = FALSE /\ stalled = FALSE /\ issues = {}
    /\ due = FALSE /\ wall = "open"
    /\ iter = 0 /\ dry = 0 /\ streak = 0 /\ paused = 0 /\ status = "ok"
    /\ had = {} /\ starved = {} /\ refused = FALSE

MCSpec ==
    /\ ContinuousInit \/ CohortInit
    /\ [][(Next /\ UNCHANGED cohortVars) \/ (Cohort!Next /\ UNCHANGED vars)]_<<vars, cohortVars>>
    /\ Fairness /\ Cohort!Fairness

\* The cohort scheduler's properties; CohortPool states them.
AllowancesKept == Cohort!AllowancesKept
OvertimeEndsWithCohort == Cohort!OvertimeEndsWithCohort

\* Either scheduler ends: once the productive wall is over the audit ends
\* whatever sessions report, and the cohort's pool reaches its barrier even
\* though slots always have work and its epoch never closes, because the
\* cohort drains and overtime is spent.
SchedulerEnds ==
    (wall = "over" \/ stage = "launch") ~> (pc \in {"end", "unavailable"} /\ stage = "barrier")

\* Relaunches stay within their allowances, nothing starts after a halt, a
\* refusal is not retried, no slot with work is forgotten, and overtime ends
\* with its cohort.
RelaunchesKept ==
    /\ [](IterationCeiling /\ CleanSessionsBounded /\ IdleReconsidered /\ AllowancesKept)
    /\ NoLaunchAfterHalt /\ RefusedForGood /\ OvertimeEndsWithCohort

\* Either scheduler ends, and a halt is answered to its caller.
BothEnd == SchedulerEnds /\ HaltReturns
=============================================================================
