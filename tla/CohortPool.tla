----------------------------- MODULE CohortPool -----------------------------
(***************************************************************************)
(* lib/audit_runner.py: run_agent_pool, the pool of one iteration of the   *)
(* cohort scheduler, and _refill_finished_slots, which decides for every   *)
(* slot that finished whether it launches again.                           *)
(*                                                                         *)
(* A session is initial (the cohort), a refill launched beside an initial  *)
(* one, or an overtime session launched after the last initial one ended.  *)
(* The futures the refill looks at are a snapshot: what it launches does   *)
(* not count for the other slots of the same batch.                        *)
(***************************************************************************)
EXTENDS Integers, FiniteSets

CONSTANTS Slots, Primary

VARIABLES
    stage,    \* "launch", "pool" or "barrier"
    policy,   \* POOL_OVERTIME
    refill,   \* runtime.refill_workers
    kind,     \* per slot: the kind of its session, or "none"
    out,      \* per slot: how its session ended, or "run"
    fin,      \* the slots the last wait returned
    retried, overtime, stop, epoch,
    extra,    \* history: sessions a slot started after the cohort drained
    again     \* history: retries a slot had after a failure

vars == <<stage, policy, refill, kind, out, fin, retried, overtime, stop, epoch, extra, again>>

\* "spent": the time ran out, a fault of the harness, or a clean session
\* whose transcript shows no tool call.  "halt": the provider's trouble.
Outcomes == {"clean", "continue", "failed", "spent", "halt"}
Futures == {a \in Slots : kind[a] # "none"}
Era == {a \in Slots : kind[a] \in {"initial", "refill"}}

\* The type of every variable.
TypeOK ==
    /\ stage \in {"launch", "pool", "barrier"} /\ policy \in {"cohort-era", "any-peer"}
    /\ fin \subseteq Futures /\ refill \in BOOLEAN /\ stop \in BOOLEAN /\ epoch \in {"open", "closed"}
    /\ kind \in [Slots -> {"none", "initial", "refill", "overtime"}]
    /\ out \in [Slots -> {"run"} \cup Outcomes]
    /\ \A a \in Slots : out[a] # "run" => kind[a] # "none"
    /\ overtime = {a \in Slots : extra[a] > 0} /\ retried = {a \in Slots : again[a] > 0}
    /\ extra \in [Slots -> 0..2] /\ again \in [Slots -> 0..2]

Fresh ==
    /\ policy \in {"cohort-era", "any-peer"} /\ refill \in BOOLEAN
    /\ kind = [a \in Slots |-> "none"] /\ out = [a \in Slots |-> "run"]
    /\ fin = {} /\ retried = {} /\ overtime = {} /\ stop = FALSE /\ epoch = "open"
    /\ extra = [a \in Slots |-> 0] /\ again = [a \in Slots |-> 0]

Init == stage = "launch" /\ Fresh

-----------------------------------------------------------------------------

\* run_iteration: the slots that have work launch, the primary always.
Launch(work) ==
    /\ stage = "launch" /\ stage' = "pool"
    /\ kind' = [a \in Slots |-> IF a \in work \cup {Primary} THEN "initial" ELSE "none"]
    /\ UNCHANGED <<policy, refill, out, fin, retried, overtime, stop, epoch, extra, again>>

\* A session ends.
End(a, o) ==
    /\ kind[a] # "none" /\ out[a] = "run"
    /\ out' = [out EXCEPT ![a] = o]
    /\ UNCHANGED <<stage, policy, refill, kind, fin, retried, overtime, stop, epoch, extra, again>>

EpochCloses ==
    /\ stage = "pool" /\ epoch = "open" /\ epoch' = "closed"
    /\ UNCHANGED <<stage, policy, refill, kind, out, fin, retried, overtime, stop, extra, again>>

\* A slot may go on while the cohort runs; after that once, and under the
\* cohort-era policy only beside a session of the cohort's time.
May(a, peers) ==
    \/ \E b \in peers : kind[b] = "initial"
    \/ a \notin overtime /\ (policy = "any-peer" \/ peers \cap Era # {})

\* _refill_outcome: a clean session's replacement needs work (and a session
\* that did some), a failed one gets one retry.
Wants(a, work) ==
    CASE out[a] = "continue" -> TRUE
      [] out[a] = "clean" -> a \in work
      [] out[a] = "failed" -> a \notin retried
      [] OTHER -> FALSE

\* wait returns every session that ended; the first provider issue among
\* them stops further launches.
Collect ==
    /\ stage = "pool" /\ fin = {}
    /\ fin' = {a \in Futures : out[a] # "run"} /\ fin' # {}
    /\ stop' = (stop \/ \E a \in fin' : out[a] = "halt")
    /\ UNCHANGED <<stage, policy, refill, kind, out, retried, overtime, epoch, extra, again>>

Refills(peers) == peers # {} /\ ~stop /\ refill

\* Each of those slots is refilled or left idle.
Refill(work) ==
    LET peers == Futures \ fin
        cohort == \E b \in peers : kind[b] = "initial"
        new == {a \in fin : Refills(peers) /\ epoch = "open" /\ May(a, peers) /\ Wants(a, work)}
        fails == {a \in new : out[a] = "failed"}
        late == IF cohort THEN {} ELSE new
    IN /\ fin # {} /\ fin' = {}
       /\ kind' = [a \in Slots |-> IF a \in new THEN (IF cohort THEN "refill" ELSE "overtime")
                                   ELSE IF a \in fin THEN "none" ELSE kind[a]]
       /\ out' = [a \in Slots |-> IF a \in fin THEN "run" ELSE out[a]]
       /\ retried' = retried \cup fails /\ overtime' = overtime \cup late
       /\ extra' = [a \in Slots |-> IF a \in late /\ extra[a] < 2 THEN extra[a] + 1 ELSE extra[a]]
       /\ again' = [a \in Slots |-> IF a \in fails /\ again[a] < 2 THEN again[a] + 1 ELSE again[a]]
       /\ UNCHANGED <<stage, policy, refill, stop, epoch>>

\* No session left: the gate's worker is joined and the barrier's triage runs.
Barrier ==
    /\ stage = "pool" /\ Futures = {} /\ stage' = "barrier"
    /\ UNCHANGED <<policy, refill, kind, out, fin, retried, overtime, stop, epoch, extra, again>>

Run ==
    \/ \E work \in SUBSET Slots : Launch(work) \/ Refill(work)
    \/ Collect \/ Barrier

Next == Run \/ EpochCloses \/ \E a \in Slots, o \in Outcomes : End(a, o)

\* The scheduler's thread runs and every session ends; nothing is assumed of
\* the epoch.
Fairness == WF_vars(Run) /\ \A a \in Slots : WF_vars(\E o \in Outcomes : End(a, o))

Spec == Init /\ [][Next]_vars /\ Fairness

-----------------------------------------------------------------------------
(* Properties *)

\* A slot starts at most one session after the cohort drained, and is retried
\* at most once after a failure, however batches and outcomes fall.
AllowancesKept == \A a \in Slots : extra[a] <= 1 /\ again[a] <= 1

\* Under the cohort-era policy overtime never justifies overtime: once the
\* last session of the cohort's time is gone, the iteration starts no other.
OvertimeEndsWithCohort ==
    [][policy = "cohort-era" /\ Era \subseteq fin =>
         \A a \in fin \ fin' : kind'[a] = "none"]_vars
=============================================================================
