------------------------------ MODULE SlotPool ------------------------------
(***************************************************************************)
(* lib/audit_runner.py: run_continuous, the continuous scheduler, inside   *)
(* _drive_backend, the loop that calls it again, pauses for the provider,  *)
(* or gives the backend up.                                                *)
(*                                                                         *)
(* Sessions run in a thread pool and end with some outcome at any time;    *)
(* the steward's interval and the productive wall run out at any time.     *)
(* What sessions and the queue decide (which slots have a work source,     *)
(* whether a generation was productive) is chosen freely wherever the code *)
(* asks for it.  The result gate that runs beside the pool is SealedGate's.*)
(***************************************************************************)
EXTENDS Integers, FiniteSets

CONSTANTS
    Slots, Primary,   \* Primary: agent 1
    MaxIter,          \* --max-iterations, 0 for no limit
    CleanCap,         \* clean_relaunch_cap
    MaxDry,           \* _max_dry_sessions()
    TransientMax,     \* TRANSIENT_RETRY_MAX
    PauseMax          \* PROVIDER_PAUSE_MAX_SECONDS

ASSUME PoolAssumption ==
    /\ Primary \in Slots
    /\ MaxIter \in Nat /\ CleanCap \in Nat
    /\ MaxDry \in Nat \ {0} /\ TransientMax \in Nat /\ PauseMax \in Nat

Halts == {"rejected", "capacity", "transient"}
\* "spent": its slot goes idle whatever else holds; the time ran out, a fault
\* of the harness, or a clean session whose transcript shows no tool call.
Outcomes == {"clean", "continue", "failed", "spent"} \cup Halts
Statuses == {"ok", "stalled", "budget"} \cup Halts

VARIABLES
    pc,
    sess,        \* per slot: no session, running, or ended with an outcome
    fin,         \* slots this round of the loop collected
    idle,        \* idle_slots
    retried, clean, ended,
    halted, stalled,
    issues,      \* provider issues among the results so far
    due,         \* the steward's interval has elapsed
    wall,        \* the productive wall: open, in its last second, over
    iter, dry, streak, paused,   \* BackendState
    status,      \* what run_continuous returned
    \* history
    ran,         \* clean sessions of a slot since the last tick
    had,         \* slots that had a session in this call
    starved,     \* of those, idle ones with work that a tick passed over
    refused      \* some session was refused by the provider

local == <<fin, idle, retried, clean, ended, halted, stalled, issues>>
backend == <<iter, dry, streak, paused, status>>
clocks == <<due, wall>>
history == <<ran, had, starved, refused>>
vars == <<pc, sess, local, backend, clocks, history>>

Running == {a \in Slots : sess[a] = "run"}
Ended == {a \in Slots : sess[a] \in Outcomes}
Futures == {a \in Slots : sess[a] # "none"} \ fin

\* The type of every variable.  A slot the pool calls idle has no session.
TypeOK ==
    /\ pc \in {"drive", "loop", "steer", "refill", "recover", "end", "unavailable"}
    /\ sess \in [Slots -> {"none", "run"} \cup Outcomes]
    /\ fin \subseteq Slots /\ idle \subseteq Slots /\ retried \subseteq Slots /\ ended \subseteq Slots
    /\ clean \in [Slots -> 0..CleanCap] /\ ran \in [Slots -> Nat]
    /\ halted \in BOOLEAN /\ stalled \in BOOLEAN /\ issues \subseteq Halts
    /\ due \in BOOLEAN /\ wall \in {"open", "last", "over"}
    /\ iter \in Nat /\ dry \in 0..MaxDry /\ streak \in 0..TransientMax
    /\ paused \in 0..(PauseMax + 1) /\ status \in Statuses
    /\ had \subseteq Slots /\ starved \subseteq Slots /\ refused \in BOOLEAN
    /\ \A a \in idle : sess[a] = "none"

Init ==
    /\ pc = "drive"
    /\ sess = [a \in Slots |-> "none"]
    /\ fin = {} /\ idle = {} /\ retried = {} /\ ended = {}
    /\ clean = [a \in Slots |-> 0] /\ ran = [a \in Slots |-> 0]
    /\ halted = FALSE /\ stalled = FALSE /\ issues = {}
    /\ due = FALSE /\ wall = "open"
    /\ iter = 0 /\ dry = 0 /\ streak = 0 /\ paused = 0 /\ status = "ok"
    /\ had = {} /\ starved = {} /\ refused = FALSE

-----------------------------------------------------------------------------
(* Decisions of the pool *)

Lesser(m, n) == IF m < n THEN m ELSE n

\* The number of the next generation; without a limit it is not counted.
NextIter == IF MaxIter = 0 THEN iter ELSE iter + 1

\* ceiling_reached.
CeilingReached == MaxIter # 0 /\ iter >= MaxIter

\* Bug: the wall is not looked at.
MayLaunchPastWall == ~halted /\ ~stalled

\* What wants_launch asks of every slot first.
MayLaunch == ~halted /\ ~stalled /\ wall = "open"

\* Bug: the cap is compared after the launch is counted.
RefillsUncapped(a, work) ==
    CASE sess[a] = "failed" -> a \notin retried
      [] sess[a] = "continue" -> TRUE
      [] sess[a] = "clean" -> a \in work
      [] OTHER -> FALSE

\* wants_launch for a slot whose session just ended.
Refills(a, work) ==
    CASE sess[a] = "failed" -> a \notin retried
      [] sess[a] = "continue" -> TRUE
      [] sess[a] = "clean" -> a \in work /\ clean[a] < CleanCap
      [] OTHER -> FALSE

\* _assess_generation on a healthy provider: the dry streak, the stall stop.
Score(productive) ==
    /\ dry' = IF productive THEN 0 ELSE Lesser(dry + 1, MaxDry)
    /\ streak' = 0

Stalls(active) == dry' >= MaxDry /\ ~active

-----------------------------------------------------------------------------
(* run_continuous *)

\* Slots with work launch, the primary always.
Begin(work) ==
    /\ pc = "drive" /\ (MaxIter = 0 \/ iter < MaxIter) /\ wall # "over"
    /\ iter' = NextIter
    /\ sess' = [a \in Slots |->
                  IF wall = "open" /\ a \in work \cup {Primary} THEN "run" ELSE "none"]
    /\ had' = {a \in Slots : sess'[a] = "run"} /\ due' = FALSE
    /\ pc' = "loop" /\ status' = "ok"
    /\ UNCHANGED <<local, wall, dry, streak, paused, ran, starved, refused>>

\* A session's process ends, or its time limit ends it.
SessionEnd(a, outcome) ==
    /\ sess[a] = "run"
    /\ sess' = [sess EXCEPT ![a] = outcome]
    /\ refused' = (refused \/ outcome = "rejected")
    /\ UNCHANGED <<pc, local, backend, clocks, ran, had, starved>>

\* wait returns every session that ended, or times out with none.  The first
\* provider issue among them stops further launches.
Collect ==
    /\ pc = "loop" /\ Futures # {} /\ (Ended # {} \/ due)
    /\ fin' = Ended
    /\ ended' = ended \cup Ended
    /\ ran' = [a \in Slots |-> IF sess[a] = "clean" THEN ran[a] + 1 ELSE ran[a]]
    /\ LET seen == {sess[a] : a \in Ended} \cap Halts
       IN  /\ issues' = issues \cup seen
           /\ halted' = (halted \/ seen # {})
    /\ pc' = "steer"
    /\ UNCHANGED <<sess, idle, retried, clean, stalled, backend, clocks, had, starved, refused>>

\* No steward tick this round.
NoTick ==
    /\ pc = "steer" /\ (~due \/ halted \/ CeilingReached)
    /\ pc' = "refill"
    /\ UNCHANGED <<sess, local, backend, clocks, history>>

Ticking == pc = "steer" /\ due /\ ~halted /\ ~CeilingReached

\* _steward_steer: a generation in which a session ended is scored ...
TickStalls(active) ==
    /\ Ticking /\ ended # {}
    /\ Score(FALSE) /\ Stalls(active)
    /\ stalled' = TRUE
    /\ ended' = {} /\ clean' = [a \in Slots |-> 0] /\ ran' = [a \in Slots |-> 0]
    /\ due' = FALSE
    /\ pc' = "refill"
    /\ UNCHANGED <<sess, fin, idle, retried, halted, issues, wall, iter, paused, status,
                   had, starved, refused>>

\* ... the next one opened, and slots that had gone idle are asked again.
Tick(productive, active, work) ==
    /\ Ticking
    /\ IF ended # {}
         THEN Score(productive) /\ ~Stalls(active) /\ iter' = NextIter
         ELSE UNCHANGED <<dry, streak, iter>>
    /\ LET ceiling == MaxIter # 0 /\ iter' >= MaxIter
           woken == {a \in idle : MayLaunch /\ ~ceiling /\ a \in work}
       IN  /\ sess' = [a \in Slots |-> IF a \in woken THEN "run" ELSE sess[a]]
           /\ idle' = idle \ woken
           /\ starved' = {a \in work \cap had : MayLaunch /\ ~ceiling /\ sess'[a] = "none"}
    /\ ended' = {} /\ clean' = [a \in Slots |-> 0] /\ ran' = [a \in Slots |-> 0]
    /\ due' = FALSE
    /\ pc' = "refill"
    /\ UNCHANGED <<fin, retried, halted, stalled, issues, wall, paused, status, had, refused>>

\* Each slot that finished relaunches or goes idle.
Refill(work) ==
    /\ pc = "refill"
    /\ LET again == {a \in fin : MayLaunch /\ ~CeilingReached /\ Refills(a, work)}
       IN  /\ sess' = [a \in Slots |-> IF a \in again THEN "run"
                                       ELSE IF a \in fin THEN "none" ELSE sess[a]]
           /\ idle' = idle \cup (fin \ again)
           /\ retried' = retried \cup {a \in again : sess[a] = "failed"}
           /\ clean' = [a \in Slots |-> IF a \in again /\ sess[a] = "clean"
                                          THEN Lesser(clean[a] + 1, CleanCap) ELSE clean[a]]
    /\ fin' = {}
    /\ pc' = "loop"
    /\ UNCHANGED <<ended, halted, stalled, issues, backend, clocks, history>>

Worst(S) ==
    IF "rejected" \in S THEN "rejected" ELSE IF "capacity" \in S THEN "capacity" ELSE "transient"

\* The pool has drained: the barrier, then the last generation is scored,
\* unless a tick stalled the run or the provider interrupted it.  The call's
\* own sets and counters end with it.
Return(productive, active, exhausted) ==
    /\ pc = "loop" /\ Futures = {}
    /\ CASE stalled -> status' = "stalled" /\ UNCHANGED <<dry, streak>>
         [] ~stalled /\ issues # {} ->
              /\ status' = Worst(issues)
              /\ dry' = IF productive THEN 0 ELSE dry
              /\ UNCHANGED streak
         [] OTHER ->
              /\ Score(productive)
              /\ status' = IF (~productive /\ Stalls(active)) \/ (~active /\ exhausted)
                             THEN "stalled" ELSE IF wall = "over" THEN "budget" ELSE "ok"
    /\ idle' = {} /\ retried' = {} /\ ended' = {} /\ issues' = {} /\ had' = {} /\ starved' = {}
    /\ clean' = [a \in Slots |-> 0] /\ ran' = [a \in Slots |-> 0]
    /\ halted' = FALSE /\ stalled' = FALSE
    /\ pc' = "recover"
    /\ UNCHANGED <<sess, fin, clocks, iter, paused, refused>>

-----------------------------------------------------------------------------
(* _drive_backend *)

\* The iterations are used up, or the wall is over.
Exhaust ==
    /\ pc = "drive" /\ ((MaxIter # 0 /\ iter >= MaxIter) \/ wall = "over")
    /\ pc' = "end"
    /\ UNCHANGED <<sess, local, backend, clocks, history>>

Stop ==
    /\ pc = "recover" /\ (status \in {"budget", "stalled"} \/ wall = "over")
    /\ pc' = "end"
    /\ UNCHANGED <<sess, local, backend, clocks, history>>

Resume ==
    /\ pc = "recover" /\ status = "ok" /\ wall # "over"
    /\ pc' = "drive"
    /\ UNCHANGED <<sess, local, backend, clocks, history>>

\* No recovery from a refusal, on the last iteration, past the pause budget,
\* or after too many transient failures in a row.
GiveUp ==
    /\ pc = "recover" /\ status \in Halts /\ wall # "over"
    /\ \/ status = "rejected" \/ (MaxIter # 0 /\ iter >= MaxIter)
       \/ status = "capacity" /\ paused >= PauseMax
       \/ status = "transient" /\ streak >= TransientMax
    /\ pc' = "unavailable"
    /\ UNCHANGED <<sess, local, backend, clocks, history>>

\* _recover_capacity: a pause to the reset time the provider named, which may
\* already be past, or one retry interval; never beyond what is left.
PauseCapacity(wait) ==
    /\ pc = "recover" /\ status = "capacity" /\ wall # "over"
    /\ (MaxIter = 0 \/ iter < MaxIter) /\ paused < PauseMax
    /\ wait <= PauseMax - paused
    /\ paused' = paused + wait /\ streak' = 0
    /\ pc' = "drive"
    /\ UNCHANGED <<sess, local, iter, dry, status, clocks, history>>

\* _recover_transient: the paused total saturates past PauseMax.
PauseTransient ==
    /\ pc = "recover" /\ status = "transient" /\ wall # "over"
    /\ (MaxIter = 0 \/ iter < MaxIter) /\ streak < TransientMax
    /\ streak' = streak + 1 /\ paused' = Lesser(paused + 1, PauseMax + 1)
    /\ pc' = "drive"
    /\ UNCHANGED <<sess, local, iter, dry, status, clocks, history>>

-----------------------------------------------------------------------------
(* Time *)

IntervalElapses ==
    /\ pc = "loop" /\ ~due
    /\ due' = TRUE
    /\ UNCHANGED <<pc, sess, local, backend, wall, history>>

WallNears ==
    /\ pc \in {"drive", "loop", "steer", "refill", "recover"} /\ wall # "over"
    /\ wall' = IF wall = "open" THEN "last" ELSE "over"
    /\ UNCHANGED <<pc, sess, local, backend, due, history>>

Pool ==
    \/ \E work \in SUBSET Slots :
          \/ Begin(work) \/ Refill(work)
          \/ \E productive, active \in BOOLEAN : Tick(productive, active, work)
    \/ Collect \/ NoTick
    \/ \E active \in BOOLEAN : TickStalls(active)
    \/ \E productive, active, exhausted \in BOOLEAN : Return(productive, active, exhausted)

Drive ==
    \/ Exhaust \/ Stop \/ Resume \/ GiveUp \/ PauseTransient
    \/ \E wait \in 0..PauseMax : PauseCapacity(wait)

Next ==
    \/ Pool \/ Drive \/ IntervalElapses \/ WallNears
    \/ \E a \in Slots, outcome \in Outcomes : SessionEnd(a, outcome)

\* The scheduler's thread runs; sessions end, at the latest by their limit.
Fairness ==
    /\ WF_vars(Pool) /\ WF_vars(Drive)
    /\ \A a \in Slots : WF_vars(\E outcome \in Outcomes : SessionEnd(a, outcome))

Spec == Init /\ [][Next]_vars /\ Fairness

-----------------------------------------------------------------------------
(* Properties *)

\* --max-iterations caps generations, whether a call or a tick opens them.
IterationCeiling == MaxIter # 0 => iter <= MaxIter

\* A slot fed by a work source that never dries takes at most CleanCap clean
\* relaunches between two ticks, whatever other outcomes come between.
CleanSessionsBounded == \A a \in Slots : ran[a] <= CleanCap + 1

\* After a provider issue the pool only drains: neither a refill nor a tick
\* nor an idle slot's turn starts a session.
NoLaunchAfterHalt ==
    [][halted => Running' \subseteq Running]_vars

\* A refusal is never retried: once any session was refused, also beside
\* others that were rate-limited, the backend starts no further call.
RefusedForGood == [][refused => ~(pc = "drive" /\ pc' = "loop")]_vars

\* A tick leaves no slot idle that has work, whatever its sessions reported:
\* neither a spent retry nor a reached cap parks it for longer.  (A slot that
\* had no session in this call is not on the idle list and is not asked.)
IdleReconsidered == starved = {}

\* A provider issue brings the pool to its barrier and the driver's decision.
HaltReturns == halted ~> pc \in {"recover", "end", "unavailable"}
=============================================================================
