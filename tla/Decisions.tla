----------------------------- MODULE Decisions -----------------------------
(***************************************************************************)
(* One-shot model decisions (lib/llm_decide.py) under the three            *)
(* environments that call them: the audit, with a budget per iteration and *)
(* a failure cache shared by every process of the session; the sweep, with *)
(* the cache and no cap; and the benchmark's drain (_drain_gate of         *)
(* lib/benchmark_runner.py), with neither, whose workers share a file of   *)
(* provider limits and whose passes repeat until nothing is pending.       *)
(*                                                                         *)
(* Callers are processes or threads; each locked section is one step.      *)
(* Time is ages: what matters is whether the cooldown has passed.          *)
(***************************************************************************)
EXTENDS Integers, FiniteSets

CONSTANTS
    Callers, Prompts, None,
    AuditAsks, SweepAsks, DrainAsks,  \* bounds: the prompts asked in each environment
    Cap,          \* LLM_DECIDE_MAX_CALLS, one digit: the reset overwrites one
    PromptMax,    \* LLM_DECIDE_FAIL_THRESHOLD
    TypeMax,      \* LLM_DECIDE_TYPE_FAIL_THRESHOLD
    Cooldown,     \* LLM_DECIDE_FAIL_COOLDOWN in ticks
    MaxPauses     \* FIND_GATE_MAX_PAUSES

ASSUME DecisionsAssumption ==
    /\ IsFiniteSet(Callers) /\ Callers # {} /\ IsFiniteSet(Prompts)
    /\ None \notin Callers \cup Prompts
    /\ {AuditAsks, SweepAsks, DrainAsks} \subseteq SUBSET Prompts
    /\ Cap \in 1..9 /\ PromptMax \in Nat \ {0} /\ TypeMax \in Nat \ {0}
    /\ Cooldown \in Nat \ {0} /\ MaxPauses \in Nat

Asked == [audit |-> AuditAsks, sweep |-> SweepAsks, drain |-> DrainAsks]

VARIABLES
    env,       \* "audit", "sweep" or "drain"
    trouble,   \* the backend may fail and callers may be killed
    caller,    \* what each caller is doing
    prompt,    \* failure cache: the entry of each prompt
    class,     \* failure cache: the entry of the decision type
    counter,   \* the budget counter, -1 while the file is empty
    lock,      \* who holds the counter's lock
    resetting, \* the iteration's reset has truncated the counter
    drain,     \* the benchmark's loop
    limit,     \* the provider limits recorded in this pass
    hist       \* history, for the properties

vars == <<env, trouble, caller, prompt, class, counter, lock, resetting, drain, limit, hist>>
cache == <<prompt, class>>
budget == <<counter, lock, resetting>>
passes == <<drain, limit>>

Clear == [n |-> 0, age |-> Cooldown]
Entry(max) == [n : 0..max, age : 0..Cooldown]
At(pc, p) == [pc |-> pc, p |-> p, retry |-> {}, age |-> 0, read |-> 0, out |-> "ok"]
Idle == At("idle", None)
Markers == {"throttled", "refused"}

Outs == {"ok", "bad", "error", "timeout"}

\* Callers: one that is asking has a prompt.
CallersOK ==
    /\ caller \in [Callers -> [pc : {"idle", "look", "budget", "spend", "call", "trip", "note"},
                               p : Prompts \cup {None}, retry : SUBSET {"prompt", "type"},
                               age : 0..Cooldown, read : 0..(Cap - 1), out : Outs]]
    /\ \A c \in Callers : caller[c].pc # "idle" => caller[c].p \in Prompts

\* The failure cache and the budget counter.
CacheOK == prompt \in [Prompts -> Entry(PromptMax)] /\ class \in Entry(TypeMax)
BudgetOK == counter \in -1..Cap /\ lock \in Callers \cup {None} /\ resetting \in BOOLEAN

\* The drain.
DrainOK ==
    /\ drain \in [pc : {"start", "pass", "pause", "done"}, pending : SUBSET Prompts,
                  todo : SUBSET Prompts, before : 0..(Cardinality(Prompts) + 1),
                  pauses : 0..MaxPauses, expired : BOOLEAN]
    /\ limit \subseteq Markers

\* The history.
HistOK ==
    hist \in [spent : Nat, errors : 0..TypeMax, sidelined : BOOLEAN, answered : SUBSET Prompts,
              late : Nat, settled : Nat, refused : BOOLEAN, blank : BOOLEAN, capped : Nat]

\* The type of every variable.
TypeOK ==
    /\ env \in {"audit", "sweep", "drain"} /\ trouble \in BOOLEAN
    /\ CallersOK /\ CacheOK /\ BudgetOK /\ DrainOK /\ HistOK

Init ==
    /\ env \in {"audit", "sweep", "drain"} /\ trouble = TRUE
    /\ caller = [c \in Callers |-> Idle]
    /\ prompt = [p \in Prompts |-> Clear] /\ class = Clear
    /\ counter = 0 /\ lock = None /\ resetting = FALSE
    /\ drain = [pc |-> IF env = "drain" THEN "start" ELSE "done", pending |-> Asked["drain"],
                todo |-> {}, before |-> Cardinality(Prompts) + 1, pauses |-> 0, expired |-> FALSE]
    /\ limit = {}
    /\ hist = [spent |-> 0, errors |-> 0, sidelined |-> FALSE, answered |-> {},
               late |-> 0, settled |-> 0, refused |-> FALSE, blank |-> FALSE, capped |-> 0]

-----------------------------------------------------------------------------
(* The circuit breaker *)

Tripped(e, max) == e.n >= max

\* Bug: an open breaker never half-opens.
CoolingForever(e) == TRUE

Cooling(e) == e.age < Cooldown
Skips(e, max) == Tripped(e, max) /\ Cooling(e)
Claims(e, max) == Tripped(e, max) /\ ~Cooling(e)

\* _breaker_step: the one half-open retry of a window stamps the entry.
Claimed(e, max) == IF Claims(e, max) THEN [e EXCEPT !.age = 0] ELSE e

Bump(e, max) == [n |-> IF e.n < max THEN e.n + 1 ELSE max, age |-> 0]

Return(c) == caller' = [caller EXCEPT ![c] = Idle]
Goto(c, pc) == caller' = [caller EXCEPT ![c].pc = pc]

\* llm_decide is entered; the drain's workers look at the limit file first.
Ask(c, p) ==
    /\ caller[c].pc = "idle" /\ env # "drain" /\ p \in Asked[env]
    /\ caller' = [caller EXCEPT ![c] = At("look", p)]
    /\ UNCHANGED <<env, trouble, cache, budget, passes, hist>>

\* _failcache_should_skip, one locked read-decide-write: the prompt's breaker
\* first, its claim kept even when the type's breaker then skips the call.
Look(c) ==
    LET p == caller[c].p  e == prompt[p] IN
    /\ caller[c].pc = "look"
    /\ prompt' = [prompt EXCEPT ![p] = Claimed(e, PromptMax)]
    /\ \/ /\ Skips(e, PromptMax) /\ Return(c) /\ UNCHANGED <<class, hist>>
       \/ /\ ~Skips(e, PromptMax) /\ Skips(class, TypeMax)
          /\ Return(c) /\ UNCHANGED class
          /\ hist' = [hist EXCEPT !.sidelined = @ \/ (trouble /\ ~Tripped(e, PromptMax))]
       \/ /\ ~Skips(e, PromptMax) /\ ~Skips(class, TypeMax)
          /\ class' = Claimed(class, TypeMax)
          /\ caller' = [caller EXCEPT
               ![c].pc = IF env = "audit" THEN "budget" ELSE "call",
               ![c].retry = (IF Tripped(e, PromptMax) THEN {"prompt"} ELSE {})
                              \cup (IF Tripped(class, TypeMax) THEN {"type"} ELSE {})]
          /\ UNCHANGED hist
    /\ UNCHANGED <<env, trouble, budget, passes>>

-----------------------------------------------------------------------------
(* The budget *)

\* Bug: the counter is read before its lock is taken.
ReadUnlocked(c) == TRUE

\* The lock is free.
Locks(c) == lock = None

\* budget_available up to its decision, under the lock; an empty file is 0.
Read(c) ==
    /\ caller[c].pc = "budget" /\ Locks(c)
    /\ LET v == IF counter < 0 THEN 0 ELSE counter IN
       IF v >= Cap
       THEN Return(c) /\ UNCHANGED lock
       ELSE /\ lock' = c
            /\ caller' = [caller EXCEPT ![c].pc = "spend", ![c].read = v]
    /\ UNCHANGED <<env, trouble, cache, counter, resetting, passes, hist>>

\* The new count is written and the lock released.
Spend(c) ==
    /\ caller[c].pc = "spend"
    /\ counter' = caller[c].read + 1 /\ lock' = None
    /\ caller' = [caller EXCEPT ![c].pc = "call", ![c].read = 0]
    /\ hist' = [hist EXCEPT !.spent = IF resetting THEN @ ELSE @ + 1]
    /\ UNCHANGED <<env, trouble, cache, resetting, passes>>

\* reset_llm_decision_counters: write_text truncates and then writes, without
\* the lock, while sessions run.
Truncate ==
    /\ env = "audit" /\ ~resetting
    /\ resetting' = TRUE /\ counter' = -1
    /\ UNCHANGED <<env, trouble, caller, cache, lock, passes, hist>>

Reset ==
    /\ resetting
    /\ resetting' = FALSE /\ counter' = 0
    /\ hist' = [hist EXCEPT !.spent = 0]
    /\ UNCHANGED <<env, trouble, caller, cache, lock, passes>>

-----------------------------------------------------------------------------
(* The call *)

\* Malformed output, a missing binary, a failed launch or a timeout a stage
\* deadline cut short ("bad"), a non-zero exit ("error"), a full timeout.
Outcomes == IF trouble THEN {"ok", "bad", "error", "timeout"} ELSE {"ok"}

\* _run_decision outside the drain.
Answer(c) ==
    /\ caller[c].pc = "call" /\ env # "drain"
    /\ \E o \in Outcomes :
          /\ caller' = [caller EXCEPT ![c].out = o, ![c].pc = IF o = "timeout" THEN "trip" ELSE "note"]
          /\ hist' = [hist EXCEPT !.answered = IF o = "ok" /\ ~trouble THEN @ \cup {caller[c].p} ELSE @]
    /\ UNCHANGED <<env, trouble, cache, budget, passes>>

\* _failcache_trip_timed_out_prompt.
Trip(c) ==
    /\ caller[c].pc = "trip"
    /\ prompt' = [prompt EXCEPT ![caller[c].p] = [n |-> PromptMax, age |-> 0]]
    /\ Goto(c, "note")
    /\ UNCHANGED <<env, trouble, class, budget, passes, hist>>

\* Only a fast non-zero exit says anything about the decision's whole class.
ArmsType(out) == out = "error"

\* _failcache_note: one locked update of both entries.
Note(c) ==
    LET p == caller[c].p  out == caller[c].out IN
    /\ caller[c].pc = "note"
    /\ prompt' = [prompt EXCEPT ![p] = IF out = "ok" THEN Clear ELSE Bump(@, PromptMax)]
    /\ class' = CASE out = "ok" -> Clear
                  [] ArmsType(out) -> Bump(class, TypeMax)
                  [] OTHER -> class
    /\ Return(c)
    /\ hist' = [hist EXCEPT !.errors = IF trouble /\ out = "error" /\ @ < TypeMax THEN @ + 1 ELSE @]
    /\ UNCHANGED <<env, trouble, budget, passes>>

\* A caller is killed; the kernel releases its lock.
Die(c) ==
    /\ trouble /\ env # "drain" /\ caller[c].pc # "idle"
    /\ Return(c) /\ lock' = IF lock = c THEN None ELSE lock
    /\ UNCHANGED <<env, trouble, cache, counter, resetting, passes, hist>>

Older(e) == [e EXCEPT !.age = IF @ < Cooldown THEN @ + 1 ELSE @]
Tick ==
    /\ env # "drain"
    /\ prompt' = [p \in Prompts |-> Older(prompt[p])] /\ class' = Older(class)
    /\ caller' = [c \in Callers |-> IF caller[c].retry = {} THEN caller[c] ELSE Older(caller[c])]
    /\ UNCHANGED <<env, trouble, budget, passes, hist>>

\* From here on the backend answers and nobody is killed (followed in the
\* sweep's environment, where no cap interferes).
Recover ==
    /\ trouble /\ env = "sweep" /\ trouble' = FALSE
    /\ hist' = [hist EXCEPT !.errors = 0, !.sidelined = FALSE]
    /\ UNCHANGED <<env, caller, cache, budget, passes>>

-----------------------------------------------------------------------------
(* The drain *)

\* A pass starts with an empty limit file; the first one always runs.
StartPass ==
    /\ drain.pc \in {"start", "pause"} /\ \A c \in Callers : caller[c].pc = "idle"
    /\ IF drain.pc = "pause" /\ drain.expired
       THEN drain' = [drain EXCEPT !.pc = "done"] /\ UNCHANGED <<limit, hist>>
       ELSE /\ drain' = [drain EXCEPT !.pc = "pass", !.todo = drain.pending]
            /\ limit' = {} /\ hist' = [hist EXCEPT !.late = 0, !.settled = 0]
    /\ UNCHANGED <<env, trouble, caller, cache, budget>>

\* provider_limit_open.
LimitOpen == limit # {}

\* A worker takes an artifact and asks, unless a sibling met the limit.
Take(c, p) ==
    /\ drain.pc = "pass" /\ p \in drain.todo /\ caller[c].pc = "idle"
    /\ drain' = [drain EXCEPT !.todo = @ \ {p}]
    /\ IF LimitOpen THEN UNCHANGED caller
       ELSE caller' = [caller EXCEPT ![c] = At("call", p)]
    /\ UNCHANGED <<env, trouble, cache, budget, limit, hist>>

\* The answer of the provider in the drain: record_provider_limit appends a
\* marker for a throttle or a refusal and for nothing else.
Settle(c) ==
    /\ drain.pc = "pass" /\ caller[c].pc = "call"
    /\ \E o \in {"ok", "bad"} \cup Markers :
          /\ drain' = IF o = "ok" THEN [drain EXCEPT !.pending = @ \ {caller[c].p}] ELSE drain
          /\ limit' = limit \cup ({o} \cap Markers)
          /\ hist' = [hist EXCEPT !.late = IF limit # {} THEN @ + 1 ELSE @,
                                  !.settled = IF o = "ok" THEN @ + 1 ELSE @,
                                  !.refused = @ \/ o = "refused"]
    /\ Return(c)
    /\ UNCHANGED <<env, trouble, cache, budget>>

\* The finalize wall passes.
Expire ==
    /\ env = "drain" /\ drain.pc # "done" /\ ~drain.expired
    /\ drain' = [drain EXCEPT !.expired = TRUE]
    /\ UNCHANGED <<env, trouble, caller, cache, budget, limit, hist>>

\* A pass that settled nothing and recorded no cap.
Stalled == limit = {} /\ Cardinality(drain.pending) >= drain.before

\* Go again, after waiting a cap out.
Paused == [drain EXCEPT !.pc = "pause", !.before = Cardinality(drain.pending),
                        !.pauses = IF limit # {} THEN @ + 1 ELSE @]

\* A cap that is a refusal, or that outlasted the pauses, is not waited out.
CapOutlasts == "refused" \in limit \/ drain.pauses >= MaxPauses

\* The end of a pass: nothing pending, the wall, a refusal, the pauses spent
\* or a stall end the drain.
EndPass ==
    /\ drain.pc = "pass" /\ drain.todo = {} /\ \A c \in Callers : caller[c].pc = "idle"
    /\ LET first == drain.before > Cardinality(Prompts) \* no pass before this one
           capped == limit # {} IN
       drain' = IF \/ drain.pending = {}
                   \/ drain.expired /\ (~first \/ capped)
                   \/ capped /\ CapOutlasts
                   \/ Stalled
                THEN [drain EXCEPT !.pc = "done"] ELSE Paused
    /\ hist' = [hist EXCEPT !.blank = @ \/ (limit = {} /\ hist.settled = 0),
                            !.capped = IF limit # {} /\ @ <= MaxPauses THEN @ + 1 ELSE @]
    /\ UNCHANGED <<env, trouble, caller, cache, budget, limit>>

Step(c) == Look(c) \/ Read(c) \/ Spend(c) \/ Answer(c) \/ Trip(c) \/ Note(c) \/ Settle(c)

Drive == StartPass \/ EndPass \/ \E c \in Callers, p \in Prompts : Take(c, p)

Next ==
    \/ \E c \in Callers : \/ \E p \in Prompts : Ask(c, p)
                          \/ Step(c) \/ Die(c)
    \/ Truncate \/ Reset \/ Tick \/ Recover
    \/ Drive \/ Expire

\* A caller that runs gets on, sessions keep asking every prompt, time
\* passes, and the drain's pool runs its passes.
Spec ==
    /\ Init /\ [][Next]_vars
    /\ \A c \in Callers : WF_vars(Step(c))
    /\ \A p \in Asked["sweep"] : SF_vars(\E c \in Callers : Ask(c, p))
    /\ WF_vars(Tick) /\ WF_vars(Drive)

-----------------------------------------------------------------------------
(* Properties *)

\* What the callers of one counter spend from the end of one reset to the
\* start of the next never exceeds the cap, however budget_available and the
\* unlocked reset interleave.
SpentWithinCap == hist.spent <= Cap

\* Two half-open retries of one breaker are never less than a cooldown apart,
\* whichever processes claim them (_failcache_should_skip).
OneRetryPerWindow ==
    \A c, d \in Callers :
        LET same == (caller[c].retry \cap caller[d].retry)
                        \ (IF caller[c].p = caller[d].p THEN {} ELSE {"prompt"})
        IN c # d /\ same # {} => caller[c].age >= Cooldown \/ caller[d].age >= Cooldown

\* Slow prompts and malformed answers never sideline other prompts: a prompt
\* its own breaker would let pass is skipped only after a storm of errors.
SlowNeverSidelines == hist.sidelined => hist.errors >= TypeMax

\* A recovered backend is resumed without help: every prompt that goes on
\* being asked is answered in the end, breakers tripped or not.
ResumesAfterRecovery == env = "sweep" /\ ~trouble ~> hist.answered = Asked[env]

\* Once one worker met the provider's limit, only the calls in flight are
\* still made in that pass.
LimitStopsFanOut == hist.late <= Cardinality(Callers) - 1

\* The drain gives up on an artifact only for the wall, a refusal, a cap that
\* outlasted every pause, or a whole pass that came back with nothing.
GivesUpForReason ==
    env = "drain" /\ drain.pc = "done" /\ drain.pending # {} =>
        drain.expired \/ hist.refused \/ hist.blank \/ hist.capped > MaxPauses

\* The drain ends.
DrainEnds == <>(drain.pc = "done")

\* The calls several processes share one budget for stay within it, a broken
\* prompt gets one retry per window, slow answers close no decision type, the
\* provider's limit stops further calls, and a drain gives up only for a reason.
BudgetKept ==
    SpentWithinCap /\ OneRetryPerWindow /\ SlowNeverSidelines /\ LimitStopsFanOut /\ GivesUpForReason

\* A drain ends, and a provider that recovers is asked again.
DrainGoesOn == DrainEnds /\ ResumesAfterRecovery
=============================================================================
