--------------------------- MODULE SlotPoolProofs ---------------------------
(***************************************************************************)
(* The two schedulers for any slots, limits and outcomes: generations and  *)
(* relaunches stay within their allowances, a halt only drains, a refusal  *)
(* is final, and a tick forgets no slot that has work.  And the preflight  *)
(* before them, for any builds, changes and kills: what is called fresh is *)
(* current, and what a benchmark measures is one generation.               *)
(***************************************************************************)
EXTENDS MCSlotPool, BuildFresh, FiniteSetTheorems, TLAPS

InCall == pc \in {"loop", "steer", "refill"}

\* TypeOK, its flags apart.
Flags == halted \in BOOLEAN /\ stalled \in BOOLEAN /\ due \in BOOLEAN /\ refused \in BOOLEAN
Typed ==
    /\ pc \in {"drive", "loop", "steer", "refill", "recover", "end", "unavailable"}
    /\ sess \in [Slots -> {"none", "run"} \cup Outcomes]
    /\ fin \subseteq Slots /\ idle \subseteq Slots /\ retried \subseteq Slots /\ ended \subseteq Slots
    /\ clean \in [Slots -> 0..CleanCap] /\ ran \in [Slots -> Nat]
    /\ issues \subseteq Halts /\ wall \in {"open", "last", "over"}
    /\ iter \in Nat /\ dry \in 0..MaxDry /\ streak \in 0..TransientMax
    /\ paused \in 0..(PauseMax + 1) /\ status \in Statuses
    /\ had \subseteq Slots /\ starved \subseteq Slots
    /\ \A a \in idle : sess[a] = "none"

LEMMA TypeSplits == (TypeOK <=> Flags /\ Typed) /\ (TypeOK' <=> Flags' /\ Typed')
BY Zenon DEF TypeOK, Flags, Typed

\* Between two calls of run_continuous nothing of a call is left.
CallInv ==
    /\ ~InCall =>
          /\ \A a \in Slots : sess[a] = "none" /\ clean[a] = 0 /\ ran[a] = 0
          /\ fin = {} /\ idle = {} /\ had = {} /\ issues = {} /\ ~halted /\ ~stalled
    /\ pc = "loop" => fin = {}
    /\ \A a \in fin : sess[a] \in Outcomes

\* Clean sessions since the tick: one for every clean relaunch, and the one
\* whose slot was not relaunched, or not yet.
CleanInv ==
    \A a \in Slots :
      /\ ran[a] <= clean[a] + 1
      /\ sess[a] # "none" /\ ~(a \in fin /\ sess[a] = "clean") => ran[a] <= clean[a]

\* A refusal is in a transcript yet to be collected, among the issues, or what
\* the call returned.
RefusalInv ==
    refused => /\ pc # "drive"
               /\ InCall => \/ "rejected" \in issues
                            \/ \E a \in Slots \ fin : sess[a] = "rejected"
               /\ pc = "recover" => status \in {"rejected", "stalled"}

\* A slot that had a session has one or is on the idle list.
IdleInv == (\A a \in had : sess[a] = "none" => a \in idle) /\ starved = {}

PoolInv == TypeOK /\ CallInv /\ CleanInv /\ RefusalInv /\ IdleInv /\ IterationCeiling

\* The cohort's pool: nobody runs before the launch, one of each allowance.
CohortInv ==
    /\ Cohort!TypeOK /\ Cohort!AllowancesKept
    /\ stage = "launch" => cfin = {} /\ \A a \in Slots : kind[a] = "none"

-----------------------------------------------------------------------------
(* The continuous scheduler *)

LEMMA PoolStarts == ASSUME ContinuousInit \/ CohortInit PROVE PoolInv /\ CohortInv
<1> USE PoolAssumption
<1>1. TypeOK /\ IterationCeiling
  <2>1. Typed /\ IterationCeiling
    BY DEF ContinuousInit, CohortInit, Init, Typed, IterationCeiling, Halts, Outcomes, Statuses
  <2>2. Flags
    BY Zenon DEF ContinuousInit, CohortInit, Init, Flags
  <2> QED BY <2>1, <2>2, TypeSplits
<1>2. CallInv /\ CleanInv /\ RefusalInv /\ IdleInv
  BY DEF ContinuousInit, CohortInit, Init, CallInv, CleanInv, RefusalInv, IdleInv, InCall
<1>3. CohortInv
  <2> USE DEF ContinuousInit, CohortInit, Cohort!Init, Cohort!Fresh
  <2>1. /\ extra = [a \in Slots |-> 0] /\ again = [a \in Slots |-> 0]
        /\ covertime = {} /\ cretried = {} /\ cfin = {}
        /\ kind = [a \in Slots |-> "none"] /\ out = [a \in Slots |-> "run"]
        /\ stage \in {"launch", "barrier"} /\ policy \in {"cohort-era", "any-peer"}
        /\ epoch = "open"
    BY DEF ContinuousInit, CohortInit
  <2>2. refill \in BOOLEAN /\ stop \in BOOLEAN
    BY Zenon DEF ContinuousInit, CohortInit
  <2>3. Cohort!AllowancesKept /\ (stage = "launch" => cfin = {} /\ \A a \in Slots : kind[a] = "none")
    BY <2>1 DEF Cohort!AllowancesKept
  <2>4. Cohort!TypeOK
    BY <2>1, <2>2 DEF Cohort!TypeOK, Cohort!Futures, Cohort!Outcomes
  <2> QED BY <2>3, <2>4 DEF CohortInv
<1> QED BY <1>1, <1>2, <1>3 DEF PoolInv

LEMMA BeginKeeps ==
    ASSUME PoolInv, NEW work \in SUBSET Slots, Begin(work)
    PROVE  PoolInv'
<1> USE PoolAssumption DEF PoolInv, Begin, local
<1>1. TypeOK'
  <2>1. Typed'
    BY TypeSplits DEF Typed, CallInv, InCall, NextIter, Statuses
  <2>2. Flags'
    BY Zenon, TypeSplits DEF Flags
  <2> QED BY <2>1, <2>2, TypeSplits
<1>2. CallInv' /\ CleanInv'
  BY DEF TypeOK, CallInv, CleanInv, InCall
<1>3. RefusalInv' /\ IdleInv' /\ IterationCeiling'
  BY DEF TypeOK, CallInv, RefusalInv, IdleInv, IterationCeiling, InCall, NextIter
<1> QED BY <1>1, <1>2, <1>3

LEMMA SessionEndKeeps ==
    ASSUME PoolInv, NEW a \in Slots, NEW outcome \in Outcomes, SessionEnd(a, outcome)
    PROVE  PoolInv'
<1> USE DEF PoolInv, SessionEnd, local, backend, clocks
<1>1. TypeOK'
  BY DEF TypeOK
<1>2. CallInv' /\ CleanInv'
  BY DEF TypeOK, CallInv, CleanInv, InCall, Outcomes, Halts
<1>3. RefusalInv'
  BY DEF TypeOK, CallInv, RefusalInv, InCall, Outcomes, Halts
<1>4. IdleInv' /\ IterationCeiling'
  BY DEF TypeOK, IdleInv, IterationCeiling, Outcomes, Halts
<1> QED BY <1>1, <1>2, <1>3, <1>4

LEMMA CollectKeeps == ASSUME PoolInv, Collect PROVE PoolInv'
<1> USE DEF PoolInv, Collect, backend, clocks, Ended
<1>1. TypeOK'
  <2>1. Typed'
    BY TypeSplits DEF Typed, Halts
  <2>2. Flags'
    BY Zenon, TypeSplits DEF Flags
  <2> QED BY <2>1, <2>2, TypeSplits
<1>2. CallInv' /\ CleanInv'
  BY DEF TypeOK, CallInv, CleanInv, InCall, Outcomes, Halts
<1>3. RefusalInv'
  BY DEF TypeOK, CallInv, RefusalInv, InCall, Outcomes, Halts
<1>4. IdleInv' /\ IterationCeiling'
  BY DEF IdleInv, IterationCeiling
<1> QED BY <1>1, <1>2, <1>3, <1>4

LEMMA TickStallsKeeps ==
    ASSUME PoolInv, NEW active \in BOOLEAN, TickStalls(active)
    PROVE  PoolInv'
<1> USE PoolAssumption DEF PoolInv, TickStalls, Ticking
<1>1. TypeOK'
  <2>1. Typed'
    BY TypeSplits DEF Typed, Score, Lesser
  <2>2. Flags'
    BY Zenon, TypeSplits DEF Flags
  <2> QED BY <2>1, <2>2, TypeSplits
<1>2. CallInv' /\ CleanInv'
  BY DEF TypeOK, CallInv, CleanInv, InCall
<1>3. RefusalInv' /\ IdleInv' /\ IterationCeiling'
  BY DEF RefusalInv, IdleInv, IterationCeiling, InCall
<1> QED BY <1>1, <1>2, <1>3

\* What a tick wakes, and what it would leave idle with work.
LEMMA TickWakes ==
    ASSUME PoolInv, NEW productive \in BOOLEAN, NEW active \in BOOLEAN,
           NEW work \in SUBSET Slots, Tick(productive, active, work)
    PROVE  /\ starved' = {}
           /\ \E woken \in SUBSET idle :
                /\ sess' = [a \in Slots |-> IF a \in woken THEN "run" ELSE sess[a]]
                /\ idle' = idle \ woken
<1> DEFINE ceiling == MaxIter # 0 /\ iter' >= MaxIter
           woken == {a \in idle : MayLaunch /\ ~ceiling /\ a \in work}
<1>1. /\ sess' = [a \in Slots |-> IF a \in woken THEN "run" ELSE sess[a]]
      /\ idle' = idle \ woken
      /\ starved' = {a \in work \cap had : MayLaunch /\ ~ceiling /\ sess'[a] = "none"}
  BY DEF Tick
<1>2. starved' = {}
  BY <1>1 DEF PoolInv, IdleInv, TypeOK
<1> QED BY <1>1, <1>2

LEMMA TickKeeps ==
    ASSUME PoolInv, NEW productive \in BOOLEAN, NEW active \in BOOLEAN,
           NEW work \in SUBSET Slots, Tick(productive, active, work)
    PROVE  PoolInv'
<1> USE PoolAssumption DEF PoolInv
<1>1. PICK woken \in SUBSET idle :
         /\ sess' = [a \in Slots |-> IF a \in woken THEN "run" ELSE sess[a]]
         /\ idle' = idle \ woken
  BY TickWakes
<1>2. /\ pc = "steer" /\ pc' = "refill" /\ ended' = {} /\ due' = FALSE /\ starved' = {}
      /\ clean' = [a \in Slots |-> 0] /\ ran' = [a \in Slots |-> 0]
      /\ UNCHANGED <<fin, retried, halted, stalled, issues, wall, paused, status, had, refused>>
  BY TickWakes DEF Tick, Ticking
<1>3. /\ dry' \in 0..MaxDry /\ streak' \in 0..TransientMax /\ iter' \in Nat
      /\ IterationCeiling'
  <2>1. CASE ended # {}
    BY <2>1 DEF Tick, Ticking, Score, Lesser, NextIter, CeilingReached, TypeOK, IterationCeiling
  <2>2. CASE ended = {}
    BY <2>2 DEF Tick, Ticking, CeilingReached, TypeOK, IterationCeiling
  <2> QED BY <2>1, <2>2
<1>4. TypeOK'
  <2>1. Typed'
    BY <1>1, <1>2, <1>3, TypeSplits DEF Typed
  <2>2. Flags'
    BY <1>2, TypeSplits, Zenon DEF Flags
  <2> QED BY <2>1, <2>2, TypeSplits
<1>5. CallInv' /\ CleanInv'
  BY <1>1, <1>2 DEF TypeOK, CallInv, CleanInv, InCall, Outcomes, Halts
<1>6. RefusalInv'
  BY <1>1, <1>2 DEF TypeOK, RefusalInv, InCall
<1>7. IdleInv'
  BY <1>1, <1>2 DEF TypeOK, IdleInv
<1> QED BY <1>3, <1>4, <1>5, <1>6, <1>7

\* Which of the finished slots run again, and how often they did.
LEMMA RefillChooses ==
    ASSUME PoolInv, NEW work \in SUBSET Slots, Refill(work)
    PROVE  \E again_ \in SUBSET fin :
             /\ halted => again_ = {}
             /\ \A a \in again_ : /\ sess[a] # "rejected"
                                  /\ sess[a] = "clean" => clean[a] < CleanCap
             /\ sess' = [a \in Slots |-> IF a \in again_ THEN "run"
                                         ELSE IF a \in fin THEN "none" ELSE sess[a]]
             /\ idle' = idle \cup (fin \ again_)
             /\ retried' \subseteq Slots
             /\ clean' = [a \in Slots |-> IF a \in again_ /\ sess[a] = "clean"
                                            THEN Lesser(clean[a] + 1, CleanCap) ELSE clean[a]]
<1> DEFINE g == {a \in fin : MayLaunch /\ ~CeilingReached /\ Refills(a, work)}
<1>1. /\ sess' = [a \in Slots |-> IF a \in g THEN "run"
                                  ELSE IF a \in fin THEN "none" ELSE sess[a]]
      /\ idle' = idle \cup (fin \ g)
      /\ retried' = retried \cup {a \in g : sess[a] = "failed"}
      /\ clean' = [a \in Slots |-> IF a \in g /\ sess[a] = "clean"
                                     THEN Lesser(clean[a] + 1, CleanCap) ELSE clean[a]]
  BY DEF Refill
<1>2. halted => g = {}
  BY DEF MayLaunch
<1>3. \A a \in g : sess[a] # "rejected" /\ (sess[a] = "clean" => clean[a] < CleanCap)
  BY DEF Refills
<1>4. retried' \subseteq Slots
  BY <1>1 DEF PoolInv, TypeOK
<1> QED
  <2> WITNESS g \in SUBSET fin
  <2> QED BY <1>1, <1>2, <1>3, <1>4

LEMMA RefillKeeps ==
    ASSUME PoolInv, NEW work \in SUBSET Slots, Refill(work)
    PROVE  PoolInv'
<1> USE PoolAssumption DEF PoolInv
<1>1. PICK g \in SUBSET fin :
             /\ halted => g = {}
             /\ \A a \in g : /\ sess[a] # "rejected"
                             /\ sess[a] = "clean" => clean[a] < CleanCap
             /\ sess' = [a \in Slots |-> IF a \in g THEN "run"
                                         ELSE IF a \in fin THEN "none" ELSE sess[a]]
             /\ idle' = idle \cup (fin \ g)
             /\ retried' \subseteq Slots
             /\ clean' = [a \in Slots |-> IF a \in g /\ sess[a] = "clean"
                                            THEN Lesser(clean[a] + 1, CleanCap) ELSE clean[a]]
  BY RefillChooses
<1>2. /\ pc = "refill" /\ pc' = "loop" /\ fin' = {}
      /\ UNCHANGED <<ended, halted, stalled, issues, iter, dry, streak, paused, status,
                     due, wall, ran, had, starved, refused>>
  BY DEF Refill, backend, clocks, history
<1>3. TypeOK'
  BY <1>1, <1>2 DEF TypeOK, Lesser, Outcomes, Halts, CallInv
<1>4. CallInv'
  BY <1>2 DEF CallInv, InCall
<1>5. CleanInv'
  BY <1>1, <1>2 DEF TypeOK, CallInv, CleanInv, Lesser, Outcomes, Halts
<1>6. RefusalInv'
  BY <1>1, <1>2 DEF TypeOK, RefusalInv, InCall
<1>7. IdleInv' /\ IterationCeiling'
  BY <1>1, <1>2 DEF TypeOK, CallInv, IdleInv, IterationCeiling
<1> QED BY <1>3, <1>4, <1>5, <1>6, <1>7

LEMMA ReturnKeeps ==
    ASSUME PoolInv, NEW productive \in BOOLEAN, NEW active \in BOOLEAN,
           NEW exhausted \in BOOLEAN, Return(productive, active, exhausted)
    PROVE  PoolInv'
<1> USE PoolAssumption DEF PoolInv
<1>1. /\ pc = "loop" /\ pc' = "recover"
      /\ \A a \in Slots : sess[a] = "none"
      /\ fin = {} /\ idle' = {} /\ retried' = {} /\ ended' = {} /\ issues' = {}
      /\ had' = {} /\ starved' = {} /\ ~halted' /\ ~stalled'
      /\ halted' = FALSE /\ stalled' = FALSE
      /\ clean' = [a \in Slots |-> 0] /\ ran' = [a \in Slots |-> 0]
      /\ UNCHANGED <<sess, fin, due, wall, iter, paused, refused>>
  BY DEF Return, Futures, CallInv, clocks
<1>2. dry' \in 0..MaxDry /\ streak' \in 0..TransientMax /\ status' \in Statuses
  <2>1. CASE stalled
    BY <2>1 DEF Return, TypeOK, Statuses, Halts
  <2>2. CASE ~stalled /\ issues # {}
    BY <2>2 DEF Return, TypeOK, Worst, Statuses, Halts
  <2>3. CASE ~stalled /\ issues = {}
    BY <2>3 DEF Return, TypeOK, Score, Lesser, Statuses, Halts
  <2> QED BY <2>1, <2>2, <2>3
<1>3. TypeOK'
  <2>1. Typed'
    BY <1>1, <1>2, TypeSplits DEF Typed
  <2>2. Flags'
    BY <1>1, TypeSplits, Zenon DEF Flags
  <2> QED BY <2>1, <2>2, TypeSplits
<1>4. CallInv' /\ CleanInv' /\ IdleInv' /\ IterationCeiling'
  BY <1>1 DEF TypeOK, CallInv, CleanInv, IdleInv, IterationCeiling, InCall
<1>5. RefusalInv'
  <2> SUFFICES ASSUME refused PROVE status' \in {"rejected", "stalled"}
    BY <1>1 DEF RefusalInv, InCall
  <2>1. "rejected" \in issues
    BY <1>1 DEF RefusalInv, InCall
  <2> QED BY <2>1 DEF Return, Worst
<1> QED BY <1>3, <1>4, <1>5

LEMMA DriveKeeps == ASSUME PoolInv, Drive PROVE PoolInv'
<1> USE PoolAssumption DEF PoolInv, local, backend, clocks, history
<1> DEFINE Same == UNCHANGED <<sess, local, iter, dry, status, clocks, history>>
<1>1. /\ Same /\ pc \in {"drive", "recover"} /\ pc' \in {"drive", "end", "unavailable"}
      /\ pc' = "drive" => status \in {"ok", "capacity", "transient"} /\ pc = "recover"
      /\ streak' \in 0..TransientMax /\ paused' \in 0..(PauseMax + 1)
  BY DEF Drive, Exhaust, Stop, Resume, GiveUp, PauseTransient, PauseCapacity, TypeOK, Lesser
<1>2. TypeOK'
  BY <1>1 DEF TypeOK
<1>3. CallInv' /\ CleanInv'
  BY <1>1 DEF TypeOK, CallInv, CleanInv, InCall
<1>4. RefusalInv' /\ IdleInv' /\ IterationCeiling'
  BY <1>1 DEF RefusalInv, IdleInv, IterationCeiling, InCall
<1> QED BY <1>2, <1>3, <1>4

LEMMA PoolKeeps == ASSUME PoolInv, [Next]_vars PROVE PoolInv'
<1>1. CASE NoTick \/ IntervalElapses \/ WallNears \/ UNCHANGED vars
  <2> USE <1>1 DEF NoTick, IntervalElapses, WallNears, vars, local, backend, clocks, history
  <2>1. TypeOK'
    BY DEF PoolInv, TypeOK
  <2>2. CallInv' /\ CleanInv' /\ IdleInv' /\ IterationCeiling'
    BY DEF PoolInv, CallInv, CleanInv, IdleInv, IterationCeiling, InCall
  <2>3. RefusalInv'
    BY DEF PoolInv, RefusalInv, InCall
  <2> QED BY <2>1, <2>2, <2>3 DEF PoolInv
<1> QED
  BY <1>1, BeginKeeps, SessionEndKeeps, CollectKeeps, TickStallsKeeps, TickKeeps, RefillKeeps,
     ReturnKeeps, DriveKeeps DEF Next, Pool

-----------------------------------------------------------------------------
(* The cohort scheduler *)

LEMMA CohortRefillKeeps ==
    ASSUME CohortInv, NEW work \in SUBSET Slots, Cohort!Refill(work)
    PROVE  CohortInv'
<1> DEFINE peers == Cohort!Futures \ cfin
           cohort == \E b \in peers : kind[b] = "initial"
           new == {a \in cfin : /\ Cohort!Refills(peers) /\ epoch = "open"
                                /\ Cohort!May(a, peers) /\ Cohort!Wants(a, work)}
           fails == {a \in new : out[a] = "failed"}
           late == IF cohort THEN {} ELSE new
<1>1. /\ cfin # {} /\ cfin' = {}
      /\ kind' = [a \in Slots |-> IF a \in new THEN (IF cohort THEN "refill" ELSE "overtime")
                                  ELSE IF a \in cfin THEN "none" ELSE kind[a]]
      /\ out' = [a \in Slots |-> IF a \in cfin THEN "run" ELSE out[a]]
      /\ cretried' = cretried \cup fails /\ covertime' = covertime \cup late
      /\ extra' = [a \in Slots |-> IF a \in late /\ extra[a] < 2 THEN extra[a] + 1 ELSE extra[a]]
      /\ again' = [a \in Slots |-> IF a \in fails /\ again[a] < 2 THEN again[a] + 1 ELSE again[a]]
      /\ UNCHANGED <<stage, policy, refill, stop, epoch>>
  BY DEF Cohort!Refill
<1>2. \A a \in late : a \notin covertime
  BY DEF Cohort!May
<1>3. \A a \in fails : a \notin cretried
  BY DEF Cohort!Wants
<1>4. fails \subseteq Slots /\ late \subseteq Slots /\ new \subseteq Slots
  BY DEF CohortInv, Cohort!TypeOK, Cohort!Futures
<1> HIDE DEF fails, late, new, cohort, peers
<1>5. /\ \A a \in Slots : extra'[a] = IF a \in late THEN 1 ELSE extra[a]
      /\ \A a \in Slots : again'[a] = IF a \in fails THEN 1 ELSE again[a]
  BY <1>1, <1>2, <1>3, <1>4 DEF CohortInv, Cohort!TypeOK
<1>6. Cohort!AllowancesKept'
  BY <1>5 DEF CohortInv, Cohort!AllowancesKept
<1>7. Cohort!TypeOK'
  <2>1. kind' \in [Slots -> {"none", "initial", "refill", "overtime"}]
    BY <1>1 DEF CohortInv, Cohort!TypeOK
  <2>2. out' \in [Slots -> {"run"} \cup Cohort!Outcomes]
    BY <1>1 DEF CohortInv, Cohort!TypeOK
  <2>3. \A a \in Slots : out'[a] # "run" => kind'[a] # "none"
    BY <1>1, <1>4 DEF CohortInv, Cohort!TypeOK
  <2>4. extra' \in [Slots -> 0..2] /\ again' \in [Slots -> 0..2]
    BY <1>1, <1>5 DEF CohortInv, Cohort!TypeOK
  <2>5. /\ covertime' = {a \in Slots : extra'[a] > 0}
        /\ cretried' = {a \in Slots : again'[a] > 0}
    BY <1>1, <1>4, <1>5 DEF CohortInv, Cohort!TypeOK
  <2> QED BY <1>1, <2>1, <2>2, <2>3, <2>4, <2>5 DEF CohortInv, Cohort!TypeOK
<1>8. stage' # "launch"
  BY <1>1 DEF CohortInv
<1> QED BY <1>6, <1>7, <1>8 DEF CohortInv

LEMMA CohortKeeps == ASSUME CohortInv, [Cohort!Next]_(Cohort!vars) PROVE CohortInv'
<1>1. ASSUME NEW work \in SUBSET Slots, Cohort!Launch(work) PROVE CohortInv'
  BY <1>1 DEF CohortInv, Cohort!Launch, Cohort!TypeOK, Cohort!AllowancesKept, Cohort!Futures
<1>2. ASSUME NEW a \in Slots, NEW o \in Cohort!Outcomes, Cohort!End(a, o) PROVE CohortInv'
  <2> USE <1>2 DEF Cohort!End
  <2>1. /\ out' \in [Slots -> {"run"} \cup Cohort!Outcomes]
        /\ \A b \in Slots : out'[b] # "run" => kind[b] # "none"
    BY DEF CohortInv, Cohort!TypeOK
  <2>2. stage # "launch" /\ Cohort!AllowancesKept'
    BY DEF CohortInv, Cohort!TypeOK, Cohort!AllowancesKept
  <2>3. Cohort!TypeOK'
    BY <2>1 DEF CohortInv, Cohort!TypeOK, Cohort!Futures
  <2> QED BY <2>2, <2>3 DEF CohortInv
<1>3. CASE Cohort!Collect \/ Cohort!Barrier \/ Cohort!EpochCloses \/ UNCHANGED Cohort!vars
  BY <1>3 DEF CohortInv, Cohort!Collect, Cohort!Barrier, Cohort!EpochCloses, Cohort!vars,
              Cohort!TypeOK, Cohort!AllowancesKept, Cohort!Futures
<1> QED BY <1>1, <1>2, <1>3, CohortRefillKeeps DEF Cohort!Next, Cohort!Run

-----------------------------------------------------------------------------
(* What a step may not do *)

LEMMA StepKeepsHalt ==
    ASSUME PoolInv, [Next]_vars
    PROVE  [halted => Running' \subseteq Running]_vars
<1> SUFFICES ASSUME halted, Next PROVE Running' \subseteq Running
  OBVIOUS
<1>1. InCall
  BY DEF PoolInv, CallInv
<1>2. ASSUME NEW work \in SUBSET Slots, Refill(work) PROVE Running' \subseteq Running
  BY <1>2, RefillChooses DEF PoolInv, TypeOK, Running
<1>3. ASSUME NEW a \in Slots, NEW outcome \in Outcomes, SessionEnd(a, outcome)
      PROVE  Running' \subseteq Running
  BY <1>3 DEF PoolInv, TypeOK, SessionEnd, Running
<1>4. ASSUME NEW productive \in BOOLEAN, NEW active \in BOOLEAN, NEW exhausted \in BOOLEAN,
             Return(productive, active, exhausted)
      PROVE  Running' \subseteq Running
  BY <1>4 DEF Return, Running
<1>5. CASE Collect \/ NoTick \/ IntervalElapses \/ WallNears
  BY <1>5 DEF Collect, NoTick, IntervalElapses, WallNears, Running
<1>6. ASSUME NEW work \in SUBSET Slots PROVE ~Begin(work)
  BY <1>1 DEF Begin, InCall
<1>7. ~Drive
  BY <1>1 DEF Drive, Exhaust, Stop, Resume, GiveUp, PauseTransient, PauseCapacity, InCall
<1>8. ~Ticking
  BY DEF Ticking
<1> QED BY <1>2, <1>3, <1>4, <1>5, <1>6, <1>7, <1>8 DEF Next, Pool, Tick, TickStalls

LEMMA CohortOvertimeEnds ==
    ASSUME CohortInv, [Cohort!Next]_(Cohort!vars)
    PROVE  [policy = "cohort-era" /\ Cohort!Era \subseteq cfin =>
              \A a \in cfin \ cfin' : kind'[a] = "none"]_(Cohort!vars)
<1> SUFFICES ASSUME Cohort!Next, policy = "cohort-era", Cohort!Era \subseteq cfin,
                    NEW a \in cfin \ cfin'
             PROVE  kind'[a] = "none"
  OBVIOUS
<1>1. a \in Slots
  BY DEF CohortInv, Cohort!TypeOK, Cohort!Futures
<1>2. PICK work \in SUBSET Slots : Cohort!Refill(work)
  BY DEF Cohort!Next, Cohort!Run, Cohort!Launch, Cohort!Collect, Cohort!Barrier,
         Cohort!EpochCloses, Cohort!End
<1>3. ~Cohort!May(a, Cohort!Futures \ cfin)
  BY DEF Cohort!May, Cohort!Era, Cohort!Futures
<1> QED BY <1>1, <1>2, <1>3 DEF Cohort!Refill

-----------------------------------------------------------------------------

\* For any slots, limits and session outcomes, in either scheduler
\* (audit_runner.py, run_continuous and run_agent_pool): generations stay under
\* --max-iterations, a slot takes at most its allowance of clean relaunches,
\* retries and overtime, a provider issue only drains, a refusal is never
\* retried, a tick leaves no slot with work idle, and overtime never justifies
\* overtime.
THEOREM RelaunchesAreKept == MCSpec => RelaunchesKept
<1> DEFINE Inv == PoolInv /\ CohortInv
           Step == [(Next /\ UNCHANGED cohortVars) \/ (Cohort!Next /\ UNCHANGED vars)]_<<vars, cohortVars>>
<1>1. ContinuousInit \/ CohortInit => Inv
  BY PoolStarts
<1>2. Step => [Next]_vars /\ [Cohort!Next]_(Cohort!vars)
  BY DEF cohortVars, Cohort!vars
<1>3. Inv /\ Step => Inv'
  BY <1>2, PoolKeeps, CohortKeeps
<1>4. Inv => IterationCeiling /\ CleanSessionsBounded /\ IdleReconsidered /\ AllowancesKept
  <2>1. PoolInv => CleanSessionsBounded
    BY PoolAssumption DEF PoolInv, TypeOK, CleanInv, CleanSessionsBounded
  <2> QED BY <2>1 DEF PoolInv, CohortInv, IdleInv, IdleReconsidered, AllowancesKept
<1>5. Inv /\ Step => [halted => Running' \subseteq Running]_vars
  BY <1>2, StepKeepsHalt
<1>6. Inv /\ Step => [refused => ~(pc = "drive" /\ pc' = "loop")]_vars
  BY DEF PoolInv, RefusalInv
<1>7. Inv /\ Step => [policy = "cohort-era" /\ Cohort!Era \subseteq cfin =>
                        \A a \in cfin \ cfin' : kind'[a] = "none"]_(Cohort!vars)
  BY <1>2, CohortOvertimeEnds
<1> HIDE DEF Inv
<1> QED
  BY <1>1, <1>3, <1>4, <1>5, <1>6, <1>7, PTL
  DEF MCSpec, RelaunchesKept, NoLaunchAfterHalt, RefusedForGood, OvertimeEndsWithCohort,
      Cohort!OvertimeEndsWithCohort

-----------------------------------------------------------------------------
(* The preflight (BuildFresh) *)

\* A stamp no edit raced with says what the tree was made from.
StampTells(r) == r.sig # Nothing /\ ~r.raced => r.made = r.sig /\ r.rec = r.srec

\* So does the stamp of a tree set aside, which may come back.
StampsInv ==
    /\ \A t \in Trees : StampTells(tree[t])
    /\ job # NoJob => StampTells(job.aside)

\* A run holds its leases between taking them and its end, over idle trees.
HeldFresh ==
    /\ held => at \in {"verify", "running"} /\ job = NoJob
    /\ at \in {"building", "sibling"} => job.who = "run"
    /\ mode = "bench" /\ at \in {"verify", "running"} => held

\* Cells were measured on the recorded generation, or there is no record yet.
MeasuredInv ==
    /\ measured = {} \/ (pin # NoJob /\ measured = {pin.gen})
    /\ mode = "bench" /\ at = "running" => pin # NoJob

FreshInv == FreshTypeOK /\ StampsInv /\ HeldFresh /\ MeasuredInv /\ ~fed

\* A change of a version is a version.
LEMMA OtherVersion == \A v \in 0..1 : 1 - v \in 0..1
  OBVIOUS

\* No job is nobody's job.
LEMMA IdleHasNoBuilder == NoJob.who = "" /\ NoJob \notin BuildJobs
<1>1. NoJob.who = ""
  BY DEF NoJob
<1>2. \A j \in BuildJobs : j.who \in {"run", "peer"}
  BY DEF BuildJobs
<1> QED BY <1>1, <1>2

\* An absent or half-made tree has no stamp.
LEMMA AbsentTells == Absent \in TreeStates /\ StampTells(Absent) /\ StampTells([Absent EXCEPT !.here = TRUE])
                       /\ [Absent EXCEPT !.here = TRUE] \in TreeStates
  BY DEF Absent, TreeStates, StampTells, Known, Nothing

\* A recorded generation is not "none".
LEMMA PinIsSomething == \A t \in Trees : IdentityOf(t) # NoJob
<1> SUFFICES ASSUME NEW t \in Trees PROVE IdentityOf(t) # NoJob
  OBVIOUS
<1>1. "gen" \in DOMAIN IdentityOf(t)
  BY DEF IdentityOf
<1>2. "gen" \notin DOMAIN NoJob
  BY DEF NoJob
<1> QED BY <1>1, <1>2

\* A build starts in an empty tree and remembers what it set aside.
LEMMA StartTells ==
    ASSUME FreshTypeOK, StampsInv, NEW who \in {"run", "peer"}, NEW t \in Trees, Start(who, t)
    PROVE  /\ tree' \in [Trees -> TreeStates] /\ job' \in BuildJobs
           /\ \A s \in Trees : StampTells(tree'[s])
           /\ StampTells(job'.aside) /\ job'.who = who
<1>1. job' = [who |-> who, of |-> t, made |-> src, rec |-> recipe, lib |-> host, aside |-> tree[t]]
  BY DEF Start
<1>2. tree' = [tree EXCEPT ![t] = [Absent EXCEPT !.here = TRUE]]
  BY DEF Start
<1>3. tree \in [Trees -> TreeStates] /\ tree[t] \in TreeStates
  BY DEF FreshTypeOK
<1>4. src \in Versions /\ recipe \in Versions /\ host \in Versions
  BY DEF FreshTypeOK
<1>5. job' \in BuildJobs
  BY <1>1, <1>3, <1>4 DEF BuildJobs
<1>6. tree' \in [Trees -> TreeStates]
  BY <1>2, <1>3, AbsentTells
<1>7. \A s \in Trees : StampTells(tree'[s])
  BY <1>2, <1>3, AbsentTells DEF StampsInv
<1>8. StampTells(job'.aside) /\ job'.who = who
  BY <1>1 DEF StampsInv
<1> QED BY <1>5, <1>6, <1>7, <1>8

\* The stamp a build is given tells of it, unless the build was raced.
LEMMA StampedTells ==
    ASSUME FreshTypeOK, NEW j \in BuildJobs
    PROVE  Stamped(j) \in TreeStates /\ StampTells(Stamped(j))
<1>1. Signature \in Known /\ (Signature # Nothing => Signature = src)
  BY DEF FreshTypeOK, Signature, Known
<1>2. j.made \in Known /\ j.rec \in Known /\ j.lib \in Known /\ recipe \in Known /\ gens + 1 \in Nat
  BY DEF BuildJobs, FreshTypeOK, Known
<1>3. Stamped(j) \in TreeStates
  BY <1>1, <1>2 DEF Stamped, TreeStates
<1> QED BY <1>1, <1>3 DEF Stamped, StampTells

\* However a build ends, the trees tell what they were made from.
LEMMA EndTells ==
    ASSUME FreshTypeOK, StampsInv, Succeeds \/ Fails
    PROVE  /\ tree' \in [Trees -> TreeStates] /\ job' = NoJob /\ gens' \in Nat
           /\ \A s \in Trees : StampTells(tree'[s])
<1>1. job # NoJob /\ job \in BuildJobs
  BY DEF Succeeds, Fails, FreshTypeOK
<1>2. job.of \in Trees /\ job.aside \in TreeStates /\ StampTells(job.aside)
  BY <1>1 DEF BuildJobs, StampsInv
<1>3. tree \in [Trees -> TreeStates] /\ gens \in Nat
  BY DEF FreshTypeOK
<1>4. CASE Succeeds
  <2>1. Stamped(job) \in TreeStates /\ StampTells(Stamped(job))
    BY <1>1, StampedTells
  <2>2. tree' = [tree EXCEPT ![job.of] = Stamped(job)] /\ gens' = gens + 1 /\ job' = NoJob
    BY <1>4 DEF Succeeds
  <2> QED BY <1>2, <1>3, <2>1, <2>2 DEF StampsInv
<1>5. CASE Fails
  <2>1. tree' = [tree EXCEPT ![job.of] = job.aside] /\ gens' = gens /\ job' = NoJob
    BY <1>5 DEF Fails
  <2> QED BY <1>2, <1>3, <2>1 DEF StampsInv
<1> QED BY <1>4, <1>5

\* Before the first build nothing is there.
LEMMA FreshStarts == FreshInit => FreshInv
<1> SUFFICES ASSUME FreshInit PROVE FreshInv
  OBVIOUS
<1>0. tree \in [Trees -> TreeStates]
  BY AbsentTells DEF FreshInit
<1>f. vcs \in BOOLEAN /\ held \in BOOLEAN /\ fed \in BOOLEAN
  BY Zenon DEF FreshInit
<1>1. FreshTypeOK
  BY <1>0, <1>f DEF FreshInit, FreshTypeOK, Versions
<1>2. StampsInv
  BY AbsentTells DEF FreshInit, StampsInv
<1> QED BY <1>1, <1>2 DEF FreshInit, FreshInv, HeldFresh, MeasuredInv

\* Every step keeps what the stamps, the leases and the record say.
LEMMA FreshKeeps == FreshInv /\ [FreshNext]_freshVars => FreshInv'
<1> SUFFICES ASSUME FreshInv, [FreshNext]_freshVars PROVE FreshInv'
  OBVIOUS
<1> USE IdleHasNoBuilder
<1>t. FreshTypeOK /\ StampsInv /\ HeldFresh /\ MeasuredInv /\ ~fed
  BY DEF FreshInv
\* A step that leaves trees and jobs alone, and the record and the uses too.
<1>s. ASSUME UNCHANGED <<tree, job>> PROVE StampsInv'
  BY <1>s, <1>t DEF StampsInv, StampTells
<1>m. ASSUME UNCHANGED <<mode, pin, measured>>, at' # "running" \/ at = "running" PROVE MeasuredInv'
  BY <1>m, <1>t DEF MeasuredInv
<1>1. CASE UNCHANGED freshVars
  <2>1. FreshTypeOK'
    BY <1>1, <1>t DEF freshVars, FreshTypeOK
  <2> QED BY <1>1, <1>t, <1>s, <1>m, <2>1 DEF freshVars, FreshInv, HeldFresh
<1>2. ASSUME Validate \/ ValidateFails \/ Probe \/ SetupDeclined \/ After \/ CoverageSkipped
      PROVE  FreshInv'
  <2>1. UNCHANGED <<env, gens, mode, pin, measured, fed, kills, tree, job, marker, held>>
    BY <1>2 DEF Validate, ValidateFails, Probe, SetupDeclined, After, CoverageSkipped, Stay
  <2>2. at' \in {"refused", "hold", "probe", "coverage", "setup", "after"} /\ at \notin {"verify", "running"}
    BY <1>2 DEF Validate, ValidateFails, Probe, SetupDeclined, After, CoverageSkipped, Go
  <2>3. FreshTypeOK'
    BY <1>t, <2>1, <2>2 DEF FreshTypeOK, env
  <2>4. HeldFresh'
    BY <1>t, <2>1, <2>2 DEF HeldFresh
  <2> QED BY <1>t, <1>s, <1>m, <2>1, <2>2, <2>3, <2>4 DEF FreshInv
<1>3. ASSUME Setup \/ Coverage PROVE FreshInv'
  <2>1. UNCHANGED <<env, gens, mode, pin, measured, fed, kills, marker, held>>
    BY <1>3 DEF Setup, Coverage, Stay
  <2>2. at' \in {"building", "sibling"} /\ at \notin {"verify", "running"}
    BY <1>3 DEF Setup, Coverage, Go
  <2>3. PICK t \in Trees : Start("run", t)
    BY <1>3 DEF Setup, Coverage, Trees
  <2>4. /\ tree' \in [Trees -> TreeStates] /\ job' \in BuildJobs
        /\ \A s \in Trees : StampTells(tree'[s])
        /\ StampTells(job'.aside) /\ job'.who = "run"
    BY <1>t, <2>3, StartTells
  <2>5. FreshTypeOK'
    BY <1>t, <2>1, <2>2, <2>4 DEF FreshTypeOK, env
  <2>6. StampsInv'
    BY <2>4 DEF StampsInv, StampTells
  <2>7. HeldFresh'
    BY <1>t, <2>1, <2>2, <2>4 DEF HeldFresh
  <2> QED BY <1>t, <1>m, <2>1, <2>2, <2>5, <2>6, <2>7 DEF FreshInv
<1>4. ASSUME SetupEnds \/ SiblingEnds PROVE FreshInv'
  <2>1. UNCHANGED <<env, mode, pin, measured, fed, kills, held>>
    BY <1>4 DEF SetupEnds, SiblingEnds
  <2>2. at' \in {"after", "hold"} /\ at \in {"building", "sibling"} /\ (Succeeds \/ Fails)
    BY <1>4 DEF SetupEnds, SiblingEnds, Go
  <2>3. /\ tree' \in [Trees -> TreeStates] /\ job' = NoJob /\ gens' \in Nat
        /\ \A s \in Trees : StampTells(tree'[s])
    BY <1>t, <2>2, EndTells
  <2>4. FreshTypeOK'
    BY <1>t, <2>1, <2>2, <2>3 DEF FreshTypeOK, env, NoJob
  <2>5. StampsInv'
    BY <2>3 DEF StampsInv, StampTells, NoJob
  <2>6. HeldFresh'
    BY <1>t, <2>1, <2>2 DEF HeldFresh
  <2> QED BY <1>t, <1>m, <2>1, <2>2, <2>4, <2>5, <2>6 DEF FreshInv
<1>5. ASSUME PeerBuilds PROVE FreshInv'
  <2>1. UNCHANGED <<env, mode, at, held, pin, measured, fed, kills, gens>> /\ ~held /\ job = NoJob
    BY <1>5 DEF PeerBuilds, run, Start
  <2>2. Start("peer", "asan") /\ "asan" \in Trees
    BY <1>5 DEF PeerBuilds, Trees
  <2>3. /\ tree' \in [Trees -> TreeStates] /\ job' \in BuildJobs
        /\ \A s \in Trees : StampTells(tree'[s])
        /\ StampTells(job'.aside)
    BY <1>t, <2>2, StartTells
  <2>4. FreshTypeOK'
    BY <1>t, <2>1, <2>3 DEF FreshTypeOK, env
  <2>5. StampsInv'
    BY <2>3 DEF StampsInv, StampTells
  <2>6. HeldFresh'
    BY <1>t, <2>1 DEF HeldFresh
  <2> QED BY <1>t, <1>m, <2>1, <2>4, <2>5, <2>6 DEF FreshInv
<1>6. ASSUME PeerEnds PROVE FreshInv'
  <2>1. UNCHANGED <<env, mode, at, held, pin, measured, fed, kills>> /\ (Succeeds \/ Fails) /\ job.who = "peer"
    BY <1>6 DEF PeerEnds, run
  <2>2. /\ tree' \in [Trees -> TreeStates] /\ job' = NoJob /\ gens' \in Nat
        /\ \A s \in Trees : StampTells(tree'[s])
    BY <1>t, <2>1, EndTells
  <2>3. FreshTypeOK'
    BY <1>t, <2>1, <2>2 DEF FreshTypeOK, env, NoJob
  <2>4. StampsInv'
    BY <2>2 DEF StampsInv, StampTells, NoJob
  <2>5. HeldFresh'
    BY <1>t, <2>1, <2>2 DEF HeldFresh, NoJob
  <2> QED BY <1>t, <1>m, <2>1, <2>3, <2>4, <2>5 DEF FreshInv
<1>7. ASSUME Hold PROVE FreshInv'
  <2>1. UNCHANGED <<env, gens, mode, pin, measured, fed, kills, tree, job, marker>>
    BY <1>7 DEF Hold, Stay
  <2>2. at = "hold" /\ held' = (job = NoJob)
        /\ at' = IF job = NoJob \/ mode = "audit" THEN "verify" ELSE "refused"
    BY <1>7 DEF Hold, Go
  <2>3. FreshTypeOK'
    BY <1>t, <2>1, <2>2 DEF FreshTypeOK, env
  <2>4. HeldFresh'
    BY <1>t, <2>1, <2>2 DEF HeldFresh, NoJob
  <2> QED BY <1>t, <1>s, <1>m, <2>1, <2>2, <2>3, <2>4 DEF FreshInv
<1>8. ASSUME Verify PROVE FreshInv'
  <2>1. UNCHANGED <<env, gens, tree, job, marker, mode, measured, fed, kills>>
    BY <1>8 DEF Verify
  <2>2. /\ at = "verify" /\ at' = IF mode = "bench" /\ Problems THEN "refused" ELSE "running"
        /\ held' = (held /\ at' # "refused")
        /\ pin' = IF mode = "bench" /\ pin = NoJob /\ ~Problems THEN IdentityOf("asan") ELSE pin
    BY <1>8 DEF Verify, Go
  <2>3. FreshTypeOK'
    BY <1>t, <2>1, <2>2 DEF FreshTypeOK, env
  <2>4. HeldFresh'
    BY <1>t, <2>1, <2>2 DEF HeldFresh
  <2>5. pin' # NoJob \/ ~(mode = "bench" /\ at' = "running")
    BY <2>2, PinIsSomething DEF Trees
  <2>6. MeasuredInv'
    BY <1>t, <2>1, <2>2, <2>5, PinIsSomething DEF MeasuredInv, Trees, NoJob
  <2> QED BY <1>t, <1>s, <2>1, <2>3, <2>4, <2>6 DEF FreshInv
<1>9. ASSUME Cell PROVE FreshInv'
  <2>1. UNCHANGED <<env, gens, tree, job, marker, mode, at, held, pin, fed, kills>>
    BY <1>9 DEF Cell
  <2>2. pin # NoJob /\ pin.gen = tree["asan"].gen
    BY <1>9, <1>t DEF Cell, Pinned, IdentityOf, MeasuredInv
  <2>3. measured' = {pin.gen}
    BY <1>9, <1>t, <2>2 DEF Cell, MeasuredInv
  <2>4. FreshTypeOK'
    BY <1>t, <2>1 DEF FreshTypeOK, env
  <2>5. HeldFresh' /\ MeasuredInv'
    BY <1>t, <2>1, <2>2, <2>3 DEF HeldFresh, MeasuredInv
  <2> QED BY <1>t, <1>s, <2>1, <2>4, <2>5 DEF FreshInv
<1>10. ASSUME UseCoverage PROVE FreshInv'
  <2>1. UNCHANGED <<env, gens, tree, job, marker, mode, at, held, pin, measured, kills>>
    BY <1>10 DEF UseCoverage
  <2>2. "asan" \in Trees /\ "cov" \in Trees
    BY DEF Trees
  <2>3. ~(tree["cov"].made # tree["asan"].made /\ \A t \in Trees : tree[t].sig # Nothing /\ ~tree[t].raced)
    BY <1>10, <1>t, <2>2 DEF UseCoverage, SiblingUsable, StampsInv, StampTells
  <2>4. ~fed'
    BY <1>10, <1>t, <2>3 DEF UseCoverage
  <2>f. fed' \in BOOLEAN
    BY <1>10, Zenon DEF UseCoverage
  <2>5. FreshTypeOK'
    BY <1>t, <2>1, <2>f DEF FreshTypeOK, env
  <2>6. HeldFresh'
    BY <1>t, <2>1 DEF HeldFresh
  <2> QED BY <1>t, <1>s, <1>m, <2>1, <2>4, <2>5, <2>6 DEF FreshInv
<1>11. ASSUME Kill PROVE FreshInv'
  <2>1. UNCHANGED <<env, tree, marker, gens, mode, pin, measured, fed>> /\ held' = FALSE /\ at' = "validate"
        /\ (job' = NoJob \/ job' = job)
    BY <1>11 DEF Kill, Go
  <2>f. held' \in BOOLEAN
    BY <2>1, Zenon
  <2>j. job' = NoJob \/ job' \in BuildJobs
    BY <1>t, <2>1 DEF FreshTypeOK
  <2>w. UNCHANGED <<src, recipe, host, vcs, tree, gens, mode, fed>> /\ at' = "validate"
    BY <2>1 DEF env
  <2>2. FreshTypeOK'
    BY <1>t, <2>f, <2>j, <2>w DEF FreshTypeOK
  <2>3. StampsInv'
    BY <1>t, <2>1 DEF StampsInv, StampTells
  <2>4. HeldFresh'
    BY <2>1 DEF HeldFresh
  <2> QED BY <1>t, <1>m, <2>1, <2>2, <2>3, <2>4 DEF FreshInv
<1>12. ASSUME Change PROVE FreshInv'
  <2>1. UNCHANGED <<tree, job, marker, gens, mode, at, held, pin, measured, fed, kills>>
    BY <1>12 DEF Change, run
  <2>2. src' \in Versions /\ recipe' \in Versions /\ host' \in Versions
    <3>1. src \in 0..1 /\ recipe \in 0..1 /\ host \in 0..1
      BY <1>t DEF FreshTypeOK, Versions
    <3>2. /\ src' = 1 - src \/ src' = src
          /\ recipe' = 1 - recipe \/ recipe' = recipe
          /\ host' = 1 - host \/ host' = host
      BY <1>12, Zenon DEF Change
    <3> QED BY <3>1, <3>2, OtherVersion DEF Versions
  <2>f. vcs' \in BOOLEAN
    BY <1>12, <1>t, Zenon DEF Change, FreshTypeOK
  <2>3. FreshTypeOK'
    BY <1>t, <2>1, <2>2, <2>f DEF FreshTypeOK
  <2>4. HeldFresh'
    BY <1>t, <2>1 DEF HeldFresh
  <2> QED BY <1>t, <1>s, <1>m, <2>1, <2>3, <2>4 DEF FreshInv
<1> QED
  BY <1>1, <1>2, <1>3, <1>4, <1>5, <1>6, <1>7, <1>8, <1>9, <1>10, <1>11, <1>12 DEF FreshNext, Steps

\* For any kinds of run, builds, changes and kills (build_preflight.py,
\* target_config.py build_freshness): everything has its type.
THEOREM FreshTypeCorrect == FreshSpec => []FreshTypeOK
<1>1. FreshInv => FreshTypeOK
  BY DEF FreshInv
<1> QED BY <1>1, FreshStarts, FreshKeeps, PTL DEF FreshSpec

\* A tree read as fresh was compiled from the source and the recipe as they are
\* now, an edit during its build excepted (build_freshness); all cells of a
\* benchmark are measured on one generation (pinned_build_problems); and coverage
\* is read from a sibling of the primary's source (stale_reason).
THEOREM BuildsAreFresh == FreshSpec => [](FreshIsCurrent /\ OneGeneration /\ SiblingMatches)
<1>1. FreshInv => FreshIsCurrent
  <2> SUFFICES ASSUME FreshInv, NEW t \in Trees, Freshness(t) = "fresh", ~tree[t].raced
               PROVE  tree[t].made = src /\ tree[t].rec = recipe
    BY DEF FreshIsCurrent
  <2>1. tree[t].sig # Nothing /\ tree[t].srec = recipe /\ Signature # Nothing /\ Signature = tree[t].sig
    BY DEF Freshness
  <2>2. StampTells(tree[t])
    BY DEF FreshInv, StampsInv
  <2> QED BY <2>1, <2>2 DEF StampTells, Signature
<1>2. FreshInv => OneGeneration
  <2>1. \A g : Cardinality({g}) = 1
    BY FS_Singleton
  <2>2. Cardinality({}) = 0
    BY FS_EmptySet
  <2>3. FreshInv => measured = {} \/ measured = {pin.gen}
    BY DEF FreshInv, MeasuredInv
  <2>4. FreshInv => Cardinality(measured) = 0 \/ Cardinality(measured) = 1
    BY <2>1, <2>2, <2>3, Zenon
  <2> HIDE <2>1, <2>2, <2>3
  <2> QED BY <2>4 DEF OneGeneration
<1>3. FreshInv => SiblingMatches
  BY DEF FreshInv, SiblingMatches
<1> QED BY <1>1, <1>2, <1>3, FreshStarts, FreshKeeps, PTL DEF FreshSpec
=============================================================================
