-------------------------- MODULE DecisionsProofs --------------------------
(***************************************************************************)
(* For any callers, prompts, cap, thresholds, cooldown and pauses: the     *)
(* budget, the breakers and the limit file keep what they promise, and a   *)
(* drain gives up only for a reason.  And the fuzz harnesses: for any      *)
(* libraries, sources and builders, what a campaign is given and which     *)
(* function is offered.                                                    *)
(***************************************************************************)
EXTENDS Decisions, FuzzHarness, FiniteSetTheorems, TLAPS

\* Every variable keeps its type.
LEMMA TypeInit == Init => TypeOK
<1> SUFFICES ASSUME Init PROVE TypeOK
  OBVIOUS
<1>1. CallersOK
  BY DecisionsAssumption DEF Init, CallersOK, Idle, At, Outs
<1>2. CacheOK /\ BudgetOK
  <2>1. resetting \in BOOLEAN
    BY Zenon DEF Init
  <2>2. CacheOK
    BY DecisionsAssumption DEF Init, CacheOK, Entry, Clear
  <2>3. counter \in -1..Cap /\ lock \in Callers \cup {None}
    BY DecisionsAssumption DEF Init
  <2> QED BY <2>1, <2>2, <2>3 DEF BudgetOK
<1>3. DrainOK
  <2>1. Cardinality(Prompts) \in Nat /\ Asked["drain"] \subseteq Prompts
    BY DecisionsAssumption, FS_CardinalityType DEF Asked
  <2> QED BY <2>1, DecisionsAssumption DEF Init, DrainOK
<1>4. HistOK
  BY DecisionsAssumption DEF Init, HistOK
<1> QED BY <1>1, <1>2, <1>3, <1>4 DEF Init, TypeOK

LEMMA CallersStep ==
    ASSUME TypeOK, Next
    PROVE  CallersOK'
<1> USE DEF TypeOK
<1>1. ASSUME UNCHANGED caller PROVE CallersOK'
  BY <1>1 DEF CallersOK
<1>2. ASSUME NEW c \in Callers, Return(c) PROVE CallersOK'
  BY <1>2, DecisionsAssumption DEF Return, Idle, At, CallersOK, Outs
<1>3. ASSUME NEW c \in Callers, NEW p \in Prompts, NEW pc \in {"look", "call"},
             caller' = [caller EXCEPT ![c] = At(pc, p)]
      PROVE  CallersOK'
  <2>1. "ok" \in Outs /\ 0 \in 0..Cooldown /\ 0 \in 0..(Cap - 1)
    BY DecisionsAssumption DEF Outs
  <2> QED BY <1>3, <2>1 DEF At, CallersOK
<1>4. ASSUME NEW c \in Callers, NEW p \in Prompts, Ask(c, p) PROVE CallersOK'
  BY <1>3, <1>4 DEF Ask
<1>5. ASSUME NEW c \in Callers, caller[c].pc # "idle",
             NEW pc \in {"budget", "spend", "call", "trip", "note"},
             NEW retry \in SUBSET {"prompt", "type"}, NEW read \in 0..(Cap - 1), NEW out \in Outs,
             caller' = [caller EXCEPT ![c] = [pc |-> pc, p |-> caller[c].p, retry |-> retry,
                                              age |-> caller[c].age, read |-> read, out |-> out]]
      PROVE  CallersOK'
  BY <1>5 DEF CallersOK
<1>6. ASSUME NEW c \in Callers, Look(c) PROVE CallersOK'
  BY <1>2, <1>6 DEF Look, CallersOK
<1>7. ASSUME NEW c \in Callers, Read(c) PROVE CallersOK'
  BY <1>2, <1>7, DecisionsAssumption DEF Read, CallersOK, BudgetOK
<1>8. ASSUME NEW c \in Callers, Spend(c) PROVE CallersOK'
  <2>1. 0 \in 0..(Cap - 1)
    BY DecisionsAssumption
  <2> DEFINE new == [caller[c] EXCEPT !.pc = "call", !.read = 0]
  <2>2. caller[c].pc = "spend" /\ caller' = [caller EXCEPT ![c].pc = "call", ![c].read = 0]
    BY <1>8 DEF Spend
  <2>3. caller' = [caller EXCEPT ![c] = new]
    BY <2>2 DEF CallersOK
  <2>4. /\ new \in [pc : {"idle", "look", "budget", "spend", "call", "trip", "note"},
                    p : Prompts \cup {None}, retry : SUBSET {"prompt", "type"},
                    age : 0..Cooldown, read : 0..(Cap - 1), out : Outs]
        /\ new.p \in Prompts
    BY <2>1, <2>2 DEF CallersOK
  <2> HIDE DEF new
  <2> QED BY <2>3, <2>4 DEF CallersOK
<1>9. ASSUME NEW c \in Callers, Answer(c) PROVE CallersOK'
  BY <1>9 DEF Answer, CallersOK, Outcomes, Outs
<1>10. ASSUME NEW c \in Callers, Trip(c) PROVE CallersOK'
  BY <1>10 DEF Trip, Goto, CallersOK
<1>11. ASSUME NEW c \in Callers, Note(c) \/ Settle(c) \/ Die(c) PROVE CallersOK'
  BY <1>2, <1>11 DEF Note, Settle, Die
<1>12. CASE Tick
  BY <1>12, DecisionsAssumption DEF Tick, Older, CallersOK
<1>13. ASSUME NEW c \in Callers, NEW p \in Prompts, Take(c, p) PROVE CallersOK'
  BY <1>1, <1>3, <1>13 DEF Take
<1> QED
  BY <1>1, <1>4, <1>6, <1>7, <1>8, <1>9, <1>10, <1>11, <1>12, <1>13
  DEF Next, Step, Drive, Truncate, Reset, Recover, StartPass, EndPass, Expire

LEMMA CacheStep ==
    ASSUME TypeOK, Next
    PROVE  CacheOK'
<1> USE DEF TypeOK
<1>1. ASSUME UNCHANGED cache PROVE CacheOK'
  BY <1>1 DEF CacheOK, cache
<1>2. ASSUME NEW c \in Callers, Look(c) PROVE CacheOK'
  <2>1. caller[c].p \in Prompts
    BY <1>2 DEF Look, CallersOK
  <2>2. \A max \in Nat : \A e \in Entry(max) : Claimed(e, max) \in Entry(max)
    BY DecisionsAssumption DEF Claimed, Entry
  <2>3. \A p \in Prompts : prompt[p] \in Entry(PromptMax)
    BY DEF CacheOK
  <2>4. prompt' \in [Prompts -> Entry(PromptMax)]
    BY <1>2, <2>1, <2>2, <2>3, DecisionsAssumption DEF Look, CacheOK
  <2>5. class' = class \/ class' = Claimed(class, TypeMax)
    BY <1>2 DEF Look
  <2> QED BY <2>2, <2>4, <2>5, DecisionsAssumption DEF CacheOK
<1>3. ASSUME NEW c \in Callers, Trip(c) PROVE CacheOK'
  BY <1>3, DecisionsAssumption DEF Trip, CacheOK, CallersOK, Entry
<1>4. ASSUME NEW c \in Callers, Note(c) PROVE CacheOK'
  <2>1. caller[c].p \in Prompts /\ caller[c].out \in Outs
    BY <1>4 DEF Note, CallersOK
  <2>2. \A max \in Nat : \A e \in Entry(max) : Bump(e, max) \in Entry(max) /\ Clear \in Entry(max)
    BY DecisionsAssumption DEF Bump, Clear, Entry
  <2>3. prompt' \in [Prompts -> Entry(PromptMax)]
    BY <1>4, <2>1, <2>2, DecisionsAssumption DEF Note, CacheOK
  <2>4. class' \in {Clear, Bump(class, TypeMax), class}
    BY <1>4, <2>1 DEF Note, ArmsType
  <2> QED BY <2>2, <2>3, <2>4, DecisionsAssumption DEF CacheOK
<1>5. CASE Tick
  BY <1>5, DecisionsAssumption DEF Tick, Older, CacheOK, Entry
<1> QED
  BY <1>1, <1>2, <1>3, <1>4, <1>5
  DEF Next, Step, Drive, Ask, Read, Spend, Answer, Settle, Die, Truncate, Reset, Recover,
      StartPass, EndPass, Take, Expire

LEMMA BudgetStep ==
    ASSUME TypeOK, Next
    PROVE  BudgetOK'
<1> USE DEF TypeOK
<1>1. ASSUME UNCHANGED budget PROVE BudgetOK'
  BY <1>1 DEF BudgetOK, budget
<1>2. ASSUME NEW c \in Callers, Read(c) \/ Spend(c) \/ Die(c) PROVE BudgetOK'
  BY <1>2, DecisionsAssumption DEF Read, Spend, Die, BudgetOK, CallersOK
<1>3. CASE Truncate \/ Reset
  <2>1. resetting' \in BOOLEAN
    BY <1>3, Zenon DEF Truncate, Reset
  <2>2. counter' \in -1..Cap /\ lock' = lock
    BY <1>3, DecisionsAssumption DEF Truncate, Reset
  <2> QED BY <2>1, <2>2 DEF BudgetOK
<1> QED
  BY <1>1, <1>2, <1>3
  DEF Next, Step, Drive, Ask, Look, Answer, Trip, Note, Settle, Tick, Recover,
      StartPass, EndPass, Take, Expire

LEMMA PassStep ==
    ASSUME TypeOK, Next
    PROVE  DrainOK'
<1> USE DEF TypeOK
<1>1. ASSUME UNCHANGED passes PROVE DrainOK'
  BY <1>1 DEF DrainOK, passes
<1>2. CASE StartPass
  BY <1>2 DEF StartPass, DrainOK
<1>3. ASSUME NEW c \in Callers, NEW p \in Prompts, Take(c, p) PROVE DrainOK'
  BY <1>3 DEF Take, DrainOK
<1>4. ASSUME NEW c \in Callers, Settle(c) PROVE DrainOK'
  <2>1. limit' \subseteq Markers
    BY <1>4 DEF Settle, DrainOK
  <2>2. CASE drain' = drain
    BY <2>1, <2>2 DEF DrainOK
  <2>3. CASE drain' = [drain EXCEPT !.pending = @ \ {caller[c].p}]
    <3> DEFINE pending == drain.pending \ {caller[c].p}
    <3>1. drain' = [drain EXCEPT !.pending = pending] /\ pending \in SUBSET Prompts
      BY <2>3 DEF DrainOK
    <3> HIDE DEF pending
    <3> QED BY <2>1, <3>1 DEF DrainOK
  <2> QED BY <1>4, <2>2, <2>3 DEF Settle
<1>5. CASE Expire
  BY <1>5 DEF Expire, DrainOK
<1>6. CASE EndPass
  <2>1. drain.pending \subseteq Prompts
    BY DEF DrainOK
  <2>2. /\ Cardinality(drain.pending) \in Nat /\ Cardinality(Prompts) \in Nat
        /\ Cardinality(drain.pending) <= Cardinality(Prompts)
    BY <2>1, DecisionsAssumption, FS_Subset, FS_CardinalityType
  <2>3. drain' = [drain EXCEPT !.pc = "done"] \/ (drain' = Paused /\ (limit = {} \/ ~CapOutlasts))
    BY <1>6 DEF EndPass
  <2>4. drain.pauses \in 0..MaxPauses /\ limit' = limit
    BY <1>6 DEF EndPass, DrainOK
  <2>5. CASE drain' = Paused /\ (limit = {} \/ ~CapOutlasts)
    <3> DEFINE n == IF limit # {} THEN drain.pauses + 1 ELSE drain.pauses
    <3>1. n \in 0..MaxPauses
      BY <2>4, <2>5, DecisionsAssumption DEF CapOutlasts
    <3>2. drain' = [drain EXCEPT !.pc = "pause", !.before = Cardinality(drain.pending), !.pauses = n]
      BY <2>5 DEF Paused
    <3>3. Cardinality(drain.pending) \in 0..(Cardinality(Prompts) + 1)
      BY <2>2
    <3> HIDE DEF n
    <3> QED BY <2>4, <3>1, <3>2, <3>3 DEF DrainOK
  <2>6. CASE drain' = [drain EXCEPT !.pc = "done"]
    BY <2>4, <2>6 DEF DrainOK
  <2> QED BY <2>3, <2>5, <2>6
<1> QED
  BY <1>1, <1>2, <1>3, <1>4, <1>5, <1>6
  DEF Next, Step, Drive, Ask, Look, Read, Spend, Answer, Trip, Note, Die, Tick, Recover,
      Truncate, Reset

LEMMA HistStep ==
    ASSUME TypeOK, Next
    PROVE  HistOK'
<1> USE DEF TypeOK
<1>1. ASSUME UNCHANGED hist PROVE HistOK'
  BY <1>1 DEF HistOK
<1>2. ASSUME NEW c \in Callers, Look(c) PROVE HistOK'
  <2>1. hist' = hist \/ hist' = [hist EXCEPT !.sidelined = TRUE] \/ hist' = [hist EXCEPT !.sidelined = @]
    BY <1>2, Zenon DEF Look, HistOK
  <2> QED BY <2>1 DEF HistOK
<1>3. ASSUME NEW c \in Callers, Spend(c) PROVE HistOK'
  BY <1>3 DEF Spend, HistOK
<1>4. ASSUME NEW c \in Callers, Answer(c) PROVE HistOK'
  BY <1>4 DEF Answer, HistOK, CallersOK
<1>5. ASSUME NEW c \in Callers, Note(c) PROVE HistOK'
  BY <1>5, DecisionsAssumption DEF Note, HistOK
<1>6. ASSUME NEW c \in Callers, Settle(c) PROVE HistOK'
  <2>1. PICK o \in {"ok", "bad"} \cup Markers :
           hist' = [hist EXCEPT !.late = IF limit # {} THEN @ + 1 ELSE @,
                                !.settled = IF o = "ok" THEN @ + 1 ELSE @,
                                !.refused = @ \/ o = "refused"]
    BY <1>6 DEF Settle
  <2> DEFINE l == IF limit # {} THEN hist.late + 1 ELSE hist.late
             s == IF o = "ok" THEN hist.settled + 1 ELSE hist.settled
             r == hist.refused \/ o = "refused"
  <2>2. l \in Nat /\ s \in Nat
    BY DEF HistOK
  <2>3. r \in BOOLEAN
    BY Zenon
  <2>4. hist' = [hist EXCEPT !.late = l, !.settled = s, !.refused = r]
    BY <2>1
  <2> HIDE DEF l, s, r
  <2> QED BY <2>2, <2>3, <2>4 DEF HistOK
<1>7. CASE Reset
  BY <1>7 DEF Reset, HistOK
<1>8. CASE Recover
  <2>1. FALSE \in BOOLEAN /\ 0 \in 0..TypeMax
    BY DecisionsAssumption
  <2>2. hist' = [hist EXCEPT !.errors = 0, !.sidelined = FALSE]
    BY <1>8 DEF Recover
  <2> QED BY <2>1, <2>2 DEF HistOK
<1>9. CASE StartPass
  <2>1. hist' = hist \/ hist' = [hist EXCEPT !.late = 0, !.settled = 0]
    BY <1>9 DEF StartPass
  <2>2. CASE hist' = [hist EXCEPT !.late = 0, !.settled = 0]
    <3> DEFINE z == 0
    <3>1. z \in Nat /\ hist' = [hist EXCEPT !.late = z, !.settled = z]
      BY <2>2
    <3> HIDE DEF z
    <3> QED BY <3>1 DEF HistOK
  <2> QED BY <1>1, <2>1, <2>2
<1>10. CASE EndPass
  <2> DEFINE b == hist.blank \/ (limit = {} /\ hist.settled = 0)
             n == IF limit # {} /\ hist.capped <= MaxPauses THEN hist.capped + 1 ELSE hist.capped
  <2>1. n \in Nat
    BY DEF HistOK
  <2>2. b \in BOOLEAN
    BY Zenon
  <2>3. hist' = [hist EXCEPT !.blank = b, !.capped = n]
    BY <1>10 DEF EndPass
  <2> HIDE DEF b, n
  <2> QED BY <2>1, <2>2, <2>3 DEF HistOK
<1> QED
  BY <1>1, <1>2, <1>3, <1>4, <1>5, <1>6, <1>7, <1>8, <1>9, <1>10
  DEF Next, Step, Drive, Ask, Read, Trip, Die, Tick, Truncate, Take, Expire

\* Callers, cache, counter, drain and history keep their types.
THEOREM DecisionsTypeCorrect == Spec => []TypeOK
<1>1. TypeOK /\ [Next]_vars => TypeOK'
  <2> SUFFICES ASSUME TypeOK, [Next]_vars PROVE TypeOK'
    OBVIOUS
  <2>1. CASE UNCHANGED vars
    BY <2>1 DEF TypeOK, CallersOK, CacheOK, BudgetOK, DrainOK, HistOK, vars
  <2>2. CASE Next
    <3>1. env' \in {"audit", "sweep", "drain"}
      BY <2>2 DEF TypeOK, Next, Step, Drive, Ask, Look, Read, Spend, Answer, Trip, Note, Settle,
                  Die, Truncate, Reset, Tick, Recover, StartPass, EndPass, Take, Expire
    <3>2. trouble' \in BOOLEAN
      BY <2>2, Zenon DEF TypeOK, Next, Step, Drive, Ask, Look, Read, Spend, Answer, Trip, Note,
                  Settle, Die, Truncate, Reset, Tick, Recover, StartPass, EndPass, Take, Expire
    <3> QED BY <2>2, <3>1, <3>2, CallersStep, CacheStep, BudgetStep, PassStep, HistStep DEF TypeOK
  <2> QED BY <2>1, <2>2
<1> QED BY <1>1, TypeInit, PTL DEF Spec

-----------------------------------------------------------------------------
(* The budget *)

\* The lock has one holder, which will write one more than it read; what is
\* spent since a reset is counted, or about to be.
SpendInv ==
    /\ \A c \in Callers : caller[c].pc = "spend" <=> lock = c
    /\ ~resetting => /\ 0 <= hist.spent /\ hist.spent <= counter
                     /\ \A c \in Callers : caller[c].pc = "spend" => hist.spent <= caller[c].read
    /\ hist.spent <= Cap

\* A step of a caller that neither enters nor leaves the lock.
LEMMA SpendKept ==
    ASSUME TypeOK, SpendInv, UNCHANGED budget, hist'.spent = hist.spent,
           \A c \in Callers : /\ caller'[c].pc = "spend" <=> caller[c].pc = "spend"
                              /\ caller[c].pc = "spend" => caller'[c].read = caller[c].read
    PROVE  SpendInv'
BY DEF SpendInv, budget

LEMMA SpendStep ==
    ASSUME TypeOK, SpendInv, Next
    PROVE  SpendInv'
<1> USE DEF TypeOK
<1>1. ASSUME UNCHANGED <<caller, budget>>, hist'.spent = hist.spent PROVE SpendInv'
  BY <1>1, SpendKept
<1>2. ASSUME NEW c \in Callers, caller[c].pc # "spend", UNCHANGED budget, hist'.spent = hist.spent,
             NEW r, r.pc # "spend", caller' = [caller EXCEPT ![c] = r]
      PROVE  SpendInv'
  BY <1>2, SpendKept DEF CallersOK
<1>3. ASSUME NEW c \in Callers, Return(c), caller[c].pc # "spend", UNCHANGED budget,
             hist'.spent = hist.spent
      PROVE  SpendInv'
  <2>1. Idle.pc # "spend"
    BY DEF Idle, At
  <2> QED BY <1>2, <1>3, <2>1 DEF Return
<1>4. ASSUME NEW c \in Callers, NEW p \in Prompts, Ask(c, p) \/ Take(c, p) PROVE SpendInv'
  <2>1. At("look", p).pc # "spend" /\ At("call", p).pc # "spend"
    BY DEF At
  <2> QED BY <1>1, <1>2, <1>4, <2>1 DEF Ask, Take
<1>5. ASSUME NEW c \in Callers, Look(c) PROVE SpendInv'
  <2>1. caller[c].pc # "spend" /\ UNCHANGED budget /\ hist'.spent = hist.spent
    BY <1>5 DEF Look, HistOK
  <2>2. \A d \in Callers : caller'[d].pc # "spend" \/ (d # c /\ caller'[d] = caller[d])
    BY <1>5 DEF Look, Return, Idle, At, CallersOK
  <2>3. \A d \in Callers : d # c => caller'[d] = caller[d]
    BY <1>5 DEF Look, Return, CallersOK
  <2> QED BY <2>1, <2>2, <2>3, SpendKept
<1>6. ASSUME NEW c \in Callers, Read(c) PROVE SpendInv'
  <2> DEFINE v == IF counter < 0 THEN 0 ELSE counter
  <2>1. /\ caller[c].pc = "budget" /\ lock = None /\ UNCHANGED <<counter, resetting, hist>>
        /\ \A d \in Callers : d # c => caller'[d] = caller[d]
    BY <1>6 DEF Read, Locks, Return, CallersOK
  <2>2. CASE v >= Cap
    <3>1. UNCHANGED budget /\ Return(c)
      BY <1>6, <2>2 DEF Read, budget
    <3> QED BY <1>3, <2>1, <3>1
  <2>3. CASE ~(v >= Cap)
    <3>1. lock' = c /\ caller'[c].pc = "spend" /\ caller'[c].read = v
      BY <1>6, <2>3 DEF Read, CallersOK
    <3>2. \A d \in Callers : caller'[d].pc = "spend" <=> lock' = d
      BY <2>1, <3>1, DecisionsAssumption DEF SpendInv
    <3>3. ~resetting => hist.spent <= v
      BY DEF SpendInv, HistOK, BudgetOK
    <3>4. \A d \in Callers : caller'[d].pc = "spend" => d = c
      BY <2>1, <3>1, <3>2
    <3> QED BY <2>1, <3>1, <3>2, <3>3, <3>4 DEF SpendInv
  <2> QED BY <2>2, <2>3
<1>7. ASSUME NEW c \in Callers, Spend(c) PROVE SpendInv'
  <2>1. /\ caller[c].pc = "spend" /\ counter' = caller[c].read + 1 /\ lock' = None
        /\ resetting' = resetting /\ caller'[c].pc = "call"
        /\ hist'.spent = IF resetting THEN hist.spent ELSE hist.spent + 1
        /\ \A d \in Callers : d # c => caller'[d] = caller[d]
    BY <1>7 DEF Spend, CallersOK, HistOK
  <2>2. \A d \in Callers : caller'[d].pc # "spend"
    BY <2>1, DecisionsAssumption DEF SpendInv
  <2>3. caller[c].read \in 0..(Cap - 1) /\ hist.spent \in Nat
    BY DEF CallersOK, HistOK
  <2>4. ~resetting => hist.spent <= caller[c].read
    BY <2>1 DEF SpendInv
  <2>5. \A d \in Callers : lock' # d
    BY <2>1, DecisionsAssumption
  <2> QED BY <2>1, <2>2, <2>3, <2>4, <2>5, DecisionsAssumption DEF SpendInv
<1>8. ASSUME NEW c \in Callers, Answer(c) PROVE SpendInv'
  <2>1. /\ caller[c].pc = "call" /\ UNCHANGED budget /\ hist'.spent = hist.spent
        /\ \A d \in Callers : d # c => caller'[d] = caller[d]
        /\ caller'[c].pc # "spend"
    BY <1>8 DEF Answer, CallersOK, HistOK
  <2> QED BY <2>1, SpendKept
<1>9. ASSUME NEW c \in Callers, Trip(c) PROVE SpendInv'
  <2>1. /\ caller[c].pc = "trip" /\ UNCHANGED budget /\ hist'.spent = hist.spent
        /\ \A d \in Callers : d # c => caller'[d] = caller[d]
        /\ caller'[c].pc # "spend"
    BY <1>9 DEF Trip, Goto, CallersOK, HistOK
  <2> QED BY <2>1, SpendKept
<1>10. ASSUME NEW c \in Callers, Note(c) \/ Settle(c) PROVE SpendInv'
  <2>1. caller[c].pc # "spend" /\ UNCHANGED budget /\ Return(c) /\ hist'.spent = hist.spent
    BY <1>10 DEF Note, Settle, HistOK
  <2> QED BY <1>3, <2>1
<1>11. ASSUME NEW c \in Callers, Die(c) PROVE SpendInv'
  <2>1. /\ caller'[c].pc = "idle" /\ \A d \in Callers : d # c => caller'[d] = caller[d]
        /\ lock' = (IF lock = c THEN None ELSE lock) /\ UNCHANGED <<counter, resetting, hist>>
    BY <1>11 DEF Die, Return, Idle, At, CallersOK
  <2>2. \A d \in Callers : caller'[d].pc = "spend" <=> lock' = d
    BY <2>1, DecisionsAssumption DEF SpendInv
  <2> QED BY <2>1, <2>2 DEF SpendInv
<1>12. CASE Truncate
  <2>1. resetting' /\ UNCHANGED <<caller, lock, hist>>
    BY <1>12 DEF Truncate
  <2> QED BY <2>1 DEF SpendInv
<1>13. CASE Reset
  <2>1. counter' = 0 /\ hist'.spent = 0 /\ UNCHANGED <<caller, lock>>
    BY <1>13 DEF Reset, HistOK
  <2>2. \A c \in Callers : caller[c].read \in Nat
    BY DecisionsAssumption DEF CallersOK
  <2> QED BY <2>1, <2>2, DecisionsAssumption DEF SpendInv
<1>14. CASE Tick
  <2>1. UNCHANGED <<budget, hist>> /\ \A d \in Callers : /\ caller'[d].pc = caller[d].pc
                                                       /\ caller'[d].read = caller[d].read
    BY <1>14 DEF Tick, Older, CallersOK
  <2> QED BY <2>1, SpendKept
<1>15. CASE Recover \/ StartPass \/ EndPass \/ Expire
  <2>1. UNCHANGED <<caller, budget>> /\ hist'.spent = hist.spent
    BY <1>15 DEF Recover, StartPass, EndPass, Expire, HistOK
  <2> QED BY <1>1, <2>1
<1> QED
  BY <1>4, <1>5, <1>6, <1>7, <1>8, <1>9, <1>10, <1>11, <1>12, <1>13, <1>14, <1>15
  DEF Next, Step, Drive

-----------------------------------------------------------------------------
(* The breakers *)

\* A breaker that is still open was stamped no earlier than the retries that
\* claimed it, so the next claim finds all of them a cooldown old.
RetryInv ==
    /\ \A c \in Callers : caller[c].pc \in {"idle", "look"} => caller[c].retry = {} /\ caller[c].age = 0
    /\ \A c \in Callers :
          /\ ("prompt" \in caller[c].retry /\ Tripped(prompt[caller[c].p], PromptMax))
                => prompt[caller[c].p].age <= caller[c].age
          /\ ("type" \in caller[c].retry /\ Tripped(class, TypeMax)) => class.age <= caller[c].age
    /\ \A c, d \in Callers : c # d =>
          /\ ("prompt" \in caller[c].retry \cap caller[d].retry /\ caller[c].p = caller[d].p)
                => caller[c].age >= Cooldown \/ caller[d].age >= Cooldown
          /\ "type" \in caller[c].retry \cap caller[d].retry
                => caller[c].age >= Cooldown \/ caller[d].age >= Cooldown

LEMMA RetriesApart == ASSUME TypeOK, RetryInv PROVE OneRetryPerWindow
<1> SUFFICES ASSUME NEW c \in Callers, NEW d \in Callers, c # d,
                    NEW x \in (caller[c].retry \cap caller[d].retry)
                                \ (IF caller[c].p = caller[d].p THEN {} ELSE {"prompt"})
             PROVE  caller[c].age >= Cooldown \/ caller[d].age >= Cooldown
  BY DEF OneRetryPerWindow
<1>1. x \in {"prompt", "type"} /\ (x = "prompt" => caller[c].p = caller[d].p)
  BY DEF TypeOK, CallersOK
<1> QED BY <1>1 DEF RetryInv

\* An entry is left alone, stamped now or cleared.
Restamped(e, f, max) == f = e \/ f.age = 0 \/ ~Tripped(f, max)

\* A caller keeps its retries and their age, or gives them up.
KeepsRetry(c) ==
    /\ caller'[c].retry = {} \/ (/\ caller'[c].p = caller[c].p
                                 /\ caller'[c].retry = caller[c].retry
                                 /\ caller'[c].age = caller[c].age)
    /\ caller'[c].pc \in {"idle", "look"} => caller'[c].retry = {} /\ caller'[c].age = 0

\* Steps that claim no retry and let no time pass.
LEMMA RetryKept ==
    ASSUME TypeOK, TypeOK', RetryInv, \A c \in Callers : KeepsRetry(c),
           \A p \in Prompts : Restamped(prompt[p], prompt'[p], PromptMax),
           Restamped(class, class', TypeMax)
    PROVE  RetryInv'
<1>1. \A c \in Callers : caller'[c].pc \in {"idle", "look"} => caller'[c].retry = {} /\ caller'[c].age = 0
  BY DEF KeepsRetry
<1>2. ASSUME NEW c \in Callers
      PROVE  /\ ("prompt" \in caller'[c].retry /\ Tripped(prompt'[caller'[c].p], PromptMax))
                   => prompt'[caller'[c].p].age <= caller'[c].age
             /\ ("type" \in caller'[c].retry /\ Tripped(class', TypeMax)) => class'.age <= caller'[c].age
  <2> SUFFICES ASSUME caller'[c].retry # {}
               PROVE  /\ ("prompt" \in caller'[c].retry /\ Tripped(prompt'[caller'[c].p], PromptMax))
                            => prompt'[caller'[c].p].age <= caller'[c].age
                      /\ ("type" \in caller'[c].retry /\ Tripped(class', TypeMax))
                            => class'.age <= caller'[c].age
    OBVIOUS
  <2>1. /\ caller'[c].p = caller[c].p /\ caller'[c].retry = caller[c].retry
        /\ caller'[c].age = caller[c].age /\ caller'[c].pc \notin {"idle", "look"}
    BY DEF KeepsRetry
  <2>2. caller[c].p \in Prompts /\ caller[c].age \in 0..Cooldown
    BY <2>1 DEF TypeOK, CallersOK
  <2>3. Restamped(prompt[caller[c].p], prompt'[caller[c].p], PromptMax)
    BY <2>2
  <2>4. ("prompt" \in caller[c].retry /\ Tripped(prompt'[caller[c].p], PromptMax))
           => prompt'[caller[c].p].age <= caller[c].age
    BY <2>2, <2>3, DecisionsAssumption DEF Restamped, RetryInv
  <2>5. ("type" \in caller[c].retry /\ Tripped(class', TypeMax)) => class'.age <= caller[c].age
    BY <2>2, DecisionsAssumption DEF Restamped, RetryInv
  <2> QED BY <2>1, <2>4, <2>5
<1>3. ASSUME NEW c \in Callers, NEW d \in Callers, c # d
      PROVE  /\ ("prompt" \in caller'[c].retry \cap caller'[d].retry /\ caller'[c].p = caller'[d].p)
                   => caller'[c].age >= Cooldown \/ caller'[d].age >= Cooldown
             /\ "type" \in caller'[c].retry \cap caller'[d].retry
                   => caller'[c].age >= Cooldown \/ caller'[d].age >= Cooldown
  <2>1. CASE caller'[c].retry = {} \/ caller'[d].retry = {}
    BY <2>1
  <2>2. CASE caller'[c].retry # {} /\ caller'[d].retry # {}
    BY <1>3, <2>2 DEF KeepsRetry, RetryInv
  <2> QED BY <2>1, <2>2
<1> QED BY <1>1, <1>2, <1>3 DEF RetryInv

LEMMA RetryStep ==
    ASSUME TypeOK, TypeOK', RetryInv, Next
    PROVE  RetryInv'
<1> USE DEF TypeOK
<1>1. ASSUME UNCHANGED cache
      PROVE  /\ \A p \in Prompts : Restamped(prompt[p], prompt'[p], PromptMax)
             /\ Restamped(class, class', TypeMax)
  BY <1>1 DEF Restamped, cache
<1>2. ASSUME NEW c \in Callers, \A d \in Callers : d # c => caller'[d] = caller[d], KeepsRetry(c)
      PROVE  \A d \in Callers : KeepsRetry(d)
  BY <1>2 DEF KeepsRetry, RetryInv
<1>3. ASSUME NEW c \in Callers, Return(c) PROVE \A d \in Callers : KeepsRetry(d)
  <2>1. caller'[c] = Idle /\ \A d \in Callers : d # c => caller'[d] = caller[d]
    BY <1>3 DEF Return, CallersOK
  <2> QED BY <1>2, <2>1 DEF KeepsRetry, Idle, At
<1>4. ASSUME UNCHANGED <<caller, cache>> PROVE RetryInv'
  <2>1. \A d \in Callers : KeepsRetry(d)
    BY <1>4 DEF KeepsRetry, RetryInv
  <2> QED BY <1>1, <1>4, <2>1, RetryKept DEF TypeOK
<1>5. ASSUME NEW c \in Callers, NEW p \in Prompts, Ask(c, p) \/ Take(c, p) PROVE RetryInv'
  <2>1. CASE UNCHANGED caller
    BY <1>4, <1>5, <2>1 DEF Ask, Take, cache
  <2>2. CASE caller' # caller
    <3>1. /\ caller'[c] = At("look", p) \/ caller'[c] = At("call", p)
          /\ \A d \in Callers : d # c => caller'[d] = caller[d]
      BY <1>5, <2>2 DEF Ask, Take, CallersOK
    <3>2. \A d \in Callers : KeepsRetry(d)
      BY <1>2, <3>1 DEF KeepsRetry, At
    <3> QED BY <1>1, <1>5, <3>2, RetryKept DEF Ask, Take, TypeOK
  <2> QED BY <2>1, <2>2
<1>6. ASSUME NEW c \in Callers, Read(c) \/ Spend(c) \/ Answer(c) PROVE RetryInv'
  <2>1. UNCHANGED cache
    BY <1>6 DEF Read, Spend, Answer
  <2>2. CASE Return(c)
    BY <1>1, <1>3, <2>1, <2>2, RetryKept DEF TypeOK
  <2>3. CASE ~Return(c)
    <3>1. /\ \A d \in Callers : d # c => caller'[d] = caller[d]
          /\ caller'[c].pc \in {"spend", "call", "trip", "note"} /\ caller'[c].p = caller[c].p
          /\ caller'[c].retry = caller[c].retry /\ caller'[c].age = caller[c].age
      <4>1. CASE Read(c)
        BY <2>3, <4>1 DEF Read, CallersOK
      <4>2. CASE Spend(c)
        BY <4>2 DEF Spend, CallersOK
      <4>3. CASE Answer(c)
        BY <4>3 DEF Answer, CallersOK
      <4> QED BY <1>6, <4>1, <4>2, <4>3
    <3>2. \A d \in Callers : KeepsRetry(d)
      BY <1>2, <3>1 DEF KeepsRetry
    <3> QED BY <1>1, <2>1, <3>2, RetryKept DEF TypeOK
  <2> QED BY <2>2, <2>3
<1>7. ASSUME NEW c \in Callers, Trip(c) PROVE RetryInv'
  <2>1. /\ \A d \in Callers : d # c => caller'[d] = caller[d]
        /\ caller'[c].pc = "note" /\ caller'[c].p = caller[c].p
        /\ caller'[c].retry = caller[c].retry /\ caller'[c].age = caller[c].age
    BY <1>7 DEF Trip, Goto, CallersOK
  <2>2. \A d \in Callers : KeepsRetry(d)
    BY <1>2, <2>1 DEF KeepsRetry
  <2>3. \A p \in Prompts : Restamped(prompt[p], prompt'[p], PromptMax)
    BY <1>7 DEF Trip, Restamped, CacheOK
  <2>4. Restamped(class, class', TypeMax)
    BY <1>7 DEF Trip, Restamped
  <2> QED BY <2>2, <2>3, <2>4, RetryKept DEF TypeOK
<1>8. ASSUME NEW c \in Callers, Note(c) PROVE RetryInv'
  <2>1. \A d \in Callers : KeepsRetry(d)
    BY <1>3, <1>8 DEF Note
  <2>2. ~Tripped(Clear, PromptMax) /\ ~Tripped(Clear, TypeMax)
    BY DecisionsAssumption DEF Tripped, Clear
  <2>3. \A e, max : Bump(e, max).age = 0
    BY DEF Bump
  <2>4. \A p \in Prompts : Restamped(prompt[p], prompt'[p], PromptMax)
    BY <1>8, <2>2, <2>3 DEF Note, Restamped, CacheOK
  <2>5. Restamped(class, class', TypeMax)
    BY <1>8, <2>2, <2>3 DEF Note, Restamped
  <2> QED BY <2>1, <2>4, <2>5, RetryKept DEF TypeOK
<1>9. ASSUME NEW c \in Callers, Settle(c) \/ Die(c) PROVE RetryInv'
  <2>1. Return(c) /\ UNCHANGED cache
    BY <1>9 DEF Settle, Die
  <2> QED BY <1>1, <1>3, <2>1, RetryKept DEF TypeOK
<1>10. ASSUME NEW c \in Callers, Look(c) PROVE RetryInv'
  <2> DEFINE p == caller[c].p
             e == prompt[p]
  <2>1. p \in Prompts /\ caller[c].retry = {} /\ caller[c].age = 0
    BY <1>10 DEF Look, CallersOK, RetryInv
  <2>2. \A f, max : Restamped(f, Claimed(f, max), max)
    BY DEF Restamped, Claimed
  <2>3. \A q \in Prompts : prompt'[q] = IF q = p THEN Claimed(e, PromptMax) ELSE prompt[q]
    BY <1>10 DEF Look, CacheOK
  <2>4. \A q \in Prompts : Restamped(prompt[q], prompt'[q], PromptMax)
    BY <2>2, <2>3 DEF Restamped
  <2>5. CASE Return(c) /\ UNCHANGED class
    BY <1>3, <2>4, <2>5, RetryKept DEF Restamped, TypeOK
  <2>6. CASE /\ ~Skips(e, PromptMax) /\ ~Skips(class, TypeMax) /\ class' = Claimed(class, TypeMax)
             /\ caller' = [caller EXCEPT
                  ![c].pc = IF env = "audit" THEN "budget" ELSE "call",
                  ![c].retry = (IF Tripped(e, PromptMax) THEN {"prompt"} ELSE {})
                                 \cup (IF Tripped(class, TypeMax) THEN {"type"} ELSE {})]
    <3>1. /\ caller'[c].pc \in {"budget", "call"} /\ caller'[c].p = p /\ caller'[c].age = 0
          /\ "prompt" \in caller'[c].retry => Tripped(e, PromptMax)
          /\ "type" \in caller'[c].retry => Tripped(class, TypeMax)
          /\ \A d \in Callers : d # c => caller'[d] = caller[d]
      BY <2>1, <2>6 DEF CallersOK
    <3>2. "prompt" \in caller'[c].retry => prompt'[p].age = 0 /\ e.age >= Cooldown
      <4>1. e \in Entry(PromptMax)
        BY <2>1 DEF CacheOK
      <4>2. "prompt" \in caller'[c].retry => Claims(e, PromptMax) /\ ~Cooling(e)
        BY <2>6, <3>1 DEF Claims, Skips
      <4>3. "prompt" \in caller'[c].retry => prompt'[p] = [e EXCEPT !.age = 0]
        BY <2>1, <2>3, <4>2 DEF Claimed
      <4> QED BY <4>1, <4>2, <4>3, DecisionsAssumption DEF Entry, Cooling
    <3>3. "type" \in caller'[c].retry => class'.age = 0 /\ class.age >= Cooldown
      <4>1. class \in Entry(TypeMax)
        BY DEF CacheOK
      <4>2. "type" \in caller'[c].retry => Claims(class, TypeMax) /\ ~Cooling(class)
        BY <2>6, <3>1 DEF Claims, Skips
      <4>3. "type" \in caller'[c].retry => class' = [class EXCEPT !.age = 0]
        BY <2>6, <4>2 DEF Claimed
      <4> QED BY <4>1, <4>2, <4>3, DecisionsAssumption DEF Entry, Cooling
    <3>4. Restamped(class, class', TypeMax)
      BY <2>2, <2>6
    <3>5. ASSUME NEW d \in Callers, d # c
          PROVE  /\ ("prompt" \in caller[d].retry /\ Tripped(prompt'[caller[d].p], PromptMax))
                       => prompt'[caller[d].p].age <= caller[d].age
                 /\ ("type" \in caller[d].retry /\ Tripped(class', TypeMax))
                       => class'.age <= caller[d].age
      <4>1. caller[d].retry # {} => caller[d].p \in Prompts
        BY DEF RetryInv, CallersOK
      <4>2. caller[d].age \in Nat
        BY DecisionsAssumption DEF CallersOK
      <4>3. ("prompt" \in caller[d].retry /\ Tripped(prompt'[caller[d].p], PromptMax))
               => prompt'[caller[d].p].age <= caller[d].age
        BY <2>4, <4>1, <4>2 DEF Restamped, RetryInv
      <4>4. ("type" \in caller[d].retry /\ Tripped(class', TypeMax)) => class'.age <= caller[d].age
        BY <3>4, <4>2 DEF Restamped, RetryInv
      <4> QED BY <4>3, <4>4
    <3>6. ASSUME NEW d \in Callers
          PROVE  /\ ("prompt" \in caller'[d].retry /\ Tripped(prompt'[caller'[d].p], PromptMax))
                       => prompt'[caller'[d].p].age <= caller'[d].age
                 /\ ("type" \in caller'[d].retry /\ Tripped(class', TypeMax))
                       => class'.age <= caller'[d].age
      BY <3>1, <3>2, <3>3, <3>5
    <3>7. ASSUME NEW d \in Callers, d # c
          PROVE  /\ ("prompt" \in caller'[c].retry \cap caller'[d].retry /\ caller'[c].p = caller'[d].p)
                       => caller'[d].age >= Cooldown
                 /\ "type" \in caller'[c].retry \cap caller'[d].retry => caller'[d].age >= Cooldown
      <4>1. caller'[d] = caller[d] /\ caller[d].age \in Nat /\ e.age \in Nat /\ class.age \in Nat
        BY <2>1, <3>1, <3>7, DecisionsAssumption DEF CallersOK, CacheOK, Entry
      <4>2. ("prompt" \in caller'[c].retry /\ "prompt" \in caller[d].retry /\ caller[d].p = p)
               => e.age <= caller[d].age
        BY <3>1 DEF RetryInv
      <4>3. ("type" \in caller'[c].retry /\ "type" \in caller[d].retry) => class.age <= caller[d].age
        BY <3>1 DEF RetryInv
      <4> QED BY <3>1, <3>2, <3>3, <4>1, <4>2, <4>3, DecisionsAssumption
    <3>8. ASSUME NEW b \in Callers, NEW d \in Callers, b # d
          PROVE  /\ ("prompt" \in caller'[b].retry \cap caller'[d].retry /\ caller'[b].p = caller'[d].p)
                       => caller'[b].age >= Cooldown \/ caller'[d].age >= Cooldown
                 /\ "type" \in caller'[b].retry \cap caller'[d].retry
                       => caller'[b].age >= Cooldown \/ caller'[d].age >= Cooldown
      <4>1. CASE b = c
        BY <3>7, <3>8, <4>1
      <4>2. CASE d = c
        BY <3>7, <3>8, <4>2
      <4>3. CASE b # c /\ d # c
        BY <3>1, <3>8, <4>3 DEF RetryInv
      <4> QED BY <4>1, <4>2, <4>3
    <3>9. \A d \in Callers : caller'[d].pc \in {"idle", "look"} => caller'[d].retry = {} /\ caller'[d].age = 0
      BY <3>1 DEF RetryInv
    <3> QED BY <3>6, <3>8, <3>9 DEF RetryInv
  <2> QED BY <1>10, <2>5, <2>6 DEF Look
<1>11. CASE Tick
  <2> DEFINE Up(n) == IF n < Cooldown THEN n + 1 ELSE n
  <2>1. /\ \A q \in Prompts : prompt'[q].n = prompt[q].n /\ prompt'[q].age = Up(prompt[q].age)
        /\ class'.n = class.n /\ class'.age = Up(class.age)
    BY <1>11 DEF Tick, Older, CacheOK, Entry
  <2>2. \A c \in Callers : /\ caller'[c].pc = caller[c].pc /\ caller'[c].p = caller[c].p
                           /\ caller'[c].retry = caller[c].retry
                           /\ caller'[c].age = IF caller[c].retry = {} THEN caller[c].age
                                               ELSE Up(caller[c].age)
    BY <1>11 DEF Tick, Older, CallersOK
  <2>3. \A c \in Callers : caller[c].age \in 0..Cooldown
        /\ (caller[c].retry # {} => caller[c].p \in Prompts)
    BY DEF CallersOK, RetryInv
  <2>4. \A q \in Prompts : prompt[q].age \in 0..Cooldown
    BY DEF CacheOK, Entry
  <2>5. class.age \in 0..Cooldown
    BY DEF CacheOK, Entry
  <2>6. \A m, n \in 0..Cooldown : (m <= n => Up(m) <= Up(n)) /\ (m >= Cooldown => Up(m) >= Cooldown)
    BY DecisionsAssumption
  <2> HIDE DEF Up
  <2>7. \A c \in Callers : caller'[c].pc \in {"idle", "look"} => caller'[c].retry = {} /\ caller'[c].age = 0
    BY <2>2 DEF RetryInv
  <2>8. ASSUME NEW c \in Callers
        PROVE  /\ ("prompt" \in caller'[c].retry /\ Tripped(prompt'[caller'[c].p], PromptMax))
                     => prompt'[caller'[c].p].age <= caller'[c].age
               /\ ("type" \in caller'[c].retry /\ Tripped(class', TypeMax))
                     => class'.age <= caller'[c].age
    BY <2>1, <2>2, <2>3, <2>4, <2>5, <2>6 DEF RetryInv, Tripped
  <2>9. ASSUME NEW c \in Callers, caller[c].age >= Cooldown PROVE caller'[c].age >= Cooldown
    BY <2>2, <2>3, <2>6, <2>9
  <2>10. ASSUME NEW c \in Callers, NEW d \in Callers, c # d
         PROVE  /\ ("prompt" \in caller'[c].retry \cap caller'[d].retry /\ caller'[c].p = caller'[d].p)
                      => caller'[c].age >= Cooldown \/ caller'[d].age >= Cooldown
                /\ "type" \in caller'[c].retry \cap caller'[d].retry
                      => caller'[c].age >= Cooldown \/ caller'[d].age >= Cooldown
    BY <2>2, <2>9, <2>10 DEF RetryInv
  <2> QED BY <2>7, <2>8, <2>10 DEF RetryInv
<1>12. CASE Truncate \/ Reset \/ Recover \/ StartPass \/ EndPass \/ Expire
  BY <1>4, <1>12 DEF Truncate, Reset, Recover, StartPass, EndPass, Expire, cache
<1> QED
  BY <1>5, <1>6, <1>7, <1>8, <1>9, <1>10, <1>11, <1>12 DEF Next, Step, Drive

\* While there is trouble the type's breaker counts errors and nothing else.
StormInv ==
    /\ trouble => class.n <= hist.errors
    /\ ~trouble => ~hist.sidelined
    /\ SlowNeverSidelines

LEMMA StormStep ==
    ASSUME TypeOK, StormInv, Next
    PROVE  StormInv'
<1> USE DEF TypeOK
<1>1. ASSUME UNCHANGED trouble, class'.n = class.n, hist'.errors = hist.errors,
             hist'.sidelined = hist.sidelined
      PROVE  StormInv'
  BY <1>1 DEF StormInv, SlowNeverSidelines
<1>2. ASSUME NEW c \in Callers, Look(c) PROVE StormInv'
  <2>1. \A f \in Entry(TypeMax) : Claimed(f, TypeMax).n = f.n
    BY DEF Claimed, Entry
  <2>2. class'.n = class.n /\ UNCHANGED trouble
    BY <1>2, <2>1 DEF Look, CacheOK
  <2>3. CASE hist' = hist
    BY <1>1, <2>2, <2>3
  <2>4. CASE /\ Skips(class, TypeMax)
             /\ hist' = [hist EXCEPT !.sidelined =
                           @ \/ (trouble /\ ~Tripped(prompt[caller[c].p], PromptMax))]
    <3>1. hist'.errors = hist.errors
      BY <2>4 DEF HistOK
    <3>2. hist'.sidelined => hist.sidelined \/ trouble
      BY <2>4 DEF HistOK
    <3>3. class.n >= TypeMax
      BY <2>4 DEF Skips, Tripped
    <3>4. class.n \in Nat /\ hist.errors \in Nat /\ TypeMax \in Nat
      BY DecisionsAssumption DEF CacheOK, Entry, HistOK
    <3> QED BY <2>2, <3>1, <3>2, <3>3, <3>4 DEF StormInv, SlowNeverSidelines
  <2> QED BY <1>2, <2>3, <2>4 DEF Look
<1>3. ASSUME NEW c \in Callers, Note(c) PROVE StormInv'
  <2> DEFINE out == caller[c].out
  <2>1. /\ hist'.errors = IF trouble /\ out = "error" /\ hist.errors < TypeMax
                            THEN hist.errors + 1 ELSE hist.errors
        /\ hist'.sidelined = hist.sidelined /\ UNCHANGED trouble
    BY <1>3 DEF Note, HistOK
  <2>2. class.n \in 0..TypeMax /\ hist.errors \in 0..TypeMax
    BY DEF CacheOK, Entry, HistOK
  <2>3. \/ class'.n = 0 \/ class'.n = class.n
        \/ out = "error" /\ class'.n = IF class.n < TypeMax THEN class.n + 1 ELSE TypeMax
    BY <1>3 DEF Note, ArmsType, Clear, Bump
  <2> QED BY <2>1, <2>2, <2>3, DecisionsAssumption DEF StormInv, SlowNeverSidelines
<1>4. CASE Recover
  <2>1. ~trouble' /\ hist'.sidelined = FALSE
    BY <1>4 DEF Recover, HistOK
  <2> QED BY <2>1 DEF StormInv, SlowNeverSidelines
<1>5. CASE Tick
  <2>1. UNCHANGED <<trouble, hist>> /\ class'.n = class.n
    BY <1>5 DEF Tick, Older, CacheOK, Entry
  <2> QED BY <1>1, <2>1
<1>6. ASSUME NEW c \in Callers, Spend(c) \/ Answer(c) \/ Settle(c) PROVE StormInv'
  <2>1. /\ UNCHANGED <<trouble, class>> /\ hist'.errors = hist.errors
        /\ hist'.sidelined = hist.sidelined
    BY <1>6 DEF Spend, Answer, Settle, HistOK, cache
  <2> QED BY <1>1, <2>1
<1>7. CASE Reset \/ StartPass \/ EndPass
  <2>1. /\ UNCHANGED <<trouble, class>> /\ hist'.errors = hist.errors
        /\ hist'.sidelined = hist.sidelined
    BY <1>7 DEF Reset, StartPass, EndPass, HistOK, cache
  <2> QED BY <1>1, <2>1
<1>8. CASE UNCHANGED <<trouble, class, hist>>
  BY <1>1, <1>8
<1> QED
  BY <1>2, <1>3, <1>4, <1>5, <1>6, <1>7, <1>8
  DEF Next, Step, Drive, Ask, Read, Trip, Die, Take, Truncate, Expire, cache

-----------------------------------------------------------------------------
(* The drain *)

InCall == {c \in Callers : caller[c].pc = "call"}

\* The drain's workers only call, each for an artifact of its own that is
\* pending and no longer on the list; after the first limit what is still to
\* answer was in flight; what a pass settled is what it took off pending; and
\* what counts as a reason to give up is on record.
PassInv ==
    /\ env # "drain" => drain.pc = "done" /\ limit = {} /\ hist.late = 0
    /\ env = "drain" =>
         /\ \A c \in Callers : caller[c].pc \in {"idle", "call"}
         /\ drain.pc # "pass" => InCall = {}
         /\ drain.todo \subseteq drain.pending
         /\ \A c \in InCall : caller[c].p \in drain.pending \ drain.todo
         /\ \A c, d \in InCall : caller[c].p = caller[d].p => c = d
         /\ limit = {} => hist.late = 0
         /\ limit # {} => hist.late + Cardinality(InCall) <= Cardinality(Callers) - 1
         /\ "refused" \in limit => hist.refused
         /\ drain.pc # "done" => drain.pauses <= hist.capped
         /\ drain.pc = "pass" => Cardinality(drain.pending) + hist.settled <= drain.before
         /\ drain.pc \in {"start", "pause"} => Cardinality(drain.pending) <= drain.before
    /\ GivesUpForReason

\* The calls in flight are at most the callers, and fewer by one when one of
\* them answers.
LEMMA InCallFinite ==
    ASSUME TypeOK
    PROVE  /\ IsFiniteSet(InCall) /\ Cardinality(InCall) \in Nat /\ Cardinality(Callers) \in Nat
           /\ Cardinality(InCall) <= Cardinality(Callers)
           /\ Cardinality(Callers) >= 1
           /\ \A c \in InCall : Cardinality(InCall \ {c}) = Cardinality(InCall) - 1
           /\ \A S \in SUBSET Prompts : IsFiniteSet(S) /\ Cardinality(S) \in Nat
           /\ \A S \in SUBSET Prompts : Cardinality(S) <= Cardinality(Prompts)
<1>1. InCall \in SUBSET Callers /\ IsFiniteSet(Callers)
  BY DecisionsAssumption DEF InCall
<1>2. /\ IsFiniteSet(InCall) /\ Cardinality(InCall) \in Nat /\ Cardinality(Callers) \in Nat
      /\ Cardinality(InCall) <= Cardinality(Callers)
  BY <1>1, FS_Subset, FS_CardinalityType
<1>3. Cardinality(Callers) # 0
  BY DecisionsAssumption, FS_EmptySet
<1>4. \A c \in InCall : Cardinality(InCall \ {c}) = Cardinality(InCall) - 1
  BY <1>2, FS_RemoveElement
<1>5. \A S \in SUBSET Prompts : IsFiniteSet(S) /\ Cardinality(S) <= Cardinality(Prompts)
  BY DecisionsAssumption, FS_Subset
<1>6. \A S \in SUBSET Prompts : Cardinality(S) \in Nat
  BY <1>5, FS_CardinalityType
<1> QED BY <1>2, <1>3, <1>4, <1>5, <1>6

\* An answer in the drain.
LEMMA SettleKeeps ==
    ASSUME TypeOK, PassInv, env = "drain", NEW c \in Callers, Settle(c)
    PROVE  PassInv'
<1> USE DEF TypeOK
<1>1. PICK o \in {"ok", "bad"} \cup Markers :
         /\ drain' = IF o = "ok" THEN [drain EXCEPT !.pending = @ \ {caller[c].p}] ELSE drain
         /\ limit' = limit \cup ({o} \cap Markers)
         /\ hist' = [hist EXCEPT !.late = IF limit # {} THEN @ + 1 ELSE @,
                                 !.settled = IF o = "ok" THEN @ + 1 ELSE @,
                                 !.refused = @ \/ o = "refused"]
  BY DEF Settle
<1>2. /\ drain.pc = "pass" /\ caller[c].pc = "call" /\ env' = env
      /\ caller'[c].pc = "idle" /\ \A d \in Callers : d # c => caller'[d] = caller[d]
  BY DEF Settle, Return, Idle, At, CallersOK
<1>3. c \in InCall /\ InCall' = InCall \ {c}
  BY <1>2 DEF InCall
<1>4. /\ hist'.late = IF limit # {} THEN hist.late + 1 ELSE hist.late
      /\ hist'.settled = IF o = "ok" THEN hist.settled + 1 ELSE hist.settled
      /\ hist'.capped = hist.capped
      /\ (hist.refused \/ o = "refused") => hist'.refused
  BY <1>1 DEF HistOK
<1>5. /\ drain'.pc = "pass" /\ drain'.todo = drain.todo /\ drain'.before = drain.before
      /\ drain'.pauses = drain.pauses
      /\ drain'.pending = IF o = "ok" THEN drain.pending \ {caller[c].p} ELSE drain.pending
  BY <1>1, <1>2 DEF DrainOK
<1>6. \A d \in InCall' : caller'[d] = caller[d] /\ d \in InCall /\ caller[d].p # caller[c].p
  BY <1>2, <1>3 DEF PassInv, InCall
<1>7. /\ drain'.todo \subseteq drain'.pending
      /\ \A d \in InCall' : caller'[d].p \in drain'.pending \ drain'.todo
      /\ \A d, b \in InCall' : caller'[d].p = caller'[b].p => d = b
  BY <1>3, <1>5, <1>6 DEF PassInv
<1>8. hist.late \in Nat /\ hist.settled \in Nat /\ drain.pending \in SUBSET Prompts
      /\ drain.before \in Nat /\ hist.capped \in Nat
  BY InCallFinite DEF HistOK, DrainOK
<1>9. limit' # {} => hist'.late + Cardinality(InCall') <= Cardinality(Callers) - 1
  BY <1>3, <1>4, <1>8, InCallFinite DEF PassInv
<1>10. limit' = {} => hist'.late = 0
  BY <1>1, <1>4 DEF PassInv
<1>11. "refused" \in limit' => hist'.refused
  BY <1>1, <1>4 DEF PassInv
<1>12. Cardinality(drain'.pending) + hist'.settled <= drain'.before
  <2>1. Cardinality(drain.pending) + hist.settled <= drain.before
        /\ Cardinality(drain.pending) \in Nat /\ IsFiniteSet(drain.pending)
    BY <1>2, <1>8, InCallFinite DEF PassInv
  <2>2. CASE o = "ok"
    <3>1. caller[c].p \in drain.pending
      BY <1>3 DEF PassInv
    <3>2. Cardinality(drain'.pending) = Cardinality(drain.pending) - 1
      <4>1. Cardinality(drain.pending \ {caller[c].p}) = Cardinality(drain.pending) - 1
        BY <2>1, <3>1, FS_RemoveElement
      <4> QED BY <1>5, <2>2, <4>1
    <3> QED BY <1>4, <1>5, <1>8, <2>1, <2>2, <3>2
  <2>3. CASE o # "ok"
    BY <1>4, <1>5, <1>8, <2>1, <2>3
  <2> QED BY <2>2, <2>3
<1>13. \A d \in Callers : caller'[d].pc \in {"idle", "call"}
  BY <1>2 DEF PassInv
<1>14. GivesUpForReason'
  BY <1>5 DEF GivesUpForReason
<1>15. drain'.pauses <= hist'.capped
  BY <1>2, <1>4, <1>5 DEF PassInv
<1> QED BY <1>2, <1>5, <1>7, <1>9, <1>10, <1>11, <1>12, <1>13, <1>14, <1>15 DEF PassInv

\* The end of a pass.
LEMMA EndPassKeeps ==
    ASSUME TypeOK, PassInv, env = "drain", EndPass
    PROVE  PassInv'
<1> USE DEF TypeOK
<1>1. /\ drain.pc = "pass" /\ drain.todo = {} /\ UNCHANGED <<env, caller, limit>>
      /\ \A c \in Callers : caller[c].pc = "idle"
  BY DEF EndPass
<1>2. InCall = {} /\ InCall' = {}
  BY <1>1 DEF InCall
<1>3. /\ hist'.late = hist.late /\ hist'.settled = hist.settled
      /\ hist.refused => hist'.refused
      /\ (limit = {} /\ hist.settled = 0) => hist'.blank
      /\ hist'.capped = IF limit # {} /\ hist.capped <= MaxPauses THEN hist.capped + 1 ELSE hist.capped
  BY DEF EndPass, HistOK
<1>4. drain' = [drain EXCEPT !.pc = "done"] \/ drain' = Paused
  BY DEF EndPass
<1>5. /\ drain'.todo = drain.todo /\ drain'.pending = drain.pending /\ drain'.expired = drain.expired
      /\ drain'.pc \in {"done", "pause"}
      /\ drain'.pc = "pause" => /\ drain'.before = Cardinality(drain.pending)
                                /\ drain'.pauses = IF limit # {} THEN drain.pauses + 1 ELSE drain.pauses
                                /\ ~(limit # {} /\ CapOutlasts)
  <2>1. CASE drain' = [drain EXCEPT !.pc = "done"]
    BY <2>1 DEF DrainOK
  <2>2. CASE drain' = Paused
    <3>1. Paused.pc = "pause" /\ drain' # [drain EXCEPT !.pc = "done"]
      BY <2>2 DEF Paused, DrainOK
    <3>2. ~(limit # {} /\ CapOutlasts)
      BY <3>1 DEF EndPass
    <3> QED BY <2>2, <3>2 DEF Paused, DrainOK
  <2> QED BY <1>4, <2>1, <2>2
<1>6. hist.capped \in Nat /\ drain.pauses \in 0..MaxPauses /\ hist.settled \in Nat
      /\ drain.pauses <= hist.capped
  BY <1>1 DEF HistOK, DrainOK, PassInv
<1>7. drain'.pc # "done" => drain'.pauses <= hist'.capped
  BY <1>3, <1>5, <1>6, DecisionsAssumption DEF CapOutlasts
<1>8. Cardinality(drain.pending) \in Nat /\ Cardinality(Prompts) \in Nat
      /\ Cardinality(drain.pending) <= Cardinality(Prompts) /\ drain.before \in Nat
  BY InCallFinite DEF DrainOK
<1>9. drain'.pc \in {"start", "pause"} => Cardinality(drain'.pending) <= drain'.before
  BY <1>5, <1>8
<1>10. ASSUME drain'.pc = "done", drain'.pending # {}
       PROVE  drain'.expired \/ hist'.refused \/ hist'.blank \/ hist'.capped > MaxPauses
  <2>1. drain' # Paused
    BY <1>10 DEF Paused, DrainOK
  <2>2. drain.expired \/ (limit # {} /\ CapOutlasts) \/ Stalled
    BY <1>5, <1>10, <2>1 DEF EndPass
  <2>3. CASE limit # {} /\ CapOutlasts
    <3>1. CASE "refused" \in limit
      BY <1>3, <3>1 DEF PassInv
    <3>2. CASE drain.pauses >= MaxPauses
      BY <1>3, <1>6, <2>3, <3>2, DecisionsAssumption
    <3> QED BY <2>3, <3>1, <3>2 DEF CapOutlasts
  <2>4. CASE Stalled
    <3>1. Cardinality(drain.pending) + hist.settled <= drain.before
      BY <1>1 DEF PassInv
    <3>2. hist.settled = 0
      BY <1>6, <1>8, <2>4, <3>1 DEF Stalled
    <3> QED BY <1>3, <2>4, <3>2 DEF Stalled
  <2> QED BY <1>5, <2>2, <2>3, <2>4
<1>11. GivesUpForReason'
  BY <1>10 DEF GivesUpForReason
<1>12. limit' # {} => hist'.late + Cardinality(InCall') <= Cardinality(Callers) - 1
  BY <1>1, <1>2, <1>3 DEF PassInv
<1> QED BY <1>1, <1>2, <1>3, <1>5, <1>7, <1>9, <1>11, <1>12 DEF PassInv

LEMMA DrainStep ==
    ASSUME TypeOK, PassInv, Next
    PROVE  PassInv'
<1> USE DEF TypeOK
<1>1. CASE env # "drain"
  <2>1. UNCHANGED <<env, drain, limit>> /\ hist'.late = hist.late
    <3>1. drain.pc = "done"
      BY <1>1 DEF PassInv
    <3>2. ASSUME NEW c \in Callers, Look(c) \/ Spend(c) \/ Answer(c) \/ Note(c)
          PROVE  UNCHANGED <<env, drain, limit>> /\ hist'.late = hist.late
      BY <3>2 DEF Look, Spend, Answer, Note, passes, HistOK
    <3>3. CASE Reset \/ Recover
      BY <3>3 DEF Reset, Recover, passes, HistOK
    <3> QED BY <1>1, <3>1, <3>2, <3>3 DEF Next, Step, Drive, Ask, Read, Trip, Settle, Die, Truncate,
            Tick, StartPass, EndPass, Take, Expire, passes
  <2> QED BY <1>1, <2>1 DEF PassInv, GivesUpForReason
<1>2. CASE env = "drain"
  <2>1. CASE UNCHANGED <<env, caller, drain, limit>> /\ hist'.late = hist.late
             /\ hist'.settled = hist.settled /\ hist'.capped = hist.capped
             /\ hist'.refused = hist.refused /\ hist'.blank = hist.blank
    <3>1. InCall' = InCall
      BY <2>1 DEF InCall
    <3>2. GivesUpForReason'
      BY <2>1 DEF PassInv, GivesUpForReason
    <3> QED BY <1>2, <2>1, <3>1, <3>2 DEF PassInv
  <2>2. CASE Reset
    BY <2>1, <2>2 DEF Reset, passes, HistOK
  <2>3. CASE StartPass
    <3>1. /\ drain.pc \in {"start", "pause"} /\ UNCHANGED <<env, caller>>
          /\ InCall = {} /\ InCall' = {}
      BY <2>3 DEF StartPass, InCall
    <3>2. CASE drain.pc = "pause" /\ drain.expired
      <4>1. drain' = [drain EXCEPT !.pc = "done"] /\ UNCHANGED <<limit, hist>>
        BY <2>3, <3>2 DEF StartPass
      <4>2. drain'.pc = "done" /\ drain'.expired /\ drain'.todo = drain.todo
            /\ drain'.pending = drain.pending
        BY <3>2, <4>1 DEF DrainOK
      <4> QED BY <1>2, <3>1, <4>1, <4>2 DEF PassInv, GivesUpForReason
    <3>3. CASE ~(drain.pc = "pause" /\ drain.expired)
      <4>1. drain' = [drain EXCEPT !.pc = "pass", !.todo = drain.pending] /\ limit' = {}
            /\ hist' = [hist EXCEPT !.late = 0, !.settled = 0]
        BY <2>3, <3>3 DEF StartPass
      <4>2. /\ drain'.pc = "pass" /\ drain'.todo = drain.pending /\ drain'.pending = drain.pending
            /\ drain'.before = drain.before /\ drain'.pauses = drain.pauses
        BY <4>1 DEF DrainOK
      <4>3. hist'.late = 0 /\ hist'.settled = 0 /\ hist'.capped = hist.capped
        BY <4>1 DEF HistOK
      <4>4. Cardinality(drain.pending) \in Nat /\ Cardinality(drain.pending) <= drain.before
        BY <1>2, <3>1, InCallFinite DEF PassInv, DrainOK
      <4>5. \A c \in Callers : caller'[c].pc \in {"idle", "call"}
        BY <1>2, <3>1 DEF PassInv
      <4>6. drain'.pauses <= hist'.capped
        BY <1>2, <3>1, <4>2, <4>3 DEF PassInv
      <4>7. Cardinality(drain'.pending) + hist'.settled <= drain'.before
        BY <4>2, <4>3, <4>4
      <4> QED BY <1>2, <3>1, <4>1, <4>2, <4>3, <4>5, <4>6, <4>7 DEF PassInv, GivesUpForReason
    <3> QED BY <3>2, <3>3
  <2>4. ASSUME NEW c \in Callers, NEW p \in Prompts, Take(c, p) PROVE PassInv'
    <3>1. /\ drain.pc = "pass" /\ p \in drain.todo /\ caller[c].pc = "idle"
          /\ drain' = [drain EXCEPT !.todo = @ \ {p}] /\ UNCHANGED <<env, limit, hist>>
          /\ IF limit # {} THEN UNCHANGED caller
             ELSE caller' = [caller EXCEPT ![c] = At("call", p)]
      BY <2>4 DEF Take, LimitOpen
    <3>2. /\ drain'.pc = "pass" /\ drain'.todo = drain.todo \ {p} /\ drain'.pending = drain.pending
          /\ drain'.before = drain.before /\ drain'.pauses = drain.pauses
      BY <3>1 DEF DrainOK
    <3>3. CASE limit # {}
      <4>1. InCall' = InCall /\ UNCHANGED caller
        BY <3>1, <3>3 DEF InCall
      <4> QED BY <1>2, <3>1, <3>2, <4>1 DEF PassInv, GivesUpForReason
    <3>4. CASE limit = {}
      <4>1. caller'[c] = At("call", p) /\ \A d \in Callers : d # c => caller'[d] = caller[d]
        BY <3>1, <3>4 DEF CallersOK
      <4>2. caller'[c].pc = "call" /\ caller'[c].p = p
        BY <4>1 DEF At
      <4>3. InCall' = InCall \cup {c} /\ c \notin InCall
        BY <3>1, <4>1, <4>2 DEF InCall
      <4>4. \A d \in InCall : caller'[d] = caller[d] /\ caller[d].p # p
        BY <1>2, <3>1, <4>1, <4>3 DEF PassInv, InCall
      <4>5. /\ drain'.todo \subseteq drain'.pending
            /\ \A d \in InCall' : caller'[d].p \in drain'.pending \ drain'.todo
            /\ \A b, d \in InCall' : caller'[b].p = caller'[d].p => b = d
        BY <1>2, <3>1, <3>2, <4>2, <4>3, <4>4 DEF PassInv
      <4>6. \A d \in Callers : caller'[d].pc \in {"idle", "call"}
        BY <1>2, <4>1, <4>2 DEF PassInv
      <4> QED BY <1>2, <3>1, <3>2, <3>4, <4>5, <4>6 DEF PassInv, GivesUpForReason
    <3> QED BY <3>3, <3>4
  <2>5. ASSUME NEW c \in Callers, Settle(c) PROVE PassInv'
    BY <1>2, <2>5, SettleKeeps
  <2>6. CASE Expire
    <3>1. drain' = [drain EXCEPT !.expired = TRUE] /\ UNCHANGED <<env, caller, limit, hist>>
          /\ drain.pc # "done"
      BY <2>6 DEF Expire
    <3>2. /\ drain'.pc = drain.pc /\ drain'.todo = drain.todo /\ drain'.pending = drain.pending
          /\ drain'.before = drain.before /\ drain'.pauses = drain.pauses
      BY <3>1 DEF DrainOK
    <3>3. InCall' = InCall
      BY <3>1 DEF InCall
    <3> QED BY <1>2, <3>1, <3>2, <3>3 DEF PassInv, GivesUpForReason
  <2>7. CASE EndPass
    BY <1>2, <2>7, EndPassKeeps
  <2>8. \A c \in Callers : caller[c].pc \in {"idle", "call"}
    BY <1>2 DEF PassInv
  <2>9. ASSUME NEW c \in Callers, Look(c) \/ Read(c) \/ Spend(c) \/ Trip(c) \/ Note(c) PROVE FALSE
    BY <2>8, <2>9 DEF Look, Read, Spend, Trip, Note
  <2>10. CASE Truncate \/ Recover \/ Tick \/ \E c \in Callers :
                  \/ \E p \in Prompts : Ask(c, p)
                  \/ Answer(c) \/ Die(c)
    BY <1>2, <2>10 DEF Truncate, Recover, Tick, Ask, Answer, Die
  <2> QED
    BY <2>2, <2>3, <2>4, <2>5, <2>6, <2>7, <2>9, <2>10 DEF Next, Step, Drive
<1> QED BY <1>1, <1>2

-----------------------------------------------------------------------------

\* What the four arguments carry along.
IInv == SpendInv /\ RetryInv /\ StormInv /\ PassInv

\* For any callers, prompts and thresholds: spending stays under the cap, a
\* breaker lets one retry through per window, slow answers sideline nothing,
\* a limit stops the fan-out and a drain gives up only for a reason.
THEOREM BudgetIsKept == Spec => []BudgetKept
<1>1. Init => IInv
  <2> SUFFICES ASSUME Init PROVE IInv
    OBVIOUS
  <2>1. \A c \in Callers : caller[c] = Idle
    BY DEF Init
  <2>2. SpendInv
    BY <2>1, DecisionsAssumption DEF Init, SpendInv, Idle, At
  <2>3. RetryInv
    BY <2>1 DEF Init, RetryInv, Idle, At
  <2>4. StormInv
    BY DecisionsAssumption DEF Init, StormInv, SlowNeverSidelines, Clear
  <2>5. PassInv
    <3>1. InCall = {}
      BY <2>1 DEF InCall, Idle, At
    <3>2. /\ Cardinality(Asked["drain"]) \in Nat /\ Cardinality(Prompts) \in Nat
          /\ Cardinality(Asked["drain"]) <= Cardinality(Prompts)
      BY TypeInit, InCallFinite, DecisionsAssumption DEF Asked
    <3>3. \A c \in Callers : caller[c].pc = "idle"
      BY <2>1 DEF Idle, At
    <3> QED BY <3>1, <3>2, <3>3 DEF Init, PassInv, GivesUpForReason
  <2> QED BY <2>2, <2>3, <2>4, <2>5 DEF IInv
<1>2. TypeOK /\ TypeOK' /\ IInv /\ [Next]_vars => IInv'
  <2> SUFFICES ASSUME TypeOK, TypeOK', IInv, [Next]_vars PROVE IInv'
    OBVIOUS
  <2>1. CASE Next
    BY <2>1, SpendStep, RetryStep, StormStep, DrainStep DEF IInv
  <2>2. CASE UNCHANGED vars
    <3>1. InCall' = InCall
      BY <2>2 DEF InCall, vars
    <3>2. SpendInv' /\ RetryInv'
      BY <2>2 DEF IInv, vars, SpendInv, RetryInv, Tripped
    <3>3. StormInv' /\ PassInv'
      BY <2>2, <3>1 DEF IInv, vars, StormInv, SlowNeverSidelines, PassInv, GivesUpForReason
    <3> QED BY <3>2, <3>3 DEF IInv
  <2> QED BY <2>1, <2>2
<1>3. TypeOK /\ IInv => BudgetKept
  <2> SUFFICES ASSUME TypeOK, IInv PROVE BudgetKept
    OBVIOUS
  <2>1. SpentWithinCap
    BY DEF IInv, SpendInv, SpentWithinCap
  <2>2. OneRetryPerWindow
    BY RetriesApart DEF IInv
  <2>3. SlowNeverSidelines /\ GivesUpForReason
    BY DEF IInv, StormInv, PassInv
  <2>4. LimitStopsFanOut
    BY InCallFinite DEF IInv, PassInv, LimitStopsFanOut, TypeOK, HistOK
  <2> QED BY <2>1, <2>2, <2>3, <2>4 DEF BudgetKept
<1> QED BY <1>1, <1>2, <1>3, DecisionsTypeCorrect, PTL DEF Spec

-----------------------------------------------------------------------------
(* Fuzz harnesses: which functions are offered.                            *)

\* What a library may export is in sort order.
Sorted(exported) == exported \subseteq {Symbols[i] : i \in DOMAIN Symbols}

\* Of one symbol of a family the alias is that symbol.
LEMMA AliasFits ==
    ASSUME DOMAIN Symbols \subseteq Nat, NEW exported, Sorted(exported),
           NEW b, NEW s \in exported, Base[s] = b, \A t \in exported : Base[t] = b => t = s
    PROVE  AliasOf(b, exported) = s
<1>1. Rank(s) \in Nat
  BY DEF Sorted, Rank
<1>2. \A t \in exported : Base[t] = b => Rank(s) <= Rank(t)
  BY <1>1
<1> QED BY <1>2 DEF AliasOf

\* What the headers give a name to, some export agrees with, and the other way
\* round.
LEMMA DeclaredAgrees ==
    ASSUME NEW exported
    PROVE  Agrees(exported) = {} <=> Declared(exported) = {}
<1>1. ASSUME NEW s \in Declared(exported) PROVE Agrees(exported) # {}
  <2>1. s \in exported /\ Declaration(s, exported) # {}
    BY <1>1 DEF Declared
  <2>2. CASE s \in Headers
    BY <2>1, <2>2 DEF Agrees
  <2>3. CASE s \notin Headers /\ Base[s] \in BasesIn(exported) \cap Headers
    BY <2>3 DEF Agrees
  <2>4. CASE s \notin Headers /\ Base[s] \notin BasesIn(exported) \cap Headers
    <3>1. s \in Unique(exported) /\ SourceName(s, exported) \in Headers
      BY <2>1, <2>4 DEF Declaration
    <3> QED BY <3>1 DEF Agrees
  <2> QED BY <2>2, <2>3, <2>4
<1>2. ASSUME NEW a \in Agrees(exported) PROVE Declared(exported) # {}
  <2>1. CASE a \in exported \cap Headers
    <3>1. Declaration(a, exported) = {a}
      BY <2>1 DEF Declaration
    <3> QED BY <2>1, <3>1 DEF Declared
  <2>2. CASE \E b \in BasesIn(exported) \cap Headers : TRUE
    <3>1. PICK b \in BasesIn(exported) \cap Headers : TRUE
      BY <2>2
    <3>2. PICK s \in exported : Base[s] = b
      BY <3>1 DEF BasesIn
    <3>3. Declaration(s, exported) # {}
      BY <3>1, <3>2 DEF Declaration
    <3> QED BY <3>2, <3>3 DEF Declared
  <2>3. CASE a \in Unique(exported) /\ SourceName(a, exported) \in Headers
    <3>1. a \in exported
      BY <2>3 DEF Unique, Mangled
    <3>2. Declaration(a, exported) # {}
      BY <2>3 DEF Declaration
    <3> QED BY <3>1, <3>2 DEF Declared
  <2> QED BY <2>1, <2>2, <2>3 DEF Agrees
<1> QED BY <1>1, <1>2

\* Calls name something, and a global function's bare name is no other symbol.
Plain(exported, calls) ==
    /\ Sorted(exported) /\ DOMAIN Symbols \subseteq Nat
    /\ \A c \in calls : Len(c) \in Nat \ {0} /\ c # <<"">>
    /\ \A s \in exported : Base[s] # s
    /\ \A s \in exported : Len(Qualified[s]) = 1 => s \in Unique(exported)

\* What a harness calls by the name the headers give it is driven.
LEMMA CalledIsDriven ==
    ASSUME NEW exported, NEW calls, Plain(exported, calls), NEW c \in calls, NEW s \in exported
    PROVE  /\ c = <<s>> => s \in Driven(calls, exported)
           /\ c = Qualified[s] => s \in Driven(calls, exported)
           /\ c = <<Base[s]>> /\ (\A t \in exported : t # s => t # Base[s] /\ Base[t] # Base[s])
                => s \in Driven(calls, exported)
<1> DEFINE names == {Last(d) : d \in calls}
<1>1. \A n : Last(<<n>>) = n
  BY DEF Last
<1>2. ASSUME c = <<s>> PROVE s \in Driven(calls, exported)
  <2>1. s \in names
    BY <1>1, <1>2
  <2> QED BY <2>1 DEF Driven
<1>3. ASSUME c = Qualified[s] PROVE s \in Driven(calls, exported)
  <2>1. Len(c) \in Nat \ {0} /\ Len(<<>>) = 0
    BY DEF Plain
  <2>2. s \in Mangled(exported)
    BY <1>3, <2>1 DEF Mangled
  <2>3. CASE Len(c) = 1
    <3>1. s \in Unique(exported)
      BY <1>3, <2>3 DEF Plain
    <3>2. Last(Qualified[s]) \in names
      BY <1>3
    <3> QED BY <1>3, <2>3, <3>1, <3>2 DEF Driven
  <2>4. CASE Len(c) > 1
    <3> DEFINE fits(d) == IF \E t \in Mangled(exported) : Qualified[t] = d THEN {d}
                          ELSE {Qualified[t] : t \in {u \in Mangled(exported) : IsStrictSuffix(d, Qualified[u])}}
    <3>1. fits(c) = {Qualified[s]}
      BY <1>3, <2>2
    <3>2. \E d \in calls : Len(d) > 1 /\ fits(d) = {Qualified[s]}
      BY <2>4, <3>1
    <3> DEFINE fitted == {t \in Mangled(exported) : \E d \in calls : Len(d) > 1 /\ fits(d) = {Qualified[t]}}
    <3>3. fitted \subseteq Driven(calls, exported)
      BY Zenon DEF Driven
    <3> HIDE DEF fits
    <3>4. s \in fitted
      BY <2>2, <3>2
    <3> QED BY <3>3, <3>4
  <2>5. \A n \in Nat \ {0} : n = 1 \/ n > 1
    OBVIOUS
  <2>6. Len(c) = 1 \/ Len(c) > 1
    BY <2>1, <2>5, Zenon
  <2> QED BY <2>3, <2>4, <2>6, Zenon
<1>4. ASSUME c = <<Base[s]>>, \A t \in exported : t # s => t # Base[s] /\ Base[t] # Base[s]
      PROVE  s \in Driven(calls, exported)
  <2>1. Base[s] # "" /\ Base[s] \notin exported
    BY <1>4 DEF Plain
  <2>2. Base[s] \in BasesIn(exported)
    BY <2>1 DEF BasesIn
  <2>3. Base[s] \in names
    BY <1>1, <1>4
  <2>4. AliasOf(Base[s], exported) = s
    <3>1. \A t \in exported : Base[t] = Base[s] => t = s
      BY <1>4
    <3>2. DOMAIN Symbols \subseteq Nat /\ Sorted(exported)
      BY DEF Plain
    <3> QED BY <3>1, <3>2, AliasFits
  <2> QED BY <2>2, <2>3, <2>4 DEF Driven
<1> QED BY <1>2, <1>3, <1>4

-----------------------------------------------------------------------------
(* Fuzz harnesses: how one is built.                                       *)

\* The two ways of writing a map, and what a note adds.
LEMMA MapWrites ==
    ASSUME NEW f, NEW k, NEW v
    PROVE  /\ DOMAIN With(f, k, v) = DOMAIN f \cup {k} /\ With(f, k, v)[k] = v
           /\ \A j \in DOMAIN f : j # k => With(f, k, v)[j] = f[j]
           /\ DOMAIN Without(f, k) = DOMAIN f \ {k}
           /\ \A j \in DOMAIN f : j # k => Without(f, k)[j] = f[j]
  BY DEF With, Without

LEMMA CrossAdds ==
    ASSUME NEW k, NEW what, Cross(k, what)
    PROVE  \A j : OddOf(j)' = IF j = k THEN OddOf(j) \cup what ELSE OddOf(j)
<1>1. CASE what \subseteq OddOf(k)
  BY <1>1 DEF Cross, OddOf
<1>2. CASE ~(what \subseteq OddOf(k))
  <2>1. odd' = With(odd, k, OddOf(k) \cup what)
    BY <1>2 DEF Cross
  <2> DEFINE more == OddOf(k) \cup what
  <2>2. DOMAIN odd' = DOMAIN odd \cup {k} /\ odd'[k] = more
    BY <2>1 DEF With
  <2>3. \A j \in DOMAIN odd : j # k => odd'[j] = odd[j]
    BY <2>1 DEF With
  <2>4. OddOf(k)' = more
    BY <2>2 DEF OddOf
  <2>5. ASSUME NEW j, j # k PROVE OddOf(j)' = OddOf(j)
    BY <2>2, <2>3, <2>5 DEF OddOf
  <2> QED BY <2>4, <2>5
<1> QED BY <1>1, <1>2

\* A digest is no empty sequence.
LEMMA KeyIsSome == \A k \in Keys : k # <<>> /\ k[1] \in Texts /\ k[2] \in Trees /\ k[3] \in Nat
<1> SUFFICES ASSUME NEW k \in Keys PROVE k # <<>> /\ k[1] \in Texts /\ k[2] \in Trees /\ k[3] \in Nat
  OBVIOUS
<1>1. k[1] \in Texts /\ k[2] \in Trees /\ k[3] \in Nat /\ k = <<k[1], k[2], k[3]>>
  BY DEF Keys
<1>2. Len(<<k[1], k[2], k[3]>>) = 3 /\ Len(<<>>) = 0
  OBVIOUS
<1> QED BY <1>1, <1>2

\* The choice is a library of the tree it is in.
LEMMA ChoiceIsKnown ==
    ASSUME HarnessTypeOK
    PROVE  /\ Tree \in Trees /\ Choice = <<Tree, lib[Tree].version>> /\ lib[Tree].version \in Nat
           /\ lib[Tree].what \in Libraries
           /\ Digest(text, Choice) = <<text, Tree, lib[Tree].version>>
           /\ Digest(text, Choice) \in Keys
<1>1. Tree \in Trees
  BY DEF Tree, Trees
<1>2. lib[Tree].version \in Nat /\ lib[Tree].what \in Libraries /\ text \in Texts
  BY <1>1 DEF HarnessTypeOK
<1> QED BY <1>1, <1>2 DEF Choice, Digest, Keys

\* What a build is at: its key is there from the digest to its end.
Jobs == [pc : Stages, held : Trees \cup {""}, read : Texts \cup {""}, key : Keys \cup {<<>>}, guided : BOOLEAN]
JobsOK ==
    /\ job \in [Builders -> Jobs]
    /\ \A p \in Builders : job[p].key = <<>> <=> job[p].pc \in {"off", "check", "identify"}
FilesOK ==
    /\ DOMAIN bins \subseteq Keys /\ \A k \in DOMAIN bins : bins[k] \in Binaries
    /\ DOMAIN mans \subseteq Keys /\ \A k \in DOMAIN mans : mans[k] \in Manifests
    /\ told \subseteq Keys
WorldOK == lib \in [Trees -> [version : Nat, sig : Revs, what : Libraries]] /\ text \in Texts

LEMMA HarnessTypeParts ==
    /\ HarnessTypeOK <=> WorldOK /\ JobsOK /\ FilesOK
    /\ HarnessTypeOK' <=> WorldOK' /\ JobsOK' /\ FilesOK'
  BY DEF HarnessTypeOK, WorldOK, Jobs, JobsOK, FilesOK

\* A build goes on, or it ends.
LEMMA JobGoes ==
    ASSUME JobsOK, NEW p \in Builders, NEW pc, Go(p, pc)
    PROVE  /\ job'[p] = [job[p] EXCEPT !.pc = pc]
           /\ job'[p].key = job[p].key /\ job'[p].pc = pc /\ job'[p].guided = job[p].guided
           /\ \A q \in Builders : q # p => job'[q] = job[q]
  BY DEF Go, Jobs, JobsOK

LEMMA JobEnds ==
    ASSUME JobsOK, NEW p \in Builders, Ended(p)
    PROVE  /\ job'[p] = NoBuild /\ job'[p].key = <<>> /\ job'[p].pc = "off"
           /\ \A q \in Builders : q # p => job'[q] = job[q]
<1>1. NoBuild.key = <<>> /\ NoBuild.pc = "off"
  BY DEF NoBuild
<1>2. job'[p] = NoBuild /\ \A q \in Builders : q # p => job'[q] = job[q]
  BY DEF Ended, JobsOK
<1> QED BY <1>1, <1>2

\* A build becomes another.
LEMMA JobBecomes ==
    ASSUME JobsOK, NEW p \in Builders, NEW new \in Jobs, job' = [job EXCEPT ![p] = new],
           new.key = <<>> <=> new.pc \in {"off", "check", "identify"}
    PROVE  /\ JobsOK' /\ job'[p] = new
           /\ \A q \in Builders : q # p => job'[q] = job[q]
  BY DEF JobsOK, Jobs

\* A build that goes on within its digest, or ends, keeps the types.
LEMMA JobsGo ==
    ASSUME JobsOK, NEW p \in Builders, NEW pc \in Stages \ {"off", "check", "identify"},
           job[p].pc \notin {"off", "check", "identify"}, Go(p, pc)
    PROVE  JobsOK'
  BY DEF Jobs, JobsOK, Go

LEMMA JobsEnd ==
    ASSUME JobsOK, NEW p \in Builders, Ended(p)
    PROVE  JobsOK'
<1>1. NoBuild \in Jobs
  BY DEF NoBuild, Stages, Jobs
<1>2. NoBuild.key = <<>> /\ NoBuild.pc = "off"
  BY DEF NoBuild
<1> QED BY <1>1, <1>2 DEF JobsOK, Ended

\* The digest of a new build is of the library of the moment.
LEMMA IdentifyDoes ==
    ASSUME HarnessTypeOK, NEW p \in Builders, Identify(p), NEW k, k = <<text, Tree, lib[Tree].version>>
    PROVE  /\ k \in Keys /\ job[p].key = <<>> /\ UNCHANGED <<world, files>>
           /\ \/ Ended(p) /\ UNCHANGED <<told, odd>>
              \/ /\ Ended(p) /\ k \in DOMAIN bins /\ told' = told \cup {k}
                 /\ Cross(k, IF Others(p, k) # {} THEN {"early"} ELSE {})
              \/ /\ k \notin DOMAIN bins /\ UNCHANGED told
                 /\ job' = [job EXCEPT ![p].pc = "compile", ![p].key = k, ![p].guided = Instrumented(lib[Tree].what)]
                 /\ Cross(k, (IF Others(p, k) # {} THEN {"shared"} ELSE {})
                               \cup (IF text # job[p].read THEN {"edited"} ELSE {}))
<1>1. Digest(text, Choice) = k /\ k \in Keys
  BY ChoiceIsKnown
<1>2. job[p].key = <<>>
  BY HarnessTypeParts DEF Identify, JobsOK
<1> QED BY <1>1, <1>2, Zenon DEF Identify

\* What a link writes.
Linked(p, sanitized) ==
    [text |-> text, version |-> lib[job[p].key[2]].version, what |-> lib[job[p].key[2]].what,
     sanitized |-> sanitized]

LEMMA LinkDoes ==
    ASSUME HarnessTypeOK, NEW p \in Builders, NEW sanitized, NEW then, job[p].key # <<>>,
           Link(p, sanitized, then)
    PROVE  /\ job[p].key \in Keys /\ Go(p, then) /\ UNCHANGED mans
           /\ bins' = With(bins, job[p].key, Linked(p, sanitized))
           /\ \E what : /\ Cross(job[p].key, what)
                        /\ text # TextOf(job[p].key) => "edited" \in what
                        /\ lib[job[p].key[2]].version # job[p].key[3] => "moved" \in what
<1>1. job[p].key \in Keys
  BY HarnessTypeParts DEF JobsOK, Jobs
<1> DEFINE what == (IF text # TextOf(job[p].key) THEN {"edited"} ELSE {})
                     \cup (IF lib[job[p].key[2]].version # job[p].key[3] THEN {"moved"} ELSE {})
                     \cup (IF LibraryOf(job[p].key) # Choice THEN {"late"} ELSE {})
<1>2. /\ Cross(job[p].key, what)
      /\ text # TextOf(job[p].key) => "edited" \in what
      /\ lib[job[p].key[2]].version # job[p].key[3] => "moved" \in what
  BY Zenon DEF Link
<1>3. Go(p, then) /\ UNCHANGED mans /\ bins' = With(bins, job[p].key, Linked(p, sanitized))
  BY Zenon DEF Link, Linked
<1> HIDE DEF what
<1> QED BY <1>1, <1>2, <1>3

LEMMA LinkTypes ==
    ASSUME HarnessTypeOK, NEW p \in Builders, NEW sanitized \in BOOLEAN,
           NEW then \in Stages \ {"off", "check", "identify"}, job[p].key # <<>>,
           Link(p, sanitized, then), UNCHANGED <<world, told>>
    PROVE  HarnessTypeOK'
<1>1. WorldOK /\ JobsOK /\ FilesOK
  BY HarnessTypeParts
<1>2. WorldOK'
  BY <1>1 DEF WorldOK, world
<1>3. JobsOK'
  <2>1. job[p].pc \notin {"off", "check", "identify"} /\ Go(p, then)
    BY <1>1, LinkDoes DEF JobsOK
  <2> QED BY <1>1, <2>1, JobsGo
<1>4. FilesOK'
  <2>1. job[p].key \in Keys /\ UNCHANGED <<mans, told>> /\ bins' = With(bins, job[p].key, Linked(p, sanitized))
    BY LinkDoes
  <2>2. Linked(p, sanitized) \in Binaries
    BY <1>1, <2>1, KeyIsSome DEF Linked, Binaries, WorldOK
  <2>3. DOMAIN bins' \subseteq Keys /\ \A k \in DOMAIN bins' : bins'[k] \in Binaries
    BY <1>1, <2>1, <2>2 DEF FilesOK, With
  <2> QED BY <1>1, <2>1, <2>3 DEF FilesOK
<1> QED BY <1>2, <1>3, <1>4, HarnessTypeParts

LEMMA RefuseTypes ==
    ASSUME HarnessTypeOK, NEW p \in Builders, Refuse(p), UNCHANGED <<world, told>>
    PROVE  HarnessTypeOK'
<1>1. WorldOK' /\ JobsOK'
  BY HarnessTypeParts, JobsEnd DEF Refuse, WorldOK, world
<1>2. FilesOK'
  BY HarnessTypeParts DEF Refuse, FilesOK, Without
<1> QED BY <1>1, <1>2, HarnessTypeParts

\* A compile links, and so does one without the sanitizer, or it is refused.
LEMMA CompileDoes ==
    ASSUME HarnessTypeOK, NEW p \in Builders, Compile(p) \/ CompileBare(p)
    PROVE  /\ UNCHANGED <<world, told>> /\ job[p].key # <<>>
           /\ \/ Refuse(p)
              \/ Link(p, TRUE, "start")
              \/ Link(p, FALSE, "start-bare")
<1>1. job[p].key # <<>>
  BY HarnessTypeParts DEF Compile, CompileBare, JobsOK, Jobs
<1> QED BY <1>1, Zenon DEF Compile, CompileBare

\* A start goes on to the record or to a build without the sanitizer.
LEMMA StartDoes ==
    ASSUME HarnessTypeOK, NEW p \in Builders, Start(p)
    PROVE  /\ UNCHANGED <<world, told>> /\ job[p].key \in Keys /\ job[p].key # <<>>
           /\ \/ Refuse(p)
              \/ UNCHANGED <<files, odd>> /\ job[p].key \in DOMAIN bins /\ Starts(bins[job[p].key])
                 /\ job[p].pc = "start" /\ Go(p, "record")
              \/ UNCHANGED <<files, odd>> /\ job[p].key \in DOMAIN bins /\ Starts(bins[job[p].key])
                 /\ job[p].pc = "start-bare" /\ Go(p, "record-bare")
              \/ UNCHANGED <<files, odd>> /\ job[p].key \in DOMAIN bins /\ job[p].pc = "start" /\ Go(p, "bare")
<1>1. job[p].key \in Keys /\ job[p].key # <<>>
  BY HarnessTypeParts DEF Start, JobsOK, Jobs
<1> QED BY <1>1, Zenon DEF Start

LEMMA RecordDoes ==
    ASSUME HarnessTypeOK, NEW p \in Builders, Record(p), NEW k, k = job[p].key
    PROVE  /\ UNCHANGED <<world, bins>> /\ k \in Keys /\ k # <<>> /\ Ended(p)
           /\ mans' = With(mans, k, [text |-> text, sanitized |-> job[p].pc = "record", guided |-> job[p].guided])
           /\ told' = told \cup {k}
           /\ Cross(k, IF text # TextOf(k) THEN {"edited"} ELSE {})
<1>1. k \in Keys /\ k # <<>>
  BY HarnessTypeParts DEF Record, JobsOK, Jobs
<1> QED BY <1>1, Zenon DEF Record

\* A rebuild of a tree is a version it never had.
LEMMA RebuildDoes ==
    ASSUME HarnessTypeOK, Rebuild \/ RebuildSibling
    PROVE  /\ UNCHANGED <<text, job, files, told, odd>>
           /\ \E tree \in Trees : \E sig \in Revs, what \in Libraries :
                 lib' = [lib EXCEPT ![tree] = [version |-> @.version + 1, sig |-> sig, what |-> what]]
<1>1. CASE Rebuild
  <2>1. PICK sig \in Revs, what \in Libraries : Installed("plain", sig, what)
    BY <1>1 DEF Rebuild
  <2> QED BY <1>1, <2>1 DEF Rebuild, Installed, Trees
<1>2. CASE RebuildSibling
  <2>1. PICK what \in Libraries : Installed("sib", lib["plain"].sig, what)
    BY <1>2 DEF RebuildSibling
  <2>2. lib["plain"].sig \in Revs
    BY DEF HarnessTypeOK, Trees
  <2> QED BY <1>2, <2>1, <2>2 DEF RebuildSibling, Installed, Trees
<1> QED BY <1>1, <1>2

\* The types, over every step.
LEMMA HarnessTypeInit == HarnessInit => HarnessTypeOK
<1> SUFFICES ASSUME HarnessInit PROVE HarnessTypeOK
  OBVIOUS
<1>1. WorldOK
  BY DEF HarnessInit, WorldOK, Trees
<1>2. JobsOK
  BY DEF HarnessInit, Jobs, JobsOK, NoBuild, Stages
<1>3. FilesOK
  BY DEF HarnessInit, FilesOK
<1> QED BY <1>1, <1>2, <1>3, HarnessTypeParts

LEMMA HarnessTypeStep ==
    ASSUME HarnessTypeOK, HarnessNext
    PROVE  HarnessTypeOK'
<1>1. WorldOK /\ JobsOK /\ FilesOK
  BY HarnessTypeParts
<1>2. ASSUME UNCHANGED <<world, files, told>>, JobsOK' PROVE HarnessTypeOK'
  BY <1>1, <1>2, HarnessTypeParts DEF WorldOK, FilesOK, world, files
<1>3. ASSUME NEW p \in Builders, Hold(p) PROVE HarnessTypeOK'
  <2>1. Tree \in Trees
    BY ChoiceIsKnown
  <2> DEFINE new == [NoBuild EXCEPT !.pc = "check", !.held = Tree]
  <2>2. new \in Jobs /\ new.key = <<>> /\ new.pc = "check"
    BY <2>1 DEF NoBuild, Stages, Jobs
  <2>3. job' = [job EXCEPT ![p] = new]
    BY <1>3 DEF Hold
  <2> HIDE DEF new
  <2>4. JobsOK'
    BY <1>1, <2>2, <2>3, JobBecomes
  <2> QED BY <1>2, <1>3, <2>4 DEF Hold
<1>4. ASSUME NEW p \in Builders, Check(p) PROVE HarnessTypeOK'
  <2>1. CASE Ended(p)
    BY <1>1, <1>2, <1>4, <2>1, JobsEnd DEF Check
  <2>2. CASE job' = [job EXCEPT ![p].pc = "identify", ![p].read = text]
    <3> DEFINE new == [job[p] EXCEPT !.pc = "identify", !.read = text]
    <3>1. job[p] \in Jobs /\ job[p].key = <<>> /\ text \in Texts
      BY <1>1, <1>4 DEF Check, JobsOK, WorldOK
    <3>2. new \in Jobs /\ new.key = <<>> /\ new.pc = "identify"
      BY <3>1 DEF Jobs, Stages
    <3>3. job' = [job EXCEPT ![p] = new]
      BY <1>1, <2>2 DEF JobsOK
    <3> HIDE DEF new
    <3>4. JobsOK'
      BY <1>1, <3>2, <3>3, JobBecomes
    <3> QED BY <1>2, <1>4, <3>4 DEF Check
  <2> QED BY <1>4, <2>1, <2>2 DEF Check
<1>5. ASSUME NEW p \in Builders, Identify(p) PROVE HarnessTypeOK'
  <2> DEFINE k == <<text, Tree, lib[Tree].version>>
  <2>1. k \in Keys /\ job[p].key = <<>> /\ UNCHANGED <<world, files>>
    BY <1>5, IdentifyDoes
  <2>2. told' \subseteq Keys
    BY <1>1, <1>5, <2>1, IdentifyDoes DEF FilesOK
  <2>3. CASE Ended(p)
    BY <1>1, <2>1, <2>2, <2>3, JobsEnd, HarnessTypeParts DEF WorldOK, FilesOK, world, files
  <2>4. CASE job' = [job EXCEPT ![p].pc = "compile", ![p].key = k, ![p].guided = Instrumented(lib[Tree].what)]
    <3>1. Instrumented(lib[Tree].what) \in BOOLEAN
      BY Zenon DEF Instrumented
    <3>2. k # <<>>
      BY <2>1, KeyIsSome
    <3> DEFINE g == Instrumented(lib[Tree].what)
               new == [job[p] EXCEPT !.pc = "compile", !.key = k, !.guided = g]
    <3> HIDE DEF k, g
    <3>3. job' = [job EXCEPT ![p] = new]
      BY <2>4 DEF g
    <3>4. /\ new \in Jobs
          /\ new.key = k /\ new.pc = "compile"
      BY <1>1, <2>1, <3>1 DEF JobsOK, Jobs, Stages, g
    <3> HIDE DEF new
    <3>5. JobsOK'
      BY <1>1, <3>2, <3>3, <3>4, JobBecomes
    <3> QED BY <1>1, <2>1, <2>2, <3>5, HarnessTypeParts DEF WorldOK, FilesOK, world, files
  <2> QED BY <1>5, <2>3, <2>4, IdentifyDoes
<1>6. ASSUME NEW p \in Builders, Compile(p) \/ CompileBare(p) PROVE HarnessTypeOK'
  <2>1. UNCHANGED <<world, told>> /\ job[p].key # <<>>
    BY <1>6, CompileDoes
  <2>2. CASE Refuse(p)
    BY <2>1, <2>2, RefuseTypes
  <2>3. CASE Link(p, TRUE, "start")
    BY <2>1, <2>3, LinkTypes DEF Stages
  <2>4. CASE Link(p, FALSE, "start-bare")
    BY <2>1, <2>4, LinkTypes DEF Stages
  <2> QED BY <1>6, <2>2, <2>3, <2>4, CompileDoes
<1>7. ASSUME NEW p \in Builders, Start(p) PROVE HarnessTypeOK'
  <2>1. UNCHANGED <<world, told>> /\ job[p].pc \notin {"off", "check", "identify"}
    BY <1>1, <1>7, StartDoes DEF JobsOK
  <2>2. CASE Refuse(p)
    BY <2>1, <2>2, RefuseTypes
  <2>3. ASSUME NEW pc \in {"record", "record-bare", "bare"}, Go(p, pc), UNCHANGED files PROVE HarnessTypeOK'
    BY <1>1, <1>2, <2>1, <2>3, JobsGo DEF Stages
  <2> QED BY <1>7, <2>2, <2>3, StartDoes
<1>8. ASSUME NEW p \in Builders, Record(p) PROVE HarnessTypeOK'
  <2> DEFINE k == job[p].key
             m == [text |-> text, sanitized |-> job[p].pc = "record", guided |-> job[p].guided]
  <2>1. /\ UNCHANGED <<world, bins>> /\ k \in Keys /\ Ended(p) /\ told' = told \cup {k}
        /\ mans' = With(mans, k, m)
    BY <1>8, RecordDoes
  <2>2. (job[p].pc = "record") \in BOOLEAN
    BY Zenon
  <2>3. m \in Manifests
    BY <1>1, <2>2 DEF Manifests, Jobs, JobsOK, WorldOK
  <2> HIDE DEF m
  <2>4. DOMAIN mans' \subseteq Keys /\ \A j \in DOMAIN mans' : mans'[j] \in Manifests
    BY <1>1, <2>1, <2>3 DEF FilesOK, With
  <2>5. WorldOK' /\ FilesOK'
    BY <1>1, <2>1, <2>4 DEF WorldOK, FilesOK, world
  <2> QED BY <1>1, <2>1, <2>5, JobsEnd, HarnessTypeParts
<1>9. ASSUME NEW p \in Builders, Kill(p) PROVE HarnessTypeOK'
  BY <1>1, <1>2, <1>9, JobsEnd DEF Kill
<1>10. CASE Rebuild \/ RebuildSibling
  <2>1. UNCHANGED <<text, job, files, told>>
    BY <1>10, RebuildDoes
  <2>2. WorldOK'
    <3>1. PICK tree \in Trees, sig \in Revs, what \in Libraries :
               lib' = [lib EXCEPT ![tree] = [version |-> @.version + 1, sig |-> sig, what |-> what]]
      BY <1>10, RebuildDoes
    <3>2. lib[tree].version + 1 \in Nat
      BY <1>1 DEF WorldOK
    <3> QED BY <1>1, <2>1, <3>1, <3>2 DEF WorldOK
  <2> QED BY <1>1, <2>1, <2>2, HarnessTypeParts DEF JobsOK, FilesOK, files
<1>11. CASE Edit
  <2>1. WorldOK' /\ UNCHANGED <<job, files, told>>
    BY <1>1, <1>11 DEF Edit, WorldOK
  <2> QED BY <1>1, <2>1, HarnessTypeParts DEF JobsOK, FilesOK, files
<1> QED
  BY <1>3, <1>4, <1>5, <1>6, <1>7, <1>8, <1>9, <1>10, <1>11 DEF HarnessNext

\* Every variable of the harness builds keeps its type, and a build has a
\* digest from the moment it compiles to its end.
THEOREM HarnessTypeCorrect == HarnessSpec => []HarnessTypeOK
<1>1. HarnessTypeOK /\ [HarnessNext]_harnessVars => HarnessTypeOK'
  <2> SUFFICES ASSUME HarnessTypeOK, [HarnessNext]_harnessVars PROVE HarnessTypeOK'
    OBVIOUS
  <2>1. CASE UNCHANGED harnessVars
    BY <2>1 DEF harnessVars, world, files, HarnessTypeOK
  <2> QED BY <2>1, HarnessTypeStep
<1> QED BY <1>1, HarnessTypeInit, PTL DEF HarnessSpec

\* Of two builds of one digest the second is known to share it.
Alone ==
    \A p, q \in Builders, k \in Keys : p # q /\ job[p].key = k /\ job[q].key = k => "shared" \in OddOf(k)

\* Whoever builds a digest alone finds its binary as it left it, and no
\* manifest.
Left(p, k) ==
    /\ k \notin DOMAIN mans
    /\ job[p].pc = "compile" <=> k \notin DOMAIN bins
    /\ job[p].pc # "compile" =>
          /\ bins[k].sanitized <=> job[p].pc \in {"start", "bare", "record"}
          /\ job[p].pc \in {"record", "record-bare"} => Starts(bins[k])
          /\ "moved" \notin OddOf(k) => (job[p].guided <=> Instrumented(bins[k].what))
AtWork == \A p \in Builders, k \in Keys : job[p].key = k /\ "shared" \notin OddOf(k) => Left(p, k)

\* What a build knows of the library is true of the version it saw.
Known ==
    \A p \in Builders, k \in Keys : job[p].key = k =>
        /\ k[3] <= lib[k[2]].version
        /\ k[3] = lib[k[2]].version => (job[p].guided <=> Instrumented(lib[k[2]].what))

\* The text of a digest passed the contract.
Checked ==
    /\ \A p \in Builders : job[p].pc = "identify" => job[p].read \notin Unfaithful
    /\ \A p \in Builders, k \in Keys : job[p].key = k /\ "edited" \notin OddOf(k) => TextOf(k) \notin Unfaithful
    /\ \A k \in DOMAIN bins : "edited" \notin OddOf(k) => bins[k].text = TextOf(k) /\ TextOf(k) \notin Unfaithful
    /\ \A k \in DOMAIN mans : "edited" \notin OddOf(k) => mans[k].text = TextOf(k)

\* A manifest says what is true of the binary.
Recorded ==
    \A k \in DOMAIN mans : "shared" \notin OddOf(k) =>
        /\ k \in DOMAIN bins /\ Starts(bins[k])
        /\ bins[k].sanitized <=> mans[k].sanitized
        /\ "moved" \notin OddOf(k) => (mans[k].guided <=> Instrumented(bins[k].what))

\* A binary without a manifest is at work, unless a build of it was killed.
Finished ==
    \A k \in DOMAIN bins \ DOMAIN mans : OddOf(k) \cap {"shared", "killed"} = {} => \E p \in Builders : job[p].key = k

HarnessInv == Alone /\ AtWork /\ Known /\ Checked /\ Recorded /\ Finished /\ AnswerIsListed

\* Nothing but the job of one build moved, and it has no digest.
LEMMA QuietKeeps ==
    ASSUME HarnessTypeOK, HarnessInv, UNCHANGED <<lib, files>>, NEW p \in Builders,
           \A q \in Builders : q # p => job'[q] = job[q],
           job[p].key = <<>>, job'[p].key = <<>>, job'[p].pc = "identify" => job'[p].read \notin Unfaithful,
           \A j : OddOf(j) \subseteq OddOf(j)',
           \A k \in told' : OddOf(k)' \cap {"killed", "shared", "early"} = {} => k \in told \/ k \in Listed
    PROVE  HarnessInv'
<1>1. UNCHANGED <<bins, mans>>
  BY DEF files
<1>2. \A q \in Builders, k \in Keys : job'[q].key = k => job'[q] = job[q]
  BY KeyIsSome
<1>3. \A q \in Builders : job[q].key # <<>> => job'[q] = job[q]
  OBVIOUS
<1>4. Alone' /\ Known'
  BY <1>1, <1>2 DEF HarnessInv, Alone, Known
<1>5. AtWork'
  BY <1>1, <1>2 DEF HarnessInv, AtWork, Left
<1>6. Checked'
  BY <1>1, <1>2 DEF HarnessInv, Checked
<1>7. Recorded'
  BY <1>1 DEF HarnessInv, Recorded
<1>8. Finished'
  <2>1. ASSUME NEW k \in DOMAIN bins \ DOMAIN mans, OddOf(k)' \cap {"shared", "killed"} = {}
        PROVE  \E q \in Builders : job'[q].key = k
    <3>1. PICK q \in Builders : job[q].key = k
      BY <2>1 DEF HarnessInv, Finished
    <3>2. k # <<>>
      BY KeyIsSome DEF HarnessTypeOK
    <3> QED BY <1>3, <3>1, <3>2
  <2> QED BY <1>1, <2>1 DEF Finished
<1>9. AnswerIsListed'
  BY <1>1 DEF HarnessInv, AnswerIsListed, Listed
<1> QED BY <1>4, <1>5, <1>6, <1>7, <1>8, <1>9 DEF HarnessInv

\* A build that ends with its digest: unless it was killed, the binary and the
\* manifest are both there or both gone.
LEMMA EndKeeps ==
    ASSUME HarnessTypeOK, HarnessInv, UNCHANGED lib, NEW p \in Builders, NEW K \in Keys, K = job[p].key,
           job'[p].key = <<>>, job'[p].pc = "off", \A q \in Builders : q # p => job'[q] = job[q],
           \A j : OddOf(j) \subseteq OddOf(j)' /\ (j # K => OddOf(j)' = OddOf(j)),
           \A j : j # K => (j \in DOMAIN bins' <=> j \in DOMAIN bins) /\ (j \in DOMAIN mans' <=> j \in DOMAIN mans),
           \A j \in DOMAIN bins : j # K => bins'[j] = bins[j],
           \A j \in DOMAIN mans : j # K => mans'[j] = mans[j],
           told' = told \/ told' = told \cup {K},
           OddOf(K)' \cap {"shared", "killed"} = {} => (K \in DOMAIN bins' <=> K \in DOMAIN mans'),
           K \in DOMAIN mans' /\ "shared" \notin OddOf(K)' =>
              /\ K \in DOMAIN bins' /\ Starts(bins'[K])
              /\ bins'[K].sanitized <=> mans'[K].sanitized
              /\ "moved" \notin OddOf(K)' => (mans'[K].guided <=> Instrumented(bins'[K].what)),
           K \in DOMAIN mans' /\ "edited" \notin OddOf(K)' => mans'[K].text = TextOf(K),
           K \in DOMAIN bins' /\ "edited" \notin OddOf(K)' => bins'[K].text = TextOf(K) /\ TextOf(K) \notin Unfaithful,
           K \in told' /\ OddOf(K)' \cap {"killed", "shared", "early"} = {} => K \in DOMAIN mans'
    PROVE  HarnessInv'
<1>0. job'[p].key = <<>> /\ job'[p].pc = "off" /\ \A k \in Keys : k # <<>>
  BY KeyIsSome
<1>1. \A q \in Builders, k \in Keys : job'[q].key = k => job'[q] = job[q] /\ q # p
  BY <1>0, Zenon
<1>2. \A q \in Builders : job'[q].pc = "identify" => job'[q] = job[q]
  <2> SUFFICES ASSUME NEW q \in Builders, job'[q].pc = "identify" PROVE q # p
    OBVIOUS
  <2> QED BY <1>0
<1>3. \A q \in Builders : q # p /\ job[q].key = K => "shared" \in OddOf(K) /\ "shared" \in OddOf(K)'
  BY DEF HarnessInv, Alone
<1>4. Alone'
  BY <1>1 DEF HarnessInv, Alone
<1>5. AtWork'
  <2> SUFFICES ASSUME NEW q \in Builders, NEW k \in Keys, job'[q].key = k, "shared" \notin OddOf(k)'
               PROVE  Left(q, k)'
    BY DEF AtWork
  <2>1. job'[q] = job[q] /\ q # p
    BY <1>1
  <2>2. k # K /\ job[q].key = k /\ OddOf(k)' = OddOf(k)
    BY <1>3, <2>1
  <2>3. Left(q, k)
    BY <2>2 DEF HarnessInv, AtWork
  <2> QED BY <2>1, <2>2, <2>3 DEF Left
<1>6. Known'
  BY <1>1 DEF HarnessInv, Known
<1>7. Checked'
  <2>1. \A q \in Builders : job'[q].pc = "identify" => job'[q].read \notin Unfaithful
    BY <1>2 DEF HarnessInv, Checked
  <2>2. \A q \in Builders, k \in Keys : job'[q].key = k /\ "edited" \notin OddOf(k)' => TextOf(k) \notin Unfaithful
    BY <1>1 DEF HarnessInv, Checked
  <2>3. \A k \in DOMAIN bins' : "edited" \notin OddOf(k)' => bins'[k].text = TextOf(k) /\ TextOf(k) \notin Unfaithful
    BY DEF HarnessInv, Checked
  <2>4. \A k \in DOMAIN mans' : "edited" \notin OddOf(k)' => mans'[k].text = TextOf(k)
    BY DEF HarnessInv, Checked
  <2> QED BY <2>1, <2>2, <2>3, <2>4 DEF Checked
<1>8. Recorded'
  <2> SUFFICES ASSUME NEW k \in DOMAIN mans', "shared" \notin OddOf(k)'
               PROVE  /\ k \in DOMAIN bins' /\ Starts(bins'[k])
                      /\ bins'[k].sanitized <=> mans'[k].sanitized
                      /\ "moved" \notin OddOf(k)' => (mans'[k].guided <=> Instrumented(bins'[k].what))
    BY Zenon DEF Recorded
  <2>1. CASE k # K
    <3>1. k \in DOMAIN mans /\ mans'[k] = mans[k] /\ OddOf(k)' = OddOf(k)
      BY <2>1
    <3>2. k \in DOMAIN bins
      BY <3>1 DEF HarnessInv, Recorded
    <3> QED BY <2>1, <3>1, <3>2 DEF HarnessInv, Recorded
  <2> QED BY <2>1, Zenon
<1>9. Finished'
  <2> SUFFICES ASSUME NEW k \in DOMAIN bins' \ DOMAIN mans', OddOf(k)' \cap {"shared", "killed"} = {}
               PROVE  \E q \in Builders : job'[q].key = k
    BY Zenon DEF Finished
  <2>1. k # K /\ k \in DOMAIN bins \ DOMAIN mans /\ OddOf(k)' = OddOf(k)
    OBVIOUS
  <2>2. PICK q \in Builders : job[q].key = k
    BY <2>1 DEF HarnessInv, Finished
  <2> QED BY <2>1, <2>2
<1>10. AnswerIsListed'
  <2> SUFFICES ASSUME NEW k \in told', OddOf(k)' \cap {"killed", "shared", "early"} = {}
               PROVE  k \in DOMAIN bins' /\ k \in DOMAIN mans'
    BY DEF AnswerIsListed, Listed
  <2>1. CASE k = K
    BY <2>1
  <2>2. CASE k # K
    BY <2>2 DEF HarnessInv, AnswerIsListed, Listed
  <2> QED BY <2>1, <2>2
<1> QED BY <1>4, <1>5, <1>6, <1>7, <1>8, <1>9, <1>10 DEF HarnessInv

\* A build that goes on, or starts, with a digest.
LEMMA GoKeeps ==
    ASSUME HarnessTypeOK, HarnessInv, UNCHANGED <<lib, mans, told>>, NEW p \in Builders, NEW K \in Keys,
           job'[p].key = K, job[p].key \in {<<>>, K}, job'[p].pc # "identify",
           \A q \in Builders : q # p => job'[q] = job[q],
           \A j : OddOf(j) \subseteq OddOf(j)' /\ (j # K => OddOf(j)' = OddOf(j)),
           \A j : j # K => (j \in DOMAIN bins' <=> j \in DOMAIN bins),
           \A j \in DOMAIN bins : j \in DOMAIN bins' /\ (j # K => bins'[j] = bins[j]),
           "shared" \notin OddOf(K)' => Left(p, K)' /\ \A q \in Builders : q # p => job[q].key # K,
           K[3] <= lib[K[2]].version,
           K[3] = lib[K[2]].version => (job'[p].guided <=> Instrumented(lib[K[2]].what)),
           "edited" \notin OddOf(K)' => TextOf(K) \notin Unfaithful /\ (K \in DOMAIN bins' => bins'[K].text = TextOf(K))
    PROVE  HarnessInv'
<1>1. \A q \in Builders, k \in Keys : q # p /\ job'[q].key = k => job'[q] = job[q] /\ job[q].key = k
  OBVIOUS
<1>2. \A k \in Keys : job'[p].key = k => k = K
  OBVIOUS
<1>3. Alone'
  <2> SUFFICES ASSUME NEW q \in Builders, NEW r \in Builders, NEW k \in Keys,
                      q # r, job'[q].key = k, job'[r].key = k
               PROVE  "shared" \in OddOf(k)'
    BY DEF Alone
  <2>1. CASE q # p /\ r # p
    BY <1>1, <2>1 DEF HarnessInv, Alone
  <2>2. CASE q = p \/ r = p
    BY <1>1, <1>2, <2>2
  <2> QED BY <2>1, <2>2
<1>4. AtWork'
  <2> SUFFICES ASSUME NEW q \in Builders, NEW k \in Keys, job'[q].key = k, "shared" \notin OddOf(k)'
               PROVE  Left(q, k)'
    BY DEF AtWork
  <2>1. CASE q = p
    BY <1>2, <2>1
  <2>2. CASE q # p
    <3>1. k # K /\ job'[q] = job[q] /\ OddOf(k)' = OddOf(k)
      BY <2>2
    <3>2. Left(q, k)
      BY <3>1 DEF HarnessInv, AtWork
    <3> QED BY <3>1, <3>2 DEF Left
  <2> QED BY <2>1, <2>2
<1>5. Known'
  <2>1. \A q \in Builders, k \in Keys : q # p /\ job'[q].key = k =>
            /\ k[3] <= lib[k[2]].version
            /\ k[3] = lib[k[2]].version => (job'[q].guided <=> Instrumented(lib[k[2]].what))
    BY <1>1 DEF HarnessInv, Known
  <2> QED BY <1>2, <2>1 DEF Known
<1>6. Checked'
  <2>1. \A q \in Builders : job'[q].pc = "identify" => job'[q].read \notin Unfaithful
    BY DEF HarnessInv, Checked
  <2>2. \A q \in Builders, k \in Keys : job'[q].key = k /\ "edited" \notin OddOf(k)' => TextOf(k) \notin Unfaithful
    BY <1>1, <1>2 DEF HarnessInv, Checked
  <2>3. \A k \in DOMAIN bins' : "edited" \notin OddOf(k)' => bins'[k].text = TextOf(k) /\ TextOf(k) \notin Unfaithful
    BY DEF HarnessInv, Checked
  <2>4. \A k \in DOMAIN mans' : "edited" \notin OddOf(k)' => mans'[k].text = TextOf(k)
    BY DEF HarnessInv, Checked
  <2> QED BY <2>1, <2>2, <2>3, <2>4 DEF Checked
<1>7. Recorded'
  <2> SUFFICES ASSUME NEW k \in DOMAIN mans, "shared" \notin OddOf(k)'
               PROVE  /\ k \in DOMAIN bins' /\ Starts(bins'[k])
                      /\ bins'[k].sanitized <=> mans[k].sanitized
                      /\ "moved" \notin OddOf(k)' => (mans[k].guided <=> Instrumented(bins'[k].what))
    BY DEF Recorded
  <2>1. k # K
    BY DEF Left
  <2>2. OddOf(k)' = OddOf(k) /\ k \in DOMAIN bins
    BY <2>1 DEF HarnessInv, Recorded
  <2> QED BY <2>1, <2>2 DEF HarnessInv, Recorded
<1>8. Finished'
  <2> SUFFICES ASSUME NEW k \in DOMAIN bins' \ DOMAIN mans, OddOf(k)' \cap {"shared", "killed"} = {}
               PROVE  \E q \in Builders : job'[q].key = k
    BY DEF Finished
  <2>1. CASE k # K
    <3>1. PICK q \in Builders : job[q].key = k
      BY <2>1 DEF HarnessInv, Finished
    <3>2. k # <<>>
      BY <2>1, KeyIsSome DEF HarnessTypeOK
    <3> QED BY <2>1, <3>1, <3>2
  <2> QED BY <2>1
<1>9. AnswerIsListed'
  <2> SUFFICES ASSUME NEW k \in told, OddOf(k)' \cap {"killed", "shared", "early"} = {}
               PROVE  k \in DOMAIN bins' /\ k \in DOMAIN mans
    BY DEF AnswerIsListed, Listed
  <2>1. OddOf(k) \cap {"killed", "shared", "early"} = {}
    OBVIOUS
  <2> QED BY <2>1 DEF HarnessInv, AnswerIsListed, Listed
<1> QED BY <1>3, <1>4, <1>5, <1>6, <1>7, <1>8, <1>9 DEF HarnessInv

LEMMA LinkKeeps ==
    ASSUME HarnessTypeOK, HarnessInv, NEW p \in Builders, NEW sanitized \in BOOLEAN, NEW then,
           IF sanitized THEN then = "start" ELSE then = "start-bare",
           job[p].key # <<>>, Link(p, sanitized, then), UNCHANGED <<world, told>>
    PROVE  HarnessInv'
<1>0. PICK K \in Keys : K = job[p].key
  BY LinkDoes
<1> DEFINE b == Linked(p, sanitized)
<1>1. Go(p, then) /\ mans' = mans /\ bins' = With(bins, K, b)
  BY <1>0, LinkDoes
<1>2. /\ \A j : OddOf(j) \subseteq OddOf(j)' /\ (j # K => OddOf(j)' = OddOf(j))
      /\ text # TextOf(K) => "edited" \in OddOf(K)'
      /\ lib[K[2]].version # K[3] => "moved" \in OddOf(K)'
  <2>1. PICK what : /\ Cross(K, what)
                    /\ text # TextOf(K) => "edited" \in what
                    /\ lib[K[2]].version # K[3] => "moved" \in what
    BY <1>0, LinkDoes
  <2>2. \A j : OddOf(j)' = IF j = K THEN OddOf(j) \cup what ELSE OddOf(j)
    BY <1>0, <2>1, CrossAdds
  <2> QED BY <2>1, <2>2
<1>3. /\ job'[p] = [job[p] EXCEPT !.pc = then]
      /\ \A q \in Builders : q # p => job'[q] = job[q]
  BY <1>0, <1>1, JobGoes, HarnessTypeParts
<1>4. job'[p].key = K /\ job'[p].pc = then /\ job'[p].guided = job[p].guided
  BY <1>0, <1>1, JobGoes, HarnessTypeParts
<1>5. /\ DOMAIN bins' = DOMAIN bins \cup {K} /\ bins'[K] = b
      /\ \A j \in DOMAIN bins : j # K => bins'[j] = bins[j]
  BY <1>0, <1>1 DEF With
<1>6. b.text = text /\ b.what = lib[K[2]].what /\ (b.sanitized <=> sanitized)
  BY <1>0 DEF Linked
<1>7. UNCHANGED <<lib, mans, told>>
  BY <1>0, <1>1 DEF world
<1>8. /\ K[3] <= lib[K[2]].version
      /\ K[3] = lib[K[2]].version => (job[p].guided <=> Instrumented(lib[K[2]].what))
  BY <1>0, <1>1 DEF HarnessInv, Known
<1>9. "edited" \notin OddOf(K)' => TextOf(K) \notin Unfaithful /\ bins'[K].text = TextOf(K)
  BY <1>0, <1>1, <1>2, <1>5, <1>6 DEF HarnessInv, Checked
<1> HIDE DEF b
<1>10. ASSUME "shared" \notin OddOf(K)' PROVE Left(p, K)'
  <2>1. "shared" \notin OddOf(K)
    BY <1>0, <1>2, <1>10
  <2>2. K \notin DOMAIN mans
    BY <1>0, <1>1, <2>1 DEF HarnessInv, AtWork, Left
  <2>3. "moved" \notin OddOf(K)' => (job[p].guided <=> Instrumented(b.what))
    BY <1>0, <1>2, <1>6, <1>8
  <2>4. bins'[K].sanitized <=> then \in {"start", "bare", "record"}
    BY <1>0, <1>5, <1>6
  <2> QED BY <1>4, <1>5, <1>7, <2>2, <2>3, <2>4 DEF Left
<1>11. "shared" \notin OddOf(K)' => \A q \in Builders : q # p => job[q].key # K
  BY <1>0, <1>1, <1>2 DEF HarnessInv, Alone
<1>12. then # "identify" /\ job[p].key \in {<<>>, K}
  BY <1>0
<1> QED BY <1>0, <1>1, <1>2, <1>3, <1>4, <1>5, <1>7, <1>8, <1>9, <1>10, <1>11, <1>12, GoKeeps

LEMMA RefuseKeeps ==
    ASSUME HarnessTypeOK, HarnessInv, NEW p \in Builders, job[p].key # <<>>, Refuse(p), UNCHANGED <<world, told>>
    PROVE  HarnessInv'
<1>0. PICK K \in Keys : K = job[p].key
  BY DEF HarnessTypeOK
<1>1. job'[p].key = <<>> /\ job'[p].pc = "off" /\ \A q \in Builders : q # p => job'[q] = job[q]
  BY <1>0, JobEnds, HarnessTypeParts DEF Refuse
<1>2. bins' = Without(bins, K) /\ mans' = Without(mans, K) /\ UNCHANGED <<lib, told, odd>>
  BY <1>0 DEF Refuse, world
<1>3. \A j : OddOf(j)' = OddOf(j)
  BY <1>0, <1>2 DEF OddOf
<1>4. K \in told /\ OddOf(K) \cap {"killed", "shared", "early"} = {} => FALSE
  BY <1>0 DEF HarnessInv, AnswerIsListed, Listed, AtWork, Left
<1>5. K \notin DOMAIN bins' /\ K \notin DOMAIN mans'
  BY <1>0, <1>2 DEF Without
<1>6. /\ \A j : j # K => (j \in DOMAIN bins' <=> j \in DOMAIN bins) /\ (j \in DOMAIN mans' <=> j \in DOMAIN mans)
      /\ \A j \in DOMAIN bins : j # K => bins'[j] = bins[j]
      /\ \A j \in DOMAIN mans : j # K => mans'[j] = mans[j]
  BY <1>0, <1>2 DEF Without
<1> QED BY <1>0, <1>1, <1>2, <1>3, <1>4, <1>5, <1>6, EndKeeps

\* A start that goes on leaves the binary as it is.
LEMMA StartKeeps ==
    ASSUME HarnessTypeOK, HarnessInv, NEW p \in Builders, NEW pc \in {"record", "record-bare", "bare"}, Go(p, pc),
           job[p].key \in Keys, UNCHANGED <<world, told, files, odd>>, job[p].key \in DOMAIN bins,
           pc = "bare" \/ Starts(bins[job[p].key]),
           IF pc = "record-bare" THEN job[p].pc = "start-bare" ELSE job[p].pc = "start"
    PROVE  HarnessInv'
<1>0. PICK K \in Keys : K = job[p].key
  OBVIOUS
<1>1. /\ job'[p] = [job[p] EXCEPT !.pc = pc]
      /\ \A q \in Builders : q # p => job'[q] = job[q]
  BY <1>0, JobGoes, HarnessTypeParts
<1>2. job'[p].key = K /\ job'[p].pc = pc /\ job'[p].guided = job[p].guided
  BY <1>0, JobGoes, HarnessTypeParts
<1>3. UNCHANGED <<lib, mans, told, bins>> /\ \A j : OddOf(j)' = OddOf(j)
  BY <1>0 DEF world, files, OddOf
<1>4. ASSUME "shared" \notin OddOf(K) PROVE Left(p, K)'
  <2>1. Left(p, K)
    BY <1>0, <1>4 DEF HarnessInv, AtWork
  <2>2. bins[K].sanitized <=> pc \in {"start", "bare", "record"}
    BY <1>0, <2>1 DEF Left
  <2>3. pc \in {"record", "record-bare"} => Starts(bins[K])
    BY <1>0
  <2>4. K \notin DOMAIN mans /\ K \in DOMAIN bins /\ pc # "compile"
    BY <1>0, <2>1 DEF Left
  <2>5. "moved" \notin OddOf(K) => (job[p].guided <=> Instrumented(bins[K].what))
    BY <1>0, <2>1 DEF Left
  <2> QED BY <1>2, <1>3, <2>2, <2>3, <2>4, <2>5 DEF Left
<1>5. "shared" \notin OddOf(K) => \A q \in Builders : q # p => job[q].key # K
  BY <1>0 DEF HarnessInv, Alone
<1>6. /\ K[3] <= lib[K[2]].version
      /\ K[3] = lib[K[2]].version => (job[p].guided <=> Instrumented(lib[K[2]].what))
  BY <1>0 DEF HarnessInv, Known
<1>7. "edited" \notin OddOf(K) => TextOf(K) \notin Unfaithful /\ bins[K].text = TextOf(K)
  BY <1>0 DEF HarnessInv, Checked
<1>8. job[p].key \in {<<>>, K} /\ K \in DOMAIN bins
  BY <1>0
<1> QED BY <1>0, <1>1, <1>2, <1>3, <1>4, <1>5, <1>6, <1>7, <1>8, GoKeeps

LEMMA RecordKeeps ==
    ASSUME HarnessTypeOK, HarnessInv, NEW p \in Builders, Record(p)
    PROVE  HarnessInv'
<1>0. PICK K \in Keys : K = job[p].key
  BY RecordDoes
<1> DEFINE m == [text |-> text, sanitized |-> job[p].pc = "record", guided |-> job[p].guided]
<1>1. /\ UNCHANGED <<lib, bins>> /\ Ended(p) /\ mans' = With(mans, K, m)
      /\ told' = told \cup {K} /\ Cross(K, IF text # TextOf(K) THEN {"edited"} ELSE {})
  BY <1>0, RecordDoes DEF world
<1>2. /\ \A j : OddOf(j) \subseteq OddOf(j)' /\ (j # K => OddOf(j)' = OddOf(j))
      /\ text # TextOf(K) => "edited" \in OddOf(K)'
  <2> DEFINE what == IF text # TextOf(K) THEN {"edited"} ELSE {}
  <2>1. \A j : OddOf(j)' = IF j = K THEN OddOf(j) \cup what ELSE OddOf(j)
    BY <1>0, <1>1, CrossAdds
  <2> QED BY <2>1
<1>3. job'[p].key = <<>> /\ job'[p].pc = "off" /\ \A q \in Builders : q # p => job'[q] = job[q]
  BY <1>0, <1>1, JobEnds, HarnessTypeParts
<1>4. m.text = text /\ (m.sanitized <=> job[p].pc = "record") /\ m.guided = job[p].guided
  OBVIOUS
<1>5. ASSUME "shared" \notin OddOf(K)'
      PROVE  /\ K \in DOMAIN bins /\ Starts(bins[K])
             /\ bins[K].sanitized <=> m.sanitized
             /\ "moved" \notin OddOf(K)' => (m.guided <=> Instrumented(bins[K].what))
  <2>1. "shared" \notin OddOf(K)
    BY <1>0, <1>2, <1>5
  <2>2. Left(p, K) /\ job[p].pc \in {"record", "record-bare"}
    BY <1>0, <1>1, <2>1 DEF HarnessInv, AtWork, Record
  <2>3. K \in DOMAIN bins /\ Starts(bins[K]) /\ (bins[K].sanitized <=> job[p].pc = "record")
    BY <1>0, <2>2 DEF Left
  <2>4. "moved" \notin OddOf(K)' => (job[p].guided <=> Instrumented(bins[K].what))
    BY <1>0, <1>2, <2>2 DEF Left
  <2> HIDE DEF m
  <2> QED BY <1>4, <2>3, <2>4
<1>6. "edited" \notin OddOf(K)' => m.text = TextOf(K)
  BY <1>0, <1>2
<1>7. K \in DOMAIN bins /\ "edited" \notin OddOf(K)' => bins[K].text = TextOf(K) /\ TextOf(K) \notin Unfaithful
  BY <1>0, <1>2 DEF HarnessInv, Checked
<1> HIDE DEF m
<1>8. /\ DOMAIN mans' = DOMAIN mans \cup {K} /\ mans'[K] = m
      /\ \A j \in DOMAIN mans : j # K => mans'[j] = mans[j]
  BY <1>0, <1>1 DEF With
<1>9. OddOf(K)' \cap {"shared", "killed"} = {} => K \in DOMAIN bins
  BY <1>0, <1>5
<1> QED BY <1>0, <1>1, <1>2, <1>3, <1>5, <1>6, <1>7, <1>8, <1>9, EndKeeps

LEMMA KillKeeps ==
    ASSUME HarnessTypeOK, HarnessInv, NEW p \in Builders, Kill(p)
    PROVE  HarnessInv'
<1>0. PICK K \in Keys : K = job[p].key
  BY DEF Kill, HarnessTypeOK
<1>1. Cross(K, {"killed"}) /\ Ended(p) /\ UNCHANGED <<lib, bins, mans, told>>
  BY <1>0 DEF Kill, world, files
<1>2. \A j : OddOf(j)' = IF j = K THEN OddOf(j) \cup {"killed"} ELSE OddOf(j)
  BY <1>0, <1>1, CrossAdds
<1>3. job'[p].key = <<>> /\ job'[p].pc = "off" /\ \A q \in Builders : q # p => job'[q] = job[q]
  BY <1>0, <1>1, JobEnds, HarnessTypeParts
<1>4. K \in DOMAIN mans /\ "shared" \notin OddOf(K)' =>
              /\ K \in DOMAIN bins /\ Starts(bins[K])
              /\ bins[K].sanitized <=> mans[K].sanitized
              /\ "moved" \notin OddOf(K)' => (mans[K].guided <=> Instrumented(bins[K].what))
  BY <1>0, <1>2 DEF HarnessInv, Recorded
<1>5. /\ K \in DOMAIN mans /\ "edited" \notin OddOf(K)' => mans[K].text = TextOf(K)
      /\ K \in DOMAIN bins /\ "edited" \notin OddOf(K)' => bins[K].text = TextOf(K) /\ TextOf(K) \notin Unfaithful
  BY <1>0, <1>2 DEF HarnessInv, Checked
<1>6. "killed" \in OddOf(K)'
  BY <1>0, <1>2
<1> QED BY <1>0, <1>1, <1>2, <1>3, <1>4, <1>5, <1>6, EndKeeps

\* A digest is answered with at once, or its build begins.
LEMMA IdentifyKeeps ==
    ASSUME HarnessTypeOK, HarnessInv, NEW p \in Builders, Identify(p)
    PROVE  HarnessInv'
<1>0. PICK k \in Keys : k = <<text, Tree, lib[Tree].version>>
  BY IdentifyDoes
<1>1. job[p].key = <<>> /\ job[p].pc = "identify" /\ UNCHANGED <<world, files>>
  BY IdentifyDoes DEF Identify
<1>2. UNCHANGED <<lib, files, bins, mans>> /\ k # <<>>
  BY <1>1, KeyIsSome DEF world, files
<1>3. Ended(p) => job'[p].key = <<>> /\ job'[p].pc = "off" /\ \A q \in Builders : q # p => job'[q] = job[q]
  BY JobEnds, HarnessTypeParts
<1>4. CASE Ended(p) /\ UNCHANGED <<told, odd>>
  <2>1. \A j : OddOf(j)' = OddOf(j)
    BY <1>4 DEF OddOf
  <2> QED BY <1>1, <1>2, <1>3, <1>4, <2>1, QuietKeeps
<1>5. CASE /\ Ended(p) /\ k \in DOMAIN bins /\ told' = told \cup {k}
           /\ Cross(k, IF Others(p, k) # {} THEN {"early"} ELSE {})
  <2> DEFINE what == IF Others(p, k) # {} THEN {"early"} ELSE {}
  <2>1. \A j : OddOf(j)' = IF j = k THEN OddOf(j) \cup what ELSE OddOf(j)
    BY <1>5, CrossAdds
  <2>2. OddOf(k)' \cap {"killed", "shared", "early"} = {} => k \in Listed
    <3> SUFFICES ASSUME OddOf(k)' \cap {"killed", "shared", "early"} = {}, k \notin DOMAIN mans PROVE FALSE
      BY <1>5 DEF Listed
    <3>1. Others(p, k) = {} /\ OddOf(k) \cap {"shared", "killed"} = {}
      BY <2>1
    <3>2. \E q \in Builders : job[q].key = k
      BY <1>5, <3>1 DEF HarnessInv, Finished
    <3> QED BY <1>1, <1>2, <3>1, <3>2 DEF Others
  <2>3. \A j : OddOf(j) \subseteq OddOf(j)'
    BY <2>1
  <2> HIDE DEF what
  <2> QED BY <1>1, <1>2, <1>3, <1>5, <2>2, <2>3, QuietKeeps
<1>6. CASE /\ k \notin DOMAIN bins /\ UNCHANGED told
           /\ job' = [job EXCEPT ![p].pc = "compile", ![p].key = k, ![p].guided = Instrumented(lib[Tree].what)]
           /\ Cross(k, (IF Others(p, k) # {} THEN {"shared"} ELSE {})
                         \cup (IF text # job[p].read THEN {"edited"} ELSE {}))
  <2> DEFINE what == (IF Others(p, k) # {} THEN {"shared"} ELSE {})
                       \cup (IF text # job[p].read THEN {"edited"} ELSE {})
             g == Instrumented(lib[Tree].what)
  <2>1. \A j : OddOf(j)' = IF j = k THEN OddOf(j) \cup what ELSE OddOf(j)
    BY <1>6, CrossAdds
  <2>2. /\ \A j : OddOf(j) \subseteq OddOf(j)' /\ (j # k => OddOf(j)' = OddOf(j))
        /\ "shared" \notin OddOf(k)' => "shared" \notin OddOf(k) /\ Others(p, k) = {}
        /\ "edited" \notin OddOf(k)' => text = job[p].read
    BY <2>1
  <2>3. /\ job'[p].key = k /\ job'[p].pc = "compile" /\ job'[p].guided = g
        /\ \A q \in Builders : q # p => job'[q] = job[q]
    <3> HIDE DEF g
    <3>1. job' = [job EXCEPT ![p].pc = "compile", ![p].key = k, ![p].guided = g]
      BY <1>6 DEF g
    <3> QED BY <3>1, HarnessTypeParts DEF JobsOK, Jobs
  <2>4. k[1] = text /\ k[2] = Tree /\ k[3] = lib[Tree].version /\ lib[Tree].version \in Nat
    BY <1>0, ChoiceIsKnown
  <2>5. "shared" \notin OddOf(k)' => Left(p, k)' /\ \A q \in Builders : q # p => job[q].key # k
    <3> SUFFICES ASSUME "shared" \notin OddOf(k)' PROVE Left(p, k)' /\ \A q \in Builders : q # p => job[q].key # k
      OBVIOUS
    <3>1. k \notin DOMAIN mans
      BY <1>6, <2>2 DEF HarnessInv, Recorded
    <3>2. Left(p, k)'
      BY <1>2, <1>6, <2>3, <3>1 DEF Left
    <3> QED BY <2>2, <3>2 DEF Others
  <2>6. "edited" \notin OddOf(k)' => TextOf(k) \notin Unfaithful
    BY <1>1, <2>2, <2>4 DEF HarnessInv, Checked, TextOf
  <2>7. k[3] <= lib[k[2]].version /\ (job'[p].guided <=> Instrumented(lib[k[2]].what))
    BY <2>3, <2>4
  <2>8. k \notin DOMAIN bins /\ UNCHANGED <<lib, mans, told, bins>>
    BY <1>2, <1>6
  <2>9. job'[p].pc # "identify" /\ job[p].key \in {<<>>, k}
    BY <1>1, <2>3
  <2> HIDE DEF what, g
  <2> QED BY <2>2, <2>3, <2>5, <2>6, <2>7, <2>8, <2>9, GoKeeps
<1> QED BY <1>0, <1>4, <1>5, <1>6, IdentifyDoes

\* A build without a digest goes on to read the source.
LEMMA BeforeKeeps ==
    ASSUME HarnessTypeOK, HarnessInv, NEW p \in Builders, Hold(p) \/ Check(p)
    PROVE  HarnessInv'
<1>1. UNCHANGED <<lib, files, told, odd>> /\ job[p].key = <<>>
  BY HarnessTypeParts DEF Hold, Check, JobsOK, world
<1>2. \A j : OddOf(j)' = OddOf(j)
  BY <1>1 DEF OddOf
<1>3. /\ job'[p].key = <<>> /\ (job'[p].pc = "identify" => job'[p].read \notin Unfaithful)
      /\ \A q \in Builders : q # p => job'[q] = job[q]
  <2>1. CASE Hold(p)
    BY <2>1, HarnessTypeParts DEF Hold, JobsOK, Jobs, NoBuild
  <2>2. CASE Check(p) /\ Ended(p)
    <3>1. job'[p].key = <<>> /\ job'[p].pc = "off" /\ \A q \in Builders : q # p => job'[q] = job[q]
      BY <2>2, JobEnds, HarnessTypeParts
    <3> QED BY <3>1
  <2>3. CASE text \notin Unfaithful /\ job' = [job EXCEPT ![p].pc = "identify", ![p].read = text]
    <3>1. /\ job'[p] = [job[p] EXCEPT !.pc = "identify", !.read = text]
          /\ \A q \in Builders : q # p => job'[q] = job[q]
      BY <2>3, HarnessTypeParts DEF JobsOK
    <3>2. job[p] \in Jobs
      BY HarnessTypeParts DEF JobsOK
    <3>3. job'[p].key = job[p].key /\ job'[p].read = text
      BY <3>1, <3>2 DEF Jobs
    <3> QED BY <1>1, <2>3, <3>1, <3>3
  <2> QED BY <2>1, <2>2, <2>3 DEF Check
<1> QED BY <1>1, <1>2, <1>3, QuietKeeps

\* A library rebuilt is a version no digest names; an edit is no binary's.
LEMMA AroundKeeps ==
    ASSUME HarnessTypeOK, HarnessInv, Rebuild \/ RebuildSibling \/ Edit
    PROVE  HarnessInv'
<1>1. UNCHANGED <<job, bins, mans, told>> /\ \A j : OddOf(j)' = OddOf(j)
  <2>1. UNCHANGED <<job, files, told, odd>>
    BY RebuildDoes DEF Edit
  <2> QED BY <2>1 DEF files, OddOf
<1>2. Known'
  <2>1. CASE Edit
    BY <1>1, <2>1 DEF Edit, HarnessInv, Known
  <2>2. CASE Rebuild \/ RebuildSibling
    <3>1. PICK tree \in Trees, sig \in Revs, new \in Libraries :
               lib' = [lib EXCEPT ![tree] = [version |-> @.version + 1, sig |-> sig, what |-> new]]
      BY <2>2, RebuildDoes
    <3> SUFFICES ASSUME NEW p \in Builders, NEW k \in Keys, job[p].key = k
                 PROVE  /\ k[3] <= lib'[k[2]].version
                        /\ k[3] = lib'[k[2]].version => (job[p].guided <=> Instrumented(lib'[k[2]].what))
      BY <1>1 DEF Known
    <3>2. /\ k[3] \in Nat /\ k[2] \in Trees /\ lib[k[2]].version \in Nat
          /\ k[3] <= lib[k[2]].version
          /\ k[3] = lib[k[2]].version => (job[p].guided <=> Instrumented(lib[k[2]].what))
      BY KeyIsSome DEF HarnessInv, Known, HarnessTypeOK
    <3>3. CASE k[2] = tree
      <4>1. lib'[k[2]].version = lib[k[2]].version + 1
        BY <3>1, <3>2, <3>3 DEF HarnessTypeOK
      <4>2. \A a, b \in Nat : a <= b => a <= b + 1 /\ a # b + 1
        OBVIOUS
      <4> QED BY <3>2, <4>1, <4>2
    <3>4. CASE k[2] # tree
      <4>1. lib'[k[2]] = lib[k[2]]
        BY <3>1, <3>2, <3>4 DEF HarnessTypeOK
      <4> QED BY <3>2, <4>1
    <3> QED BY <3>3, <3>4
  <2> QED BY <2>1, <2>2
<1>3. Alone' /\ AtWork' /\ Checked' /\ Recorded' /\ Finished' /\ AnswerIsListed'
  BY <1>1 DEF HarnessInv, Alone, AtWork, Left, Checked, Recorded, Finished, AnswerIsListed, Listed
<1> QED BY <1>2, <1>3 DEF HarnessInv

LEMMA HarnessInvStep ==
    ASSUME HarnessTypeOK, HarnessInv, HarnessNext
    PROVE  HarnessInv'
<1>1. ASSUME NEW p \in Builders, Compile(p) \/ CompileBare(p) PROVE HarnessInv'
  BY <1>1, CompileDoes, RefuseKeeps, LinkKeeps
<1>2. ASSUME NEW p \in Builders, Start(p) PROVE HarnessInv'
  BY <1>2, StartDoes, RefuseKeeps, StartKeeps
<1> QED
  BY <1>1, <1>2, BeforeKeeps, IdentifyKeeps, RecordKeeps, KillKeeps, AroundKeeps DEF HarnessNext

\* The names of any library and any text a harness may have are plain.
Named == \A l \in Libraries, t \in Texts : Plain(l.exports, Calls[t] \cup OwnCalls)

\* For any builders, libraries and texts: a campaign is given a binary that
\* starts, of a faithful source, guided if it is said to be; a source put back
\* has its binary back; what a build answered with is there.  A function is
\* offered that no harness calls, and the route finds one when the gate would.
THEOREM HarnessesAreSound ==
    ASSUME \A l \in Libraries : l.hooks \subseteq {"counters", "guards"}, Named
    PROVE  HarnessSpec => [](GivenIsSound /\ RevertIsGiven /\ AnswerIsListed /\ OfferedOnce /\ RouteAgrees)
<1>1. HarnessInit => HarnessInv
  <2> SUFFICES ASSUME HarnessInit PROVE HarnessInv
    OBVIOUS
  <2>1. \A p \in Builders : job[p].key = <<>> /\ job[p].pc = "off"
    BY DEF HarnessInit, NoBuild
  <2>2. DOMAIN bins = {} /\ DOMAIN mans = {} /\ told = {}
    BY DEF HarnessInit
  <2> QED
    BY <2>1, <2>2, KeyIsSome DEF HarnessInv, Alone, AtWork, Known, Checked, Recorded, Finished, AnswerIsListed
<1>2. HarnessTypeOK /\ HarnessInv /\ [HarnessNext]_harnessVars => HarnessInv'
  <2> SUFFICES ASSUME HarnessTypeOK, HarnessInv, [HarnessNext]_harnessVars PROVE HarnessInv'
    OBVIOUS
  <2>1. CASE UNCHANGED harnessVars
    <3>1. UNCHANGED <<lib, job, bins, mans, told>> /\ \A j : OddOf(j)' = OddOf(j)
      BY <2>1 DEF harnessVars, world, files, OddOf
    <3> QED
      BY <3>1 DEF HarnessInv, Alone, AtWork, Left, Known, Checked, Recorded, Finished, AnswerIsListed, Listed
  <2> QED BY <2>1, HarnessInvStep
<1>3. HarnessTypeOK /\ HarnessInv => GivenIsSound /\ AnswerIsListed
  <2> SUFFICES ASSUME HarnessTypeOK, HarnessInv,
                      NEW k \in Pick, OddOf(k) \cap {"edited", "moved", "shared"} = {}
               PROVE  /\ Starts(bins[k]) /\ bins[k].sanitized = mans[k].sanitized
                      /\ bins[k].text \notin Unfaithful
                      /\ (mans[k].guided => "counters" \in bins[k].what.hooks)
                      /\ (Current(k) => bins[k].text = text)
    BY DEF GivenIsSound, HarnessInv
  <2>1. k \in DOMAIN bins /\ k \in DOMAIN mans
    BY DEF Pick, Listed
  <2>2. /\ Starts(bins[k]) /\ (bins[k].sanitized <=> mans[k].sanitized)
        /\ (mans[k].guided <=> Instrumented(bins[k].what))
    BY <2>1 DEF HarnessInv, Recorded
  <2>3. bins[k].sanitized = mans[k].sanitized
    <3>1. bins[k].sanitized \in BOOLEAN /\ mans[k].sanitized \in BOOLEAN
      BY <2>1 DEF HarnessTypeOK, Binaries, Manifests
    <3> QED BY <2>2, <3>1
  <2>4. bins[k].text = TextOf(k) /\ TextOf(k) \notin Unfaithful /\ mans[k].text = TextOf(k)
    BY <2>1 DEF HarnessInv, Checked
  <2>5. mans[k].guided => "counters" \in bins[k].what.hooks
    <3>1. bins[k].what \in Libraries
      BY <2>1 DEF HarnessTypeOK, Binaries
    <3>2. bins[k].what.hooks \subseteq {"counters", "guards"} /\ "guards" \notin bins[k].what.hooks
      BY <2>2, <3>1 DEF Starts
    <3> QED BY <2>2, <3>2 DEF Instrumented
  <2> QED BY <2>2, <2>3, <2>4, <2>5 DEF Current
<1>4. RevertIsGiven
  BY DEF RevertIsGiven, Pick, Prefers
<1>5. HarnessTypeOK => OfferedOnce
  <2> SUFFICES ASSUME HarnessTypeOK, NEW calls \in {Calls[text], OwnCalls}, NEW c \in calls,
                      NEW s \in Offered(Exported, Calls[text] \cup OwnCalls)
               PROVE  /\ c # <<s>> /\ c # Qualified[s]
                      /\ c = <<Base[s]>> => \E t \in Exported : t # s /\ (t = Base[s] \/ Base[t] = Base[s])
    BY DEF OfferedOnce
  <2> DEFINE all == Calls[text] \cup OwnCalls
  <2>1. s \in Exported
    BY DEF Offered, Declared
  <2>2. "covered" \notin Blockers(s, Exported, Driven(all, Exported))
    BY DEF Offered
  <2>3. s \notin Driven(all, Exported)
    BY <2>2 DEF Blockers
  <2>4. Plain(Exported, all)
    BY ChoiceIsKnown DEF Named, Exported, HarnessTypeOK
  <2>5. c \in all
    OBVIOUS
  <2> HIDE DEF all
  <2> QED BY <2>1, <2>3, <2>4, <2>5, CalledIsDriven
<1>6. RouteAgrees
  BY DeclaredAgrees DEF RouteAgrees
<1> QED BY <1>1, <1>2, <1>3, <1>4, <1>5, <1>6, HarnessTypeCorrect, PTL DEF HarnessSpec

=============================================================================
