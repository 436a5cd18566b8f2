-------------------------- MODULE SealedGateProofs --------------------------
(***************************************************************************)
(* For any slots, artifacts and number of chains: nothing is put under     *)
(* review while a chain that writes it is live, the two exceptions that    *)
(* FindingSettled and CrashSettled name aside.                             *)
(*                                                                         *)
(* The clock carries the argument.  A chain's tick is at most the clock, a *)
(* tick taken later is larger, so whatever is first seen or mentioned      *)
(* after a chain wrote it has a tick no smaller than the chain's.          *)
(*                                                                         *)
(* What the gate reviews rests on more: the crash tree a pass works        *)
(* through, the evidence of a probe, and the receipt of a review.          *)
(***************************************************************************)
EXTENDS SealedGate, CrashTree, ProbeEvidence, FiniteSetTheorems, TLAPS

\* A slot the round has collected has no session, so retiring it ends no
\* running chain.
RoundOK ==
    /\ \A a \in fin : sess[a] = "none"
    /\ pc = "retire" => todo \subseteq fin
    /\ pc = "launch" => fin = {}

\* Ticks of chains and of writers are ticks the clock has shown.
ClockBounds ==
    /\ \A a \in Slots : chains[a] # NoTick => chains[a] <= clock
    /\ \A x \in Artifacts : \A w \in writers[x] : w[2] <= clock

\* Nothing is known of an artifact before its first write.
AbsentUnknown ==
    \A x \in Artifacts : disk[x] = "absent" =>
        /\ writers[x] = {} /\ firstSeen[x] = NoTick
        /\ \A a \in Slots : touched[x][a] = NoTick /\ x \notin named[a]

\* Only what is complete has been seen, and no earlier than it was written.
SeenAfterWrite ==
    \A x \in Artifacts :
        /\ disk[x] = "unfinished" => firstSeen[x] = NoTick
        /\ \A w \in writers[x] : firstSeen[x] # NoTick => w[2] <= firstSeen[x]

\* A finding has one writing chain, and mentions of it are no older; a crash
\* is written by chains of the slot in its name.
WritersOK ==
    /\ \A f \in Findings : \A w \in writers[f] :
          /\ writers[f] = {w}
          /\ \A a \in Slots : touched[f][a] # NoTick => w[2] <= touched[f][a]
    /\ \A c \in Crashes : \A w \in writers[c] : w[1] = Owner[c]

SweepComplete == \A x \in sweep : disk[x] = "complete"

\* What the proof carries along.
IInv ==
    /\ TypeOK /\ RoundOK /\ ClockBounds /\ AbsentUnknown /\ SeenAfterWrite
    /\ WritersOK /\ SweepComplete /\ FindingSettled /\ CrashSettled

LEMMA InitInv == Init => IInv
<1> SUFFICES ASSUME Init PROVE IInv
  OBVIOUS
<1>1. ClockOK
  BY DEF Init, ClockOK, Ticks
<1>2. ThreadOK /\ DriverOK
  BY DEF Init, ThreadOK, DriverOK
<1>3. SessionsOK
  BY DEF Init, SessionsOK, Artifacts
<1>4. TypeOK /\ RoundOK
  BY <1>1, <1>2, <1>3 DEF Init, TypeOK, RoundOK
<1>5. ClockBounds /\ AbsentUnknown /\ SeenAfterWrite /\ SweepComplete
  BY DEF Init, ClockBounds, AbsentUnknown, SeenAfterWrite, SweepComplete
<1>6. WritersOK /\ FindingSettled /\ CrashSettled
  BY DEF Init, WritersOK, FindingSettled, CrashSettled, Artifacts
<1> QED BY <1>4, <1>5, <1>6 DEF IInv

-----------------------------------------------------------------------------
(* Types *)

\* Stamping types, and what it changes of an artifact's first-seen tick.
LEMMA StampFacts ==
    ASSUME TypeOK, Stamp
    PROVE  /\ firstSeen' \in [Artifacts -> Ticks]
           /\ \A x \in Artifacts :
                 /\ firstSeen'[x] \in {NoTick, clock, firstSeen[x]}
                 /\ disk[x] = "unfinished" => firstSeen'[x] = NoTick
                 /\ disk[x] = "absent" => firstSeen'[x] = firstSeen[x]
                 /\ disk[x] = "complete" => firstSeen'[x] # NoTick
BY DEF TypeOK, ClockOK, Stamp, Ticks, NoTick

\* Launching types: the chain is the old one or has the clock's next tick.
LEMMA LaunchFacts ==
    ASSUME TypeOK, NEW a \in Slots, NEW k \in BOOLEAN, Launch(a, k)
    PROVE  /\ clock' \in Nat /\ clock <= clock'
           /\ chains' \in [Slots -> Ticks] /\ chains'[a] # NoTick
           /\ \A b \in Slots : chains'[b] = chains[b] \/ (chains'[b] = clock + 1 /\ clock' = clock + 1)
           /\ sess' \in [Slots -> {"none", "run", "done"}]
           /\ \A b \in Slots : b # a => sess'[b] = sess[b] /\ chains'[b] = chains[b]
           /\ named' \in [Slots -> SUBSET Artifacts]
           /\ \A b \in Slots : named'[b] \subseteq named[b]
BY DEF TypeOK, ClockOK, SessionsOK, Launch, Ticks, NoTick

\* Every step keeps the types, and a session in flight in a chain.
LEMMA TypeStep ==
    ASSUME TypeOK, RoundOK, [Next]_vars
    PROVE  TypeOK' /\ RoundOK'
<1> USE DEF worker, thread, driver, sessions
<1>1. CASE UNCHANGED vars
  BY <1>1 DEF vars, TypeOK, RoundOK, ClockOK, ThreadOK, DriverOK, SessionsOK
<1>2. ASSUME NEW a \in Slots, NEW k \in BOOLEAN, Launch(a, k), a \notin fin',
             fin' \subseteq fin, DriverOK', pc' # "retire", pc' = "launch" => fin' = {}
      PROVE  TypeOK' /\ RoundOK'
  <2>1. ClockOK'
    BY <1>2, LaunchFacts DEF Launch, TypeOK, ClockOK
  <2>2. ThreadOK'
    BY <1>2 DEF Launch, TypeOK, ThreadOK
  <2>3. SessionsOK'
    BY <1>2, LaunchFacts DEF Launch, TypeOK, SessionsOK
  <2>4. \A b \in Slots : sess'[b] # "none" => chains'[b] # NoTick
    BY <1>2, LaunchFacts DEF TypeOK
  <2>5. fin \subseteq Slots
    BY DEF TypeOK, DriverOK
  <2>6. RoundOK'
    BY <1>2, <2>5, LaunchFacts DEF RoundOK
  <2> QED BY <1>2, <2>1, <2>2, <2>3, <2>4, <2>6 DEF TypeOK
<1>3. ASSUME NEW a \in Slots, LaunchFirst(a) PROVE TypeOK' /\ RoundOK'
  <2>1. DriverOK' /\ a \notin fin' /\ fin' \subseteq fin /\ pc' = "launch" /\ fin' = {}
    BY <1>3 DEF LaunchFirst, TypeOK, DriverOK, RoundOK
  <2> QED BY <1>2, <1>3, <2>1 DEF LaunchFirst
<1>4. ASSUME NEW a \in Slots, StewardLaunch(a) PROVE TypeOK' /\ RoundOK'
  <2>1. DriverOK' /\ a \notin fin' /\ fin' \subseteq fin /\ pc' = "steward"
    BY <1>4 DEF StewardLaunch, TypeOK, DriverOK
  <2> QED BY <1>2, <1>4, <2>1 DEF StewardLaunch
<1>5. ASSUME NEW a \in Slots, NEW k \in BOOLEAN, Relaunch(a, k) PROVE TypeOK' /\ RoundOK'
  <2>1. DriverOK' /\ a \notin fin' /\ fin' \subseteq fin /\ pc' = "relaunch"
    BY <1>5 DEF Relaunch, TypeOK, DriverOK
  <2> QED BY <1>2, <1>5, <2>1 DEF Relaunch
<1>6. CASE Observe \/ Steward
  <2>1. ClockOK'
    BY <1>6, StampFacts DEF Observe, Steward, TypeOK, ClockOK
  <2>2. ThreadOK' /\ DriverOK' /\ SessionsOK'
    BY <1>6 DEF Observe, Steward, TypeOK, ThreadOK, DriverOK, SessionsOK
  <2> QED BY <1>6, <2>1, <2>2 DEF Observe, Steward, TypeOK, RoundOK
<1>7. CASE Loop \/ Relaunched \/ Close \/ CloseStamp \/ Join \/ \E a \in Slots : LeaveIdle(a)
  <2>1. UNCHANGED <<worker, thread, sessions>>
    BY <1>7 DEF Loop, Relaunched, Close, CloseStamp, Join, LeaveIdle
  <2>2. DriverOK' /\ RoundOK'
    BY <1>7 DEF Loop, Relaunched, Close, CloseStamp, Join, LeaveIdle, TypeOK, DriverOK, RoundOK
  <2> QED BY <2>1, <2>2 DEF TypeOK, ClockOK, ThreadOK, SessionsOK
<1>8. ASSUME NEW S \in SUBSET Slots, Collect(S) PROVE TypeOK' /\ RoundOK'
  <2>1. ClockOK' /\ ThreadOK' /\ DriverOK' /\ SessionsOK'
    BY <1>8 DEF Collect, TypeOK, ClockOK, ThreadOK, DriverOK, SessionsOK
  <2> QED BY <1>8, <2>1 DEF Collect, TypeOK, RoundOK
<1>9. ASSUME NEW a \in Slots, NEW k \in BOOLEAN, Attribute(a, k) PROVE TypeOK' /\ RoundOK'
  <2>1. touched' \in [Artifacts -> [Slots -> Ticks]]
    BY <1>9 DEF Attribute, TypeOK, ClockOK, Ticks
  <2>2. ClockOK' /\ ThreadOK' /\ DriverOK' /\ SessionsOK'
    BY <1>9, <2>1 DEF Attribute, TypeOK, ClockOK, ThreadOK, DriverOK, SessionsOK
  <2> QED BY <1>9, <2>2 DEF Attribute, TypeOK, RoundOK
<1>10. ASSUME NEW a \in Slots, Retire(a) PROVE TypeOK' /\ RoundOK'
  <2>1. ClockOK' /\ ThreadOK' /\ DriverOK' /\ SessionsOK'
    BY <1>10 DEF Retire, TypeOK, ClockOK, ThreadOK, DriverOK, SessionsOK, Ticks
  <2>2. sess[a] = "none"
    BY <1>10 DEF Retire, RoundOK
  <2> QED BY <1>10, <2>1, <2>2 DEF Retire, TypeOK, ClockOK, RoundOK
<1>11. CASE GateThread
  <2>1. CASE Scan
    <3>1. ClockOK'
      BY <2>1, StampFacts DEF Scan, TypeOK, ClockOK
    <3>2. sweep' \subseteq Artifacts /\ quietSeal' \subseteq Crashes
      BY <2>1 DEF Scan, Artifacts
    <3>3. ThreadOK' /\ DriverOK' /\ SessionsOK'
      BY <2>1, <3>2 DEF Scan, TypeOK, ThreadOK, DriverOK, SessionsOK
    <3> QED BY <2>1, <3>1, <3>3 DEF Scan, TypeOK, RoundOK
  <2>2. ASSUME NEW x \in Artifacts, NEW v, Gate(x, v) PROVE TypeOK' /\ RoundOK'
    <3>1. ClockOK' /\ ThreadOK' /\ DriverOK' /\ SessionsOK'
      BY <2>2 DEF Gate, TypeOK, ClockOK, ThreadOK, DriverOK, SessionsOK
    <3> QED BY <2>2, <3>1 DEF Gate, TypeOK, RoundOK
  <2>3. CASE Wake \/ SweepStart \/ SweepEnd
    <3>1. UNCHANGED <<worker, driver, sessions>>
      BY <2>3 DEF Wake, SweepStart, SweepEnd
    <3>2. ThreadOK'
      BY <2>3 DEF Wake, SweepStart, SweepEnd, TypeOK, ThreadOK
    <3> QED BY <3>1, <3>2 DEF TypeOK, RoundOK, ClockOK, DriverOK, SessionsOK
  <2> QED BY <1>11, <2>1, <2>2, <2>3 DEF GateThread
<1>12. ASSUME NEW a \in Slots, NEW x \in Artifacts, NEW st, Write(a, x, st) PROVE TypeOK' /\ RoundOK'
  <2>1. ChainOf(a) \in Slots \X Nat
    BY <1>12 DEF Write, TypeOK, ClockOK, ChainOf, Ticks, NoTick
  <2>2. SessionsOK'
    BY <1>12, <2>1 DEF Write, TypeOK, SessionsOK
  <2>3. ClockOK' /\ ThreadOK' /\ DriverOK'
    BY <1>12 DEF Write, TypeOK, ClockOK, ThreadOK, DriverOK
  <2> QED BY <1>12, <2>2, <2>3 DEF Write, TypeOK, RoundOK
<1>13. ASSUME NEW a \in Slots, NEW x \in Artifacts, Read(a, x) PROVE TypeOK' /\ RoundOK'
  <2>1. ClockOK' /\ ThreadOK' /\ DriverOK' /\ SessionsOK'
    BY <1>13 DEF Read, TypeOK, ClockOK, ThreadOK, DriverOK, SessionsOK
  <2> QED BY <1>13, <2>1 DEF Read, TypeOK, RoundOK
<1>14. ASSUME NEW a \in Slots, SessionEnd(a) PROVE TypeOK' /\ RoundOK'
  <2>1. ClockOK' /\ ThreadOK' /\ DriverOK' /\ SessionsOK'
    BY <1>14 DEF SessionEnd, TypeOK, ClockOK, ThreadOK, DriverOK, SessionsOK
  <2>2. \A b \in Slots : (sess'[b] # "none" => sess[b] # "none") /\ (sess[b] = "none" => sess'[b] = "none")
    BY <1>14 DEF SessionEnd, TypeOK, SessionsOK
  <2>3. fin \subseteq Slots
    BY DEF TypeOK, DriverOK
  <2> QED BY <1>14, <2>1, <2>2, <2>3 DEF SessionEnd, TypeOK, RoundOK
<1>15. ASSUME NEW c \in Crashes, QuietElapses(c) PROVE TypeOK' /\ RoundOK'
  <2>1. ClockOK' /\ ThreadOK' /\ DriverOK' /\ SessionsOK'
    BY <1>15 DEF QuietElapses, TypeOK, ClockOK, ThreadOK, DriverOK, SessionsOK
  <2> QED BY <1>15, <2>1 DEF QuietElapses, TypeOK, RoundOK
<1>16. CASE Driver
  BY <1>3, <1>4, <1>5, <1>6, <1>7, <1>8, <1>9, <1>10, <1>16 DEF Driver
<1> QED BY <1>1, <1>11, <1>12, <1>13, <1>14, <1>15, <1>16 DEF Next, Session

-----------------------------------------------------------------------------
(* The settled properties *)

\* The parts of the invariant that speak of ticks, writers and the sweep.
Core ==
    /\ ClockBounds /\ AbsentUnknown /\ SeenAfterWrite /\ WritersOK
    /\ SweepComplete /\ FindingSettled /\ CrashSettled

\* A step that changes none of the variables Core reads, or only takes
\* artifacts out of the sweep, keeps it.
LEMMA CoreUnchanged ==
    ASSUME Core, UNCHANGED <<worker, disk, named, writers>>,
           sweep' \subseteq sweep, sweep' = {} \/ quietSeal' = quietSeal
    PROVE  Core'
<1>1. ClockBounds' /\ AbsentUnknown' /\ SeenAfterWrite' /\ WritersOK' /\ SweepComplete'
  BY DEF Core, worker, ClockBounds, AbsentUnknown, SeenAfterWrite, WritersOK, SweepComplete
<1>2. FindingSettled' /\ CrashSettled'
  BY DEF Core, worker, FindingSettled, CrashSettled, LiveWriter, ChainOf
<1> QED BY <1>1, <1>2 DEF Core

\* Stamping keeps Core.
LEMMA CoreStamp ==
    ASSUME TypeOK, Core, Stamp, UNCHANGED <<clock, chains, touched, disk, named, writers>>
    PROVE  ClockBounds' /\ AbsentUnknown' /\ SeenAfterWrite' /\ WritersOK'
<1>1. ClockBounds' /\ WritersOK'
  BY DEF Core, ClockBounds, WritersOK
<1>2. AbsentUnknown'
  BY StampFacts DEF Core, AbsentUnknown
<1>3. SeenAfterWrite'
  BY StampFacts DEF Core, SeenAfterWrite, ClockBounds
<1> QED BY <1>1, <1>2, <1>3

\* Launching keeps Core: the new tick is no writer's.
LEMMA CoreLaunch ==
    ASSUME TypeOK, Core, NEW a \in Slots, NEW k \in BOOLEAN, Launch(a, k)
    PROVE  Core'
<1>1. UNCHANGED <<firstSeen, touched, disk, writers, sweep, quietSeal>>
  BY DEF Launch, thread
<1>2. \A x \in Artifacts : \A w \in writers[x] : w[2] \in Nat
  BY DEF TypeOK, SessionsOK
<1>3. \A b \in Slots : chains[b] \in Ticks
  BY DEF TypeOK, ClockOK
<1>4. clock \in Nat
  BY DEF TypeOK, ClockOK
<1>5. ClockBounds'
  BY <1>1, <1>2, <1>3, <1>4, LaunchFacts DEF Core, ClockBounds, Ticks
<1>6. AbsentUnknown'
  BY <1>1, LaunchFacts DEF Core, AbsentUnknown
<1>7. SeenAfterWrite' /\ WritersOK' /\ SweepComplete'
  BY <1>1 DEF Core, SeenAfterWrite, WritersOK, SweepComplete
<1>8. \A x \in Artifacts : LiveWriter(x)' => LiveWriter(x)
  <2> SUFFICES ASSUME NEW x \in Artifacts, NEW b \in Slots, chains'[b] # NoTick,
                      <<b, chains'[b]>> \in writers[x]
               PROVE  chains'[b] = chains[b]
    BY <1>1 DEF LiveWriter, ChainOf
  <2>1. chains'[b] <= clock
    BY DEF Core, ClockBounds
  <2> QED BY <1>4, <2>1, LaunchFacts
<1>9. sweep \subseteq Artifacts
  BY DEF TypeOK, ThreadOK
<1>10. FindingSettled' /\ CrashSettled'
  BY <1>1, <1>8, <1>9 DEF Core, FindingSettled, CrashSettled
<1> QED BY <1>5, <1>6, <1>7, <1>10 DEF Core

\* A scan selects what is settled.
LEMMA CoreScan ==
    ASSUME TypeOK, Core, Scan
    PROVE  Core'
<1>1. UNCHANGED <<clock, chains, touched, disk, named, writers>> /\ Stamp
  BY DEF Scan, sessions
<1>2. ClockBounds' /\ AbsentUnknown' /\ SeenAfterWrite' /\ WritersOK'
  BY <1>1, CoreStamp
<1>3. SweepComplete'
  BY <1>1 DEF Scan, SweepComplete
<1>4. firstSeen' \in [Artifacts -> Ticks] /\ chains \in [Slots -> Ticks]
  BY <1>1, StampFacts DEF TypeOK, ClockOK
<1>5. touched \in [Artifacts -> [Slots -> Ticks]]
  BY DEF TypeOK, ClockOK
<1>6. \A x \in Artifacts : \A w \in writers[x] : w[2] \in Nat
  BY DEF TypeOK, SessionsOK
<1>7. \A x \in Artifacts : disk[x] = "complete" =>
          firstSeen'[x] # NoTick /\ \A w \in writers[x] : w[2] <= firstSeen'[x]
  BY <1>1, <1>2, StampFacts DEF SeenAfterWrite
<1>8. FindingSettled'
  <2> SUFFICES ASSUME NEW f \in sweep' \cap Findings, NEW a \in Slots,
                      chains[a] # NoTick, <<a, chains[a]>> \in writers[f]
               PROVE  \E b \in Slots : touched[f][b] # NoTick /\ \A w \in writers[f] : w[1] # b
    BY <1>1 DEF FindingSettled, LiveWriter, ChainOf
  <2>1. f \in Artifacts /\ disk[f] = "complete" /\ FindingSealed(f, firstSeen'[f])
    BY GateAssumption DEF Scan, Artifacts
  <2>2. writers[f] = {<<a, chains[a]>>}
    BY DEF Core, WritersOK
  <2>3. chains[a] <= firstSeen'[f] /\ firstSeen'[f] \in Nat /\ chains[a] \in Nat
    BY <1>4, <1>7, <2>1 DEF Ticks, NoTick
  <2>4. ~BeforeAllChains(firstSeen'[f])
    BY <2>3 DEF BeforeAllChains
  <2>5. IsTouched(f) /\ TouchersDone(f)
    BY <2>1, <2>4 DEF FindingSealed
  <2>6. touched[f][a] = NoTick
    <3> SUFFICES ASSUME touched[f][a] # NoTick PROVE FALSE
      OBVIOUS
    <3>1. chains[a] <= touched[f][a]
      BY <2>2 DEF Core, WritersOK
    <3>2. touched[f][a] \in Nat
      BY <1>5, <2>1 DEF Ticks, NoTick
    <3> QED BY <2>3, <2>5, <3>1, <3>2 DEF TouchersDone
  <2>7. PICK b \in Slots : touched[f][b] # NoTick
    BY <2>5 DEF IsTouched
  <2> QED BY <2>2, <2>6, <2>7
<1>9. CrashSettled'
  <2> SUFFICES ASSUME NEW c \in (sweep' \cap Crashes) \ quietSeal', NEW a \in Slots,
                      chains[a] # NoTick, <<a, chains[a]>> \in writers[c]
               PROVE  FALSE
    BY <1>1 DEF CrashSettled, LiveWriter, ChainOf
  <2>1. c \in Artifacts /\ disk[c] = "complete" /\ CrashSealed(c, firstSeen'[c])
    BY GateAssumption DEF Scan, Artifacts
  <2>2. a = Owner[c]
    BY DEF Core, WritersOK
  <2>3. chains[a] <= firstSeen'[c] /\ firstSeen'[c] \in Nat /\ chains[a] \in Nat
    BY <1>4, <1>7, <2>1 DEF Ticks, NoTick
  <2> QED BY <2>1, <2>2, <2>3 DEF CrashSealed
<1> QED BY <1>2, <1>3, <1>8, <1>9 DEF Core

\* A write keeps Core: it goes to an artifact of its own chain, or to one
\* nothing is known of yet.
LEMMA CoreWrite ==
    ASSUME TypeOK, Core, NEW a \in Slots, NEW x \in Artifacts, NEW st, Write(a, x, st)
    PROVE  Core'
<1> DEFINE me == <<a, chains[a]>>
<1>1. /\ UNCHANGED <<clock, chains, firstSeen, touched, sweep, quietSeal>>
      /\ disk' = [disk EXCEPT ![x] = st] /\ st \in {"unfinished", "complete"}
      /\ (disk[x] = "complete" => st = "complete")
      /\ writers' = [writers EXCEPT ![x] = @ \cup {me}]
      /\ named' = [named EXCEPT ![a] = @ \cup {x}]
  BY DEF Write, worker, thread, ChainOf
<1>2. chains[a] \in Nat /\ chains[a] # NoTick
  BY DEF Write, TypeOK, ClockOK, Ticks, NoTick
<1>3. /\ disk \in [Artifacts -> {"absent", "unfinished", "complete", "held", "moved"}]
      /\ writers \in [Artifacts -> SUBSET (Slots \X Nat)]
      /\ named \in [Slots -> SUBSET Artifacts]
  BY DEF TypeOK, SessionsOK
<1>4. \A y \in Artifacts : /\ writers'[y] = IF y = x THEN writers[x] \cup {me} ELSE writers[y]
                           /\ disk'[y] = IF y = x THEN st ELSE disk[y]
  BY <1>1, <1>3
<1>5. \/ disk[x] = "absent" /\ (x \in Crashes => Owner[x] = a)
      \/ disk[x] \in {"unfinished", "complete"} /\ me \in writers[x]
      \/ disk[x] = "unfinished" /\ x \in Crashes /\ Owner[x] = a
  BY DEF Write, MayWrite, ChainOf
<1> HIDE DEF me
<1>6. me = <<a, chains[a]>> /\ me[1] = a /\ me[2] = chains[a]
  BY DEF me
<1>7. ClockBounds'
  BY <1>1, <1>2, <1>4, <1>6 DEF Core, ClockBounds
<1>8. AbsentUnknown'
  <2> SUFFICES ASSUME NEW y \in Artifacts, disk'[y] = "absent"
               PROVE  /\ writers'[y] = {} /\ firstSeen'[y] = NoTick
                      /\ \A b \in Slots : touched'[y][b] = NoTick /\ y \notin named'[b]
    BY DEF AbsentUnknown
  <2>1. y # x /\ disk[y] = "absent"
    BY <1>1, <1>4
  <2> QED BY <1>1, <1>3, <1>4, <2>1 DEF Core, AbsentUnknown
<1>9. SeenAfterWrite'
  <2>1. firstSeen[x] = NoTick \/ (disk[x] = "complete" /\ me \in writers[x])
    BY <1>5 DEF Core, SeenAfterWrite, AbsentUnknown
  <2> QED BY <1>1, <1>4, <2>1 DEF Core, SeenAfterWrite
<1>10. WritersOK'
  <2>1. ASSUME NEW f \in Findings, NEW w \in writers'[f]
        PROVE  /\ writers'[f] = {w}
               /\ \A b \in Slots : touched'[f][b] # NoTick => w[2] <= touched'[f][b]
    <3>1. f \in Artifacts
      BY DEF Artifacts
    <3>2. CASE f # x \/ me \in writers[x]
      <4>1. writers'[f] = writers[f]
        BY <1>4, <3>1, <3>2
      <4> QED BY <1>1, <2>1, <4>1 DEF Core, WritersOK
    <3>3. CASE f = x /\ me \notin writers[x]
      <4>1. disk[x] = "absent"
        BY <1>5, <2>1, <3>3, GateAssumption
      <4>2. writers'[f] = {me} /\ \A b \in Slots : touched[f][b] = NoTick
        BY <1>4, <3>1, <3>3, <4>1 DEF Core, AbsentUnknown
      <4> QED BY <1>1, <2>1, <4>2
    <3> QED BY <3>2, <3>3
  <2>2. ASSUME NEW c \in Crashes, NEW w \in writers'[c] PROVE w[1] = Owner[c]
    <3>1. c \in Artifacts
      BY DEF Artifacts
    <3>2. CASE w \in writers[c]
      BY <3>2 DEF Core, WritersOK
    <3>3. CASE w \notin writers[c]
      <4>1. c = x /\ w = me
        BY <1>4, <2>2, <3>1, <3>3
      <4> QED BY <1>5, <1>6, <3>3, <4>1
    <3> QED BY <3>2, <3>3
  <2> QED BY <2>1, <2>2 DEF WritersOK
<1>11. SweepComplete'
  BY <1>1, <1>4 DEF Core, SweepComplete, TypeOK, ThreadOK
<1>12. x \in sweep => writers'[x] = writers[x]
  BY <1>4, <1>5 DEF Core, SweepComplete
<1>13. \A y \in sweep : writers'[y] = writers[y]
  BY <1>4, <1>12 DEF TypeOK, ThreadOK
<1>14. FindingSettled' /\ CrashSettled'
  BY <1>1, <1>13 DEF Core, FindingSettled, CrashSettled, LiveWriter, ChainOf
<1> QED BY <1>7, <1>8, <1>9, <1>10, <1>11, <1>14 DEF Core

\* Recording mentions keeps Core: the clock is past every writer's tick.
LEMMA CoreAttribute ==
    ASSUME TypeOK, Core, NEW a \in Slots, NEW k \in BOOLEAN, Attribute(a, k)
    PROVE  Core'
<1>1. UNCHANGED <<clock, chains, firstSeen, disk, named, writers, sweep, quietSeal>>
  BY DEF Attribute, thread, sessions
<1>2. touched \in [Artifacts -> [Slots -> Ticks]] /\ clock \in Nat
  BY DEF TypeOK, ClockOK
<1>3. \A x \in Artifacts, b \in Slots :
         touched'[x][b] = touched[x][b] \/ (touched'[x][b] = clock /\ x \in named[b] /\ b = a)
  BY <1>2 DEF Attribute
<1>4. ClockBounds' /\ SeenAfterWrite' /\ SweepComplete'
  BY <1>1 DEF Core, ClockBounds, SeenAfterWrite, SweepComplete
<1>5. AbsentUnknown'
  BY <1>1, <1>3 DEF Core, AbsentUnknown
<1>6. WritersOK'
  BY <1>1, <1>3 DEF Core, WritersOK, ClockBounds, Artifacts
<1>7. \A x \in Artifacts, b \in Slots : touched[x][b] # NoTick => touched'[x][b] # NoTick
  BY <1>2, <1>3 DEF NoTick
<1>8. FindingSettled' /\ CrashSettled'
  BY <1>1, <1>7 DEF Core, FindingSettled, CrashSettled, LiveWriter, ChainOf, TypeOK, ThreadOK
<1> QED BY <1>4, <1>5, <1>6, <1>8 DEF Core

\* Every step keeps Core.
LEMMA CoreStep ==
    ASSUME TypeOK, Core, [Next]_vars
    PROVE  Core'
<1> USE DEF worker, thread, driver, sessions
<1>1. CASE UNCHANGED vars
  BY <1>1, CoreUnchanged DEF vars
<1>2. CASE Observe \/ Steward
  <2>1. Stamp /\ UNCHANGED <<clock, chains, touched, disk, named, writers, sweep, quietSeal>>
    BY <1>2 DEF Observe, Steward
  <2>2. ClockBounds' /\ AbsentUnknown' /\ SeenAfterWrite' /\ WritersOK'
    BY <2>1, CoreStamp
  <2>3. SweepComplete' /\ FindingSettled' /\ CrashSettled'
    BY <2>1 DEF Core, SweepComplete, FindingSettled, CrashSettled, LiveWriter, ChainOf
  <2> QED BY <2>2, <2>3 DEF Core
<1>3. ASSUME NEW a \in Slots, LaunchFirst(a) \/ StewardLaunch(a) PROVE Core'
  BY <1>3, CoreLaunch DEF LaunchFirst, StewardLaunch
<1>4. ASSUME NEW a \in Slots, NEW k \in BOOLEAN, Relaunch(a, k) PROVE Core'
  BY <1>4, CoreLaunch DEF Relaunch
<1>5. CASE Loop \/ Relaunched \/ Close \/ CloseStamp \/ Join \/ \E a \in Slots : LeaveIdle(a)
  BY <1>5, CoreUnchanged DEF Loop, Relaunched, Close, CloseStamp, Join, LeaveIdle
<1>6. ASSUME NEW S \in SUBSET Slots, Collect(S) PROVE Core'
  BY <1>6, CoreUnchanged DEF Collect
<1>7. ASSUME NEW a \in Slots, NEW k \in BOOLEAN, Attribute(a, k) PROVE Core'
  BY <1>7, CoreAttribute
<1>8. ASSUME NEW a \in Slots, Retire(a) PROVE Core'
  <2>1. UNCHANGED <<clock, firstSeen, touched, disk, named, writers, sweep, quietSeal>>
    BY <1>8 DEF Retire
  <2>2. \A b \in Slots : chains'[b] # NoTick => chains'[b] = chains[b]
    BY <1>8 DEF Retire, TypeOK, ClockOK
  <2>3. ClockBounds' /\ AbsentUnknown' /\ SeenAfterWrite' /\ WritersOK' /\ SweepComplete'
    BY <2>1, <2>2 DEF Core, ClockBounds, AbsentUnknown, SeenAfterWrite, WritersOK, SweepComplete
  <2>4. ASSUME NEW x \in Artifacts, LiveWriter(x)' PROVE LiveWriter(x)
    BY <2>1, <2>2, <2>4 DEF LiveWriter, ChainOf
  <2>5. FindingSettled'
    BY <2>1, <2>4 DEF Core, FindingSettled, Artifacts
  <2>6. CrashSettled'
    BY <2>1, <2>4 DEF Core, CrashSettled, Artifacts
  <2> QED BY <2>3, <2>5, <2>6 DEF Core
<1>9. CASE Scan
  BY <1>9, CoreScan
<1>10. CASE Wake \/ SweepStart \/ SweepEnd
  BY <1>10, CoreUnchanged DEF Wake, SweepStart, SweepEnd
<1>11. ASSUME NEW x \in Artifacts, NEW v, Gate(x, v) PROVE Core'
  <2>1. /\ UNCHANGED <<clock, chains, firstSeen, touched, named, writers, quietSeal>>
        /\ sweep' = sweep \ {x} /\ disk[x] = "complete"
        /\ \A y \in Artifacts : disk'[y] = disk[y] \/ (y = x /\ disk'[y] \notin {"absent", "unfinished"})
    BY <1>11 DEF Gate, Core, SweepComplete, TypeOK, SessionsOK
  <2>2. SweepComplete'
    BY <1>11 DEF Gate, Core, SweepComplete, TypeOK, SessionsOK, ThreadOK
  <2>3. ClockBounds' /\ AbsentUnknown' /\ SeenAfterWrite' /\ WritersOK'
    BY <2>1 DEF Core, ClockBounds, AbsentUnknown, SeenAfterWrite, WritersOK
  <2>4. FindingSettled' /\ CrashSettled'
    BY <2>1 DEF Core, FindingSettled, CrashSettled, LiveWriter, ChainOf
  <2> QED BY <2>2, <2>3, <2>4 DEF Core
<1>12. ASSUME NEW a \in Slots, NEW x \in Artifacts, NEW st, Write(a, x, st) PROVE Core'
  BY <1>12, CoreWrite
<1>13. ASSUME NEW a \in Slots, NEW x \in Artifacts, Read(a, x) PROVE Core'
  <2>1. /\ UNCHANGED <<clock, chains, firstSeen, touched, disk, writers, sweep, quietSeal>>
        /\ \A b \in Slots, y \in Artifacts : y \in named'[b] => y \in named[b] \/ disk[y] # "absent"
    BY <1>13 DEF Read, TypeOK, SessionsOK
  <2>2. ClockBounds' /\ AbsentUnknown' /\ SeenAfterWrite' /\ WritersOK' /\ SweepComplete'
    BY <2>1 DEF Core, ClockBounds, AbsentUnknown, SeenAfterWrite, WritersOK, SweepComplete
  <2>3. FindingSettled' /\ CrashSettled'
    BY <2>1 DEF Core, FindingSettled, CrashSettled, LiveWriter, ChainOf
  <2> QED BY <2>2, <2>3 DEF Core
<1>14. ASSUME NEW a \in Slots, SessionEnd(a) PROVE Core'
  BY <1>14, CoreUnchanged DEF SessionEnd
<1>15. ASSUME NEW c \in Crashes, QuietElapses(c) PROVE Core'
  BY <1>15, CoreUnchanged DEF QuietElapses
<1>16. CASE Driver
  BY <1>2, <1>3, <1>4, <1>5, <1>6, <1>7, <1>8, <1>16 DEF Driver
<1>17. CASE GateThread
  BY <1>9, <1>10, <1>11, <1>17 DEF GateThread
<1> QED BY <1>1, <1>12, <1>13, <1>14, <1>15, <1>16, <1>17 DEF Next, Session

\* IInv is an invariant of the specification.
LEMMA Invariance == Spec => []IInv
<1>1. Init => IInv
  BY InitInv
<1>2. IInv /\ [Next]_vars => IInv'
  BY TypeStep, CoreStep DEF IInv, Core
<1> QED BY <1>1, <1>2, PTL DEF Spec

\* The worker's fields, the loop and the artifacts stay well-formed, and a
\* session in flight always has a chain: retiring a collected slot ends no
\* relaunched one.
THEOREM GateTypeCorrect == Spec => []TypeOK
<1>1. IInv => TypeOK
  BY DEF IInv
<1> QED BY <1>1, Invariance, PTL

\* However many slots run and whatever order sessions end, are attributed,
\* relaunched and swept in, no finding is reviewed under the chain that files
\* it unless an ended session of another slot mentioned it.
THEOREM FindingsSettled == Spec => []FindingSettled
<1>1. IInv => FindingSettled
  BY DEF IInv
<1> QED BY <1>1, Invariance, PTL

\* No crash bundle is triaged under a chain that writes it unless the bundle
\* had been quiet.
THEOREM CrashesSettled == Spec => []CrashSettled
<1>1. IInv => CrashSettled
  BY DEF IInv
<1> QED BY <1>1, Invariance, PTL

-----------------------------------------------------------------------------
(* Closing *)

\* The sweep is empty outside its own steps, a sweep that started is marked,
\* and one that worked past the request to stop keeps its mark.
SweepMarked ==
    /\ wpc # "gate" => sweep = {}
    /\ wpc \in {"scan", "gate"} => started # "none"
    /\ lateSweep => stop /\ started # "none"

CloseInv == ThreadOK /\ SweepMarked /\ BarrierAlone /\ TailCharged

\* Every step keeps it: once close() has asked to stop, the thread can only
\* end its sweep and leave, and the join waits for that.
LEMMA CloseStep ==
    ASSUME CloseInv, [Next]_vars
    PROVE  SweepMarked' /\ BarrierAlone' /\ TailCharged'
<1> USE DEF CloseInv, SweepMarked, BarrierAlone, TailCharged
<1>1. ASSUME UNCHANGED <<thread, pc, stop, charged>>
      PROVE  SweepMarked' /\ BarrierAlone' /\ TailCharged'
  BY <1>1 DEF thread
<1>2. CASE UNCHANGED vars
  BY <1>1, <1>2 DEF vars, driver
<1>3. CASE Session \/ \E c \in Crashes : QuietElapses(c)
  BY <1>1, <1>3 DEF Session, SessionEnd, Read, Write, QuietElapses, driver
<1>4. ASSUME UNCHANGED thread, UNCHANGED <<stop, charged>>, pc # "barrier", pc' # "barrier"
      PROVE  SweepMarked' /\ BarrierAlone' /\ TailCharged'
  BY <1>4 DEF thread
<1>5. CASE Loop \/ Observe \/ Steward \/ Relaunched \/ CloseStamp
  BY <1>4, <1>5 DEF Loop, Observe, Steward, Relaunched, CloseStamp
<1>6. CASE Close
  BY <1>6 DEF Close, thread
<1>7. CASE Join
  BY <1>7 DEF Join, thread, ThreadOK
<1>8. ASSUME NEW S \in SUBSET Slots, Collect(S)
      PROVE  SweepMarked' /\ BarrierAlone' /\ TailCharged'
  BY <1>4, <1>8 DEF Collect
<1>9. ASSUME NEW a \in Slots, LaunchFirst(a) \/ LeaveIdle(a) \/ Retire(a) \/ StewardLaunch(a)
      PROVE  SweepMarked' /\ BarrierAlone' /\ TailCharged'
  BY <1>1, <1>4, <1>9 DEF LaunchFirst, Launch, LeaveIdle, Retire, StewardLaunch, driver
<1>10. ASSUME NEW a \in Slots, NEW k \in BOOLEAN, Attribute(a, k) \/ Relaunch(a, k)
       PROVE  SweepMarked' /\ BarrierAlone' /\ TailCharged'
  BY <1>4, <1>10 DEF Attribute, Relaunch, Launch
<1>11. CASE Driver
  BY <1>5, <1>6, <1>7, <1>8, <1>9, <1>10, <1>11 DEF Driver
<1>12. CASE Wake \/ SweepStart \/ SweepEnd
  BY <1>12 DEF Wake, SweepStart, SweepEnd, driver
<1>13. CASE Scan
  BY <1>13 DEF Scan, driver
<1>14. ASSUME NEW x \in Artifacts, NEW v, Gate(x, v)
       PROVE  SweepMarked' /\ BarrierAlone' /\ TailCharged'
  BY <1>14 DEF Gate, driver
<1> QED BY <1>2, <1>3, <1>11, <1>12, <1>13, <1>14 DEF Next, GateThread

\* close() hands the barrier a gate that is at rest, whatever the sweep was
\* doing when it was asked to stop, and what the gate did past the drained
\* pool is charged.
THEOREM GateClosesInOrder == Spec => []ClosesInOrder
<1>1. Init => SweepMarked /\ BarrierAlone /\ TailCharged
  BY DEF Init, SweepMarked, BarrierAlone, TailCharged
<1>2. TypeOK => ThreadOK
  BY DEF TypeOK
<1>3. /\ TypeOK /\ SweepMarked /\ BarrierAlone /\ TailCharged /\ [Next]_vars
      => SweepMarked' /\ BarrierAlone' /\ TailCharged'
  BY <1>2, CloseStep DEF CloseInv
<1>4. BarrierAlone /\ TailCharged => ClosesInOrder
  BY DEF ClosesInOrder
<1> QED BY <1>1, <1>3, <1>4, GateTypeCorrect, PTL DEF Spec

-----------------------------------------------------------------------------
(* The crash tree, for any cases, states, routes and number of bundles.    *)
(*                                                                         *)
(* What a pass took up and has not settled is in exactly one of its lists, *)
(* and still in the tree: only the pass itself moves a bundle, and only    *)
(* one that it takes off its list in the same step.                        *)

\* Only bundles that nobody waits for go to review while candidates are sought.
Unrivalled == \A n \in judging : StateOf[case[n]] = "none" \/ n \in owners

\* The lists are apart, hold what is in the tree, and together what was taken.
ListsOK ==
    /\ left \subseteq In("crashes") /\ cand \subseteq In("crashes")
    /\ judging \subseteq In("crashes") /\ later \subseteq In("crashes")
    /\ left \cap cand = {} /\ left \cap judging = {} /\ left \cap later = {}
    /\ cand \cap judging = {} /\ cand \cap later = {} /\ judging \cap later = {}
    /\ took = left \cup cand \cup judging \cup later \cup (IF phase = "record" THEN {at} ELSE {})

\* Where a pass is decides which lists it works on.
PhaseOK ==
    /\ phase \in {"fold", "record"} => later = {} /\ Unrivalled
    /\ phase = "judge" => left = {} /\ cand = {}
    /\ phase = "idle" => took = {}
    /\ phase = "record" => at \in In("hidden")

TreeInv == TreeTypeOK /\ ListsOK /\ PhaseOK /\ OneReviewPerState /\ HiddenIsRecorded

\* The words that stand in the fields.
LEMMA TreeWords ==
    /\ {"none", "crashes", "rejected", "finding", "hidden", "nested"} \subseteq Places
    /\ {"none", "pending", "promoted"} \subseteq Receipts
    /\ {"idle", "fold", "record", "judge"} \subseteq Phases
  BY DEF Places, Receipts, Phases

LEMMA TreeInvInit == TreeInit => TreeInv
<1> SUFFICES ASSUME TreeInit PROVE TreeInv
  OBVIOUS
<1>1. TreeTypeOK BY TreeAssumption, TreeWords DEF TreeInit, TreeTypeOK
<1>2. ListsOK /\ PhaseOK /\ OneReviewPerState
  BY DEF TreeInit, ListsOK, PhaseOK, Unrivalled, OneReviewPerState
<1>3. HiddenIsRecorded BY DEF TreeInit, HiddenIsRecorded, In
<1> QED BY <1>1, <1>2, <1>3 DEF TreeInv

\* Every step keeps the types.
LEMMA TreeTypeStep == TreeTypeOK /\ ListsOK /\ PhaseOK /\ [TreeNext]_treeVars => TreeTypeOK'
<1> SUFFICES ASSUME TreeTypeOK, ListsOK, PhaseOK, [TreeNext]_treeVars PROVE TreeTypeOK'
  OBVIOUS
<1> USE TreeAssumption, TreeWords DEF TreeTypeOK, names, marks, filings, lists
<1>1. CASE UNCHANGED treeVars BY <1>1 DEF treeVars
<1>2. ASSUME NEW a \in Agents, NEW c \in Cases, Look(a, c) PROVE TreeTypeOK'
  <2>1. ASSUME NEW n \in 1..(MaxFiled + 1), probe' = [probe EXCEPT ![a] = [case |-> c, num |-> n]],
               UNCHANGED <<case, receipt, index>>
        PROVE  TreeTypeOK'
    BY <1>2, <2>1 DEF Look
  <2>2. ASSUME NEW n \in Revised(a, c), case' = [case EXCEPT ![n] = c],
               receipt' = [receipt EXCEPT ![n] = "none"], Enter(a, c, number[n]), UNCHANGED probe
        PROVE  TreeTypeOK'
    <3>1. n \in Bundles /\ place[n] = "crashes" BY <2>2 DEF Revised, In
    <3>2. index' \in [Agents -> SUBSET (Cases \X Bundles)] 
      <4>1. number[n] \in Bundles BY <3>1
      <4>2. <<c, number[n]>> \in Cases \X Bundles BY <4>1
      <4>3. index[a] \cup {<<c, number[n]>>} \in SUBSET (Cases \X Bundles) BY <4>2
      <4> QED BY <2>2, <4>3 DEF Enter
    <3> QED BY <1>2, <2>2, <3>1, <3>2 DEF Look
  <2> QED BY <1>2, <2>1, <2>2 DEF Look
<1>3. ASSUME NEW a \in Agents, Create(a) PROVE TreeTypeOK'
  <2>1. CASE UNCHANGED <<names, case, place, index>> BY <1>3, <2>1 DEF Create
  <2>2. CASE filed' = filed + 1
    <3>1. probe[a] \in [case : Cases, num : 1..(MaxFiled + 1)] BY <1>3 DEF Create
    <3>2. filed + 1 \in Bundles /\ filed' \in 0..MaxFiled /\ probe[a].num \in Bundles
      BY <1>3, <2>2, <3>1 DEF Create, Bundles
    <3>3. index' \in [Agents -> SUBSET (Cases \X Bundles)]
      <4>1. <<probe[a].case, probe[a].num>> \in Cases \X Bundles BY <3>1, <3>2
      <4>2. index[a] \cup {<<probe[a].case, probe[a].num>>} \in SUBSET (Cases \X Bundles) BY <4>1
      <4> QED BY <1>3, <2>2, <4>2 DEF Create, Enter
    <3>4. maker' \in [Bundles -> Agents \cup {"none"}] /\ case' \in [Bundles -> Cases \cup {"none"}]
      BY <1>3, <2>2, <3>1, <3>2 DEF Create
    <3>7. number' \in [Bundles -> 0..MaxFiled]
      <4>1. probe[a].num \in 0..MaxFiled BY <3>2 DEF Bundles
      <4> QED BY <1>3, <2>2, <3>2, <4>1 DEF Create
    <3>5. place' \in [Bundles -> Places] BY <1>3, <2>2, <3>2 DEF Create
    <3>6. \A n \in Bundles : place'[n] # "none" =>
             n <= filed' /\ case'[n] \in Cases /\ maker'[n] \in Agents /\ number'[n] \in Bundles
      <4>1. \A n \in Bundles : n <= filed => n <= filed' BY <2>2 DEF Bundles
      <4> QED BY <1>3, <2>2, <3>1, <3>2, <4>1 DEF Create
    <3> QED BY <1>3, <3>2, <3>3, <3>4, <3>5, <3>6, <3>7 DEF Create
  <2> QED BY <1>3, <2>1, <2>2 DEF Create
<1>4. CASE StartPass BY <1>4 DEF StartPass, Promoted, Open, In
<1>5. CASE Fold 
  <2> PICK n \in left : Fold!2!(n) BY <1>5 DEF Fold
  <2>1. n \in Bundles /\ place[n] = "crashes" BY DEF ListsOK, In
  <2>2. place' \in [Bundles -> Places] /\ phase' \in Phases /\ at' \in 0..MaxFiled
    BY <1>5, <2>1 DEF Bundles
  <2>3. \A m \in Bundles : place'[m] # "none" => place[m] # "none" BY <2>1
  <2>4. cand' \subseteq Bundles /\ judging' \subseteq Bundles /\ left' \subseteq Bundles BY <2>1
  <2> QED BY <1>5, <2>2, <2>3, <2>4 DEF Fold
<1>6. CASE Record
  <2>1. at \in Bundles /\ place[at] = "hidden" BY <1>6 DEF Record, PhaseOK, In
  <2>2. place' \in [Bundles -> Places] /\ (\A m \in Bundles : place'[m] # "none" => place[m] # "none")
    BY <1>6, <2>1 DEF Record
  <2>3. noted' \subseteq Bundles /\ took' \subseteq Bundles /\ left' \subseteq Bundles /\ cand' \subseteq Bundles
    BY <1>6, <2>1 DEF Record, EndPass
  <2>4. judging' \subseteq Bundles /\ later' \subseteq Bundles /\ owners' \subseteq Bundles
    BY <1>6 DEF Record, EndPass
  <2>5. phase' \in Phases /\ wave' \in 0..2 /\ at' \in 0..MaxFiled BY <1>6 DEF Record, EndPass
  <2> QED BY <1>6, <2>2, <2>3, <2>4, <2>5 DEF Record
<1>7. CASE Elect BY <1>7 DEF Elect, Leaders
<1>8. CASE Judge
  <2> PICK n \in judging : Judge!2!(n) BY <1>8 DEF Judge
  <2>1. n \in Bundles /\ place[n] = "crashes" BY DEF ListsOK, In
  <2>2. place' \in [Bundles -> Places] /\ receipt' \in [Bundles -> Receipts]
    BY <2>1
  <2>3. \A m \in Bundles : place'[m] # "none" => place[m] # "none" BY <2>1
  <2>4. exported' \subseteq Bundles /\ judging' \subseteq Bundles /\ took' \subseteq Bundles BY <2>1
  <2> QED BY <1>8, <2>2, <2>3, <2>4 DEF Judge
<1>9. CASE NextWave 
  <2>1. Promoted \subseteq Bundles BY DEF Promoted, In
  <2> QED BY <1>9, <2>1 DEF NextWave, EndPass
<1>10. CASE Lapse BY <1>10 DEF Lapse, Promoted, In
<1> QED BY <1>1, <1>2, <1>3, <1>4, <1>5, <1>6, <1>7, <1>8, <1>9, <1>10 DEF TreeNext

\* Every step keeps the pass's lists and its phase.
LEMMA ListsStep == TreeTypeOK /\ ListsOK /\ PhaseOK /\ [TreeNext]_treeVars => ListsOK' /\ PhaseOK'
<1> SUFFICES ASSUME TreeTypeOK, ListsOK, PhaseOK, [TreeNext]_treeVars PROVE ListsOK' /\ PhaseOK'
  OBVIOUS
<1> USE DEF TreeTypeOK, ListsOK, PhaseOK, Unrivalled, In, names, marks, filings, lists
<1>1. CASE UNCHANGED treeVars BY <1>1 DEF treeVars
<1>2. ASSUME NEW a \in Agents, NEW c \in Cases, Look(a, c) PROVE ListsOK' /\ PhaseOK'
  <2>1. UNCHANGED <<names, place, exported, noted, phase, wave, lists, at>> BY <1>2 DEF Look
  <2>2. \A n \in Bundles : StateOf[case[n]] = "none" => case'[n] = case[n]
    <3>1. CASE UNCHANGED case BY <3>1
    <3>2. ASSUME NEW n \in Revised(a, c), case' = [case EXCEPT ![n] = c]
          PROVE  \A m \in Bundles : StateOf[case[m]] = "none" => case'[m] = case[m]
      <4>1. StateOf[case[n]] # "none" BY DEF Revised
      <4> QED BY <3>2, <4>1
    <3> QED BY <1>2, <3>1, <3>2 DEF Look
  <2>3. ListsOK' BY <2>1
  <2>4. PhaseOK' BY <2>1, <2>2
  <2> QED BY <2>3, <2>4
<1>3. ASSUME NEW a \in Agents, Create(a) PROVE ListsOK' /\ PhaseOK'
  <2>1. UNCHANGED <<marks, phase, wave, lists, at>> BY <1>3 DEF Create
  <2>2. ASSUME NEW n \in Bundles, place[n] # "none" PROVE place'[n] = place[n] /\ case'[n] = case[n]
    <3>1. n # filed + 1 BY <2>2 DEF Bundles
    <3> QED BY <1>3, <3>1 DEF Create
  <2>3. ListsOK' BY <2>1, <2>2
  <2>4. PhaseOK' BY <2>1, <2>2
  <2> QED BY <2>3, <2>4
<1>4. CASE StartPass
  <2> PICK S \in SUBSET Open : took' = S /\ left' = S BY <1>4 DEF StartPass
  <2>1. S \subseteq In("crashes") BY DEF Open
  <2>2. left = {} /\ cand = {} /\ judging = {} /\ later = {} BY <1>4 DEF StartPass
  <2> QED BY <1>4, <2>1, <2>2 DEF StartPass
<1>5. CASE Fold
  <2> PICK n \in left : Fold!2!(n) BY <1>5 DEF Fold
  <2>1. UNCHANGED <<case, took, later, owners>> /\ phase = "fold" BY <1>5 DEF Fold
  <2>2. CASE UNCHANGED <<cand, place, phase, at>> BY <2>1, <2>2
  <2>3. CASE UNCHANGED <<judging, place, phase, at>> BY <2>1, <2>3
  <2>4. CASE place' = [place EXCEPT ![n] = "hidden"] /\ phase' = "record" /\ at' = n /\ UNCHANGED <<judging, cand>>
    BY <2>1, <2>4
  <2> QED BY <2>2, <2>3, <2>4
<1>6. CASE Record BY <1>6 DEF Record, EndPass
<1>7. CASE Elect BY <1>7 DEF Elect, Leaders
<1>8. CASE Judge
  <2> PICK n \in judging : Judge!2!(n) BY <1>8 DEF Judge
  <2>1. UNCHANGED <<phase, wave, left, cand, later, owners, at>> /\ phase = "judge" BY <1>8 DEF Judge
  <2>2. \A m \in Bundles : m # n => place'[m] = place[m] OBVIOUS
  <2> QED BY <2>1, <2>2
<1>9. CASE NextWave BY <1>9 DEF NextWave, EndPass, Promoted
<1>10. CASE Lapse BY <1>10 DEF Lapse, Promoted
<1> QED BY <1>1, <1>2, <1>3, <1>4, <1>5, <1>6, <1>7, <1>8, <1>9, <1>10 DEF TreeNext

\* Leaders of a wave differ in state or route, and no edit makes two of them alike.
LEMMA OneReviewStep ==
    TreeTypeOK /\ ListsOK /\ PhaseOK /\ OneReviewPerState /\ [TreeNext]_treeVars => OneReviewPerState'
<1> SUFFICES ASSUME TreeTypeOK, ListsOK, PhaseOK, OneReviewPerState, [TreeNext]_treeVars,
                    wave' = 1, phase' = "judge",
                    NEW n \in judging' \ owners', NEW m \in judging' \ owners', n # m,
                    (StateOf[case[n]] # "none")', (RouteOf[case[n]] # "none")', Same(n, case[m])'
             PROVE  FALSE
  BY DEF OneReviewPerState
<1> USE DEF lists
<1>1. CASE UNCHANGED treeVars BY <1>1 DEF treeVars, OneReviewPerState, Same
<1>2. ASSUME NEW a \in Agents, NEW c \in Cases, Look(a, c) PROVE FALSE
  <2>1. UNCHANGED <<names, place, exported, noted, phase, wave, lists, at>> BY <1>2 DEF Look
  <2>2. n \in In("crashes") /\ m \in In("crashes") BY <2>1 DEF ListsOK
  <2>3. CASE UNCHANGED case BY <2>1, <2>3 DEF OneReviewPerState, Same
  <2>4. ASSUME NEW k \in Revised(a, c), case' = [case EXCEPT ![k] = c] PROVE FALSE
    <3>1. Owners(c) = {} BY <1>2 DEF Look
    <3>2. \A b \in Bundles : b # k => case'[b] = case[b] BY <2>4 DEF TreeTypeOK
    <3>3. case'[k] = c BY <2>4 DEF TreeTypeOK, Revised, In
    <3>4. CASE k = n BY <2>2, <3>1, <3>2, <3>3, <3>4 DEF Same, Owners, In
    <3>5. CASE k = m BY <2>2, <3>1, <3>2, <3>3, <3>5 DEF Same, Owners, In
    <3>6. CASE k # n /\ k # m BY <2>1, <2>2, <3>2, <3>6 DEF Same, OneReviewPerState, In
    <3> QED BY <3>4, <3>5, <3>6
  <2> QED BY <1>2, <2>3, <2>4 DEF Look
<1>3. ASSUME NEW a \in Agents, Create(a) PROVE FALSE
  <2>1. UNCHANGED <<phase, wave, lists>> BY <1>3 DEF Create
  <2>2. n \in In("crashes") /\ m \in In("crashes") BY <2>1 DEF ListsOK
  <2>3. n # filed + 1 /\ m # filed + 1 BY <2>2 DEF TreeTypeOK, In, Bundles
  <2>4. case'[n] = case[n] /\ case'[m] = case[m] BY <1>3, <2>3 DEF Create, TreeTypeOK
  <2> QED BY <2>1, <2>4 DEF Same, OneReviewPerState
<1>4. CASE StartPass BY <1>4 DEF StartPass
<1>5. CASE Fold BY <1>5 DEF Fold
<1>6. CASE Record BY <1>6 DEF Record, EndPass
<1>7. CASE Elect
  <2>1. Unrivalled /\ UNCHANGED <<case, wave, owners>> /\ judging' = judging \cup Leaders
    BY <1>7 DEF Elect, PhaseOK, names
  <2>2. n \in Leaders /\ m \in Leaders BY <2>1 DEF Unrivalled, Same
  <2>3. RouteOf[case[m]] # "none" BY <2>1 DEF Same
  <2>4. n < m \/ m < n BY <2>2 DEF Leaders, TreeTypeOK, Bundles
  <2> QED BY <2>1, <2>2, <2>3, <2>4 DEF Leaders, Same
<1>8. CASE Judge BY <1>8 DEF Judge, OneReviewPerState, Same
<1>9. CASE NextWave BY <1>9 DEF NextWave, EndPass
<1>10. CASE Lapse BY <1>10 DEF Lapse, OneReviewPerState, Same
<1> QED BY <1>1, <1>2, <1>3, <1>4, <1>5, <1>6, <1>7, <1>8, <1>9, <1>10 DEF TreeNext

\* A bundle is hidden by the fold that its record follows.
LEMMA HiddenStep ==
    TreeTypeOK /\ ListsOK /\ PhaseOK /\ HiddenIsRecorded /\ [TreeNext]_treeVars => HiddenIsRecorded'
<1> SUFFICES ASSUME TreeTypeOK, ListsOK, PhaseOK, HiddenIsRecorded, [TreeNext]_treeVars,
                    NEW n \in Bundles, place'[n] = "hidden"
             PROVE  n \in noted' \/ (phase' = "record" /\ at' = n)
  BY DEF HiddenIsRecorded, In
<1> USE DEF TreeTypeOK, HiddenIsRecorded, In, lists, marks
<1>1. CASE UNCHANGED treeVars BY <1>1 DEF treeVars
<1>2. ASSUME NEW a \in Agents, NEW c \in Cases, Look(a, c) PROVE n \in noted' \/ (phase' = "record" /\ at' = n)
  BY <1>2 DEF Look
<1>3. ASSUME NEW a \in Agents, Create(a) PROVE n \in noted' \/ (phase' = "record" /\ at' = n)
  <2>1. place[n] = "hidden" BY <1>3 DEF Create
  <2> QED BY <1>3, <2>1 DEF Create
<1>4. CASE StartPass BY <1>4 DEF StartPass
<1>5. CASE Fold BY <1>5 DEF Fold
<1>6. CASE Record BY <1>6 DEF Record, EndPass, PhaseOK
<1>7. CASE Elect BY <1>7 DEF Elect
<1>8. CASE Judge BY <1>8 DEF Judge
<1>9. CASE NextWave BY <1>9 DEF NextWave, EndPass
<1>10. CASE Lapse BY <1>10 DEF Lapse
<1> QED BY <1>1, <1>2, <1>3, <1>4, <1>5, <1>6, <1>7, <1>8, <1>9, <1>10 DEF TreeNext

LEMMA TreeInvStep == TreeInv /\ [TreeNext]_treeVars => TreeInv'
  BY TreeTypeStep, ListsStep, OneReviewStep, HiddenStep DEF TreeInv

\* A bundle leaves the tree as a duplicate only by a fold, beside its owner.
LEMMA FoldStep ==
    TreeTypeOK /\ ListsOK /\ [TreeNext]_treeVars =>
        \A n \in In("crashes") : place'[n] = "hidden" =>
            \E o \in In("crashes") \cap owners : o # n /\ Same(o, case[n])
<1> SUFFICES ASSUME TreeTypeOK, ListsOK, [TreeNext]_treeVars, NEW n \in Bundles, place[n] = "crashes",
                    place'[n] = "hidden"
             PROVE  \E o \in In("crashes") \cap owners : o # n /\ Same(o, case[n])
  BY DEF In
<1>1. CASE Fold
  <2>1. FoldOwners(n) # {} BY <1>1 DEF Fold, TreeTypeOK, ListsOK, In
  <2> QED BY <2>1 DEF FoldOwners, Owners
<1>2. CASE Judge BY <1>2 DEF Judge, TreeTypeOK
<1>3. CASE Record BY <1>3 DEF Record, TreeTypeOK
<1>4. ASSUME NEW a \in Agents, Create(a) PROVE FALSE BY <1>4 DEF Create, TreeTypeOK
<1>5. CASE UNCHANGED place BY <1>5
<1> QED BY <1>1, <1>2, <1>3, <1>4, <1>5 DEF TreeNext, treeVars, Look, StartPass, Elect, NextWave, Lapse

\* A pass that ends with its reviews done has settled all it was handed.
LEMMA SettledStep ==
    ListsOK /\ PhaseOK /\ [TreeNext]_treeVars => (phase = "judge" /\ phase' = "idle" => took = {})
<1> SUFFICES ASSUME ListsOK, PhaseOK, [TreeNext]_treeVars, phase = "judge", phase' = "idle"
             PROVE  took = {}
  OBVIOUS
<1>1. NextWave
  BY DEF TreeNext, treeVars, Create, Look, StartPass, Fold, Record, Elect, Judge, Lapse
<1> QED BY <1>1 DEF NextWave, ListsOK, PhaseOK

\* Type correctness of the crash tree, for any cases and number of bundles.
THEOREM TreeTypeCorrect == TreeSpec => []TreeTypeOK
<1>1. TreeInv => TreeTypeOK BY DEF TreeInv
<1> QED BY <1>1, TreeInvInit, TreeInvStep, PTL DEF TreeSpec

\* Whatever agents file and revise while a pass is at work, one review at a time
\* is bought for a crash state, duplicates go beside a promoted bundle and are
\* recorded, and nothing the pass was handed is left unjudged.
THEOREM DuplicatesAreKept == TreeSpec => TreeKept
<1>1. TreeSpec => []TreeInv BY TreeInvInit, TreeInvStep, PTL DEF TreeSpec
<1>2. TreeInv => OneReviewPerState /\ HiddenIsRecorded BY DEF TreeInv
<1>3. TreeInv /\ [TreeNext]_treeVars =>
         [\A n \in In("crashes") : place'[n] = "hidden" =>
             \E o \in In("crashes") \cap owners : o # n /\ Same(o, case[n])]_treeVars
  BY FoldStep DEF TreeInv
<1>4. TreeInv /\ [TreeNext]_treeVars => [phase = "judge" /\ phase' = "idle" => took = {}]_treeVars
  BY SettledStep DEF TreeInv
<1>5. TreeSpec => FoldedBesidePromoted BY <1>1, <1>3, PTL DEF TreeSpec, FoldedBesidePromoted
<1>6. TreeSpec => NothingUnjudged BY <1>1, <1>4, PTL DEF TreeSpec, NothingUnjudged
<1> QED BY <1>1, <1>2, <1>5, <1>6, PTL DEF TreeKept

-----------------------------------------------------------------------------
(* The evidence a probe files *)

(* A whole record, and a comparison, are of one run *)
OfOneRun(c) ==
    /\ c.san.test = c.test /\ c.san.harness = c.harness
    /\ c.san.bin = c.bin /\ c.san.build = c.config
    /\ c.ident.harness = c.harness
OfOneComparison(r) ==
    /\ r.san.test = r.test /\ r.san.harness = r.ident.harness
    /\ r.san.bin = r.bin /\ r.san.build = "primary"
    /\ r.status = Status(r.san.out)

Sound(b) ==
    /\ \A c \in b.ctx : c.whole => OfOneRun(c)
    /\ \A c, e \in b.ctx : c = e
    /\ \A r \in b.diff : OfOneComparison(r)

(* What a probe at work has written is of its run *)
WrittenInv ==
    /\ job.at \in Writes => /\ job.run.test = job.test /\ job.run.harness = job.harness
                            /\ job.run.build = config /\ job.run.bin = bin[config]
    /\ job.at \in (Writes \ {"ident"}) \cup {"compare", "record", "result"} =>
           dir[job.d].ident = {Identity(job.test, job.harness)}
    /\ job.at \in {"san", "harness", "context", "stamp"} => dir[job.d].test = job.test
    /\ job.at \in {"harness", "context", "stamp"} => dir[job.d].san = job.run
    /\ job.at \in {"record", "result"} =>
           job.run.test = job.test /\ job.run.harness = job.harness /\ job.run.build = "primary"
    /\ job.at = "result" =>
           \A c \in dir[job.d].ctx : c.whole /\ c.test = job.test /\ c.ident = Identity(job.test, job.harness)

ProbeInv == ProbeTypeOK /\ (\A d \in Dirs : Sound(dir[d])) /\ WrittenInv

LEMMA EmptyBundle == Empty \in BundleFiles /\ Empty.ctx = {} /\ Empty.diff = {} /\ NoRun \in Runs
  BY DEF Empty, BundleFiles, NoRun, Runs, AnyTest, AnyHarness

LEMMA IdleJob == Idle \in Jobs /\ Idle.at = "idle" /\ Idle.d = Copy
  BY EmptyBundle DEF Idle, Jobs, Dirs, AnyTest, AnyHarness

LEMMA IdentityType == ASSUME config \in Configs, NEW t \in AnyTest, NEW h \in AnyHarness
                      PROVE  /\ Identity(t, h) \in Idents
                             /\ Identity(t, h).test = t /\ Identity(t, h).harness = h
  BY DEF Identity, Idents

LEMMA RunFields ==
    ASSUME NEW t \in AnyTest, NEW h \in AnyHarness, NEW build \in Configs, NEW out \in Outcomes \cup {"crash"},
           bin \in [Configs -> 1 .. MaxBuilds + 1]
    PROVE  /\ Run(t, h, build, out) \in Runs
           /\ Run(t, h, build, out).test = t /\ Run(t, h, build, out).harness = h
           /\ Run(t, h, build, out).bin = bin[build] /\ Run(t, h, build, out).build = build
           /\ Run(t, h, build, out).out = out
  BY ProbeAssumption DEF Run, Runs

(* One bundle is replaced by another *)
LEMMA Replaced ==
    ASSUME dir \in [Dirs -> BundleFiles], NEW d \in Dirs, NEW b \in BundleFiles,
           dir' = [dir EXCEPT ![d] = b]
    PROVE  /\ dir' \in [Dirs -> BundleFiles] /\ dir'[d] = b
           /\ \A e \in Dirs : e # d => dir'[e] = dir[e]
  OBVIOUS

(* One file of a bundle is written *)
LEMMA PutInputs ==
    ASSUME NEW b \in BundleFiles
    PROVE  /\ \A t \in AnyTest :
              LET n == [b EXCEPT !["test"] = t] IN
              /\ n \in BundleFiles /\ n.test = t /\ n.harness = b.harness /\ n.san = b.san
              /\ n.ident = b.ident /\ n.ctx = b.ctx /\ n.dsan = b.dsan /\ n.diff = b.diff
           /\ \A h \in AnyHarness :
              LET n == [b EXCEPT !["harness"] = h] IN
              /\ n \in BundleFiles /\ n.test = b.test /\ n.harness = h /\ n.san = b.san
              /\ n.ident = b.ident /\ n.ctx = b.ctx /\ n.dsan = b.dsan /\ n.diff = b.diff
           /\ \A s \in Runs :
              LET n == [b EXCEPT !["san"] = s] IN
              /\ n \in BundleFiles /\ n.test = b.test /\ n.harness = b.harness /\ n.san = s
              /\ n.ident = b.ident /\ n.ctx = b.ctx /\ n.dsan = b.dsan /\ n.diff = b.diff
  BY DEF BundleFiles

LEMMA PutRecords ==
    ASSUME NEW b \in BundleFiles
    PROVE  /\ \A i \in SUBSET Idents :
              LET n == [b EXCEPT !["ident"] = i] IN
              /\ n \in BundleFiles /\ n.test = b.test /\ n.harness = b.harness /\ n.san = b.san
              /\ n.ident = i /\ n.ctx = b.ctx /\ n.dsan = b.dsan /\ n.diff = b.diff
           /\ \A c \in SUBSET Contexts :
              LET n == [b EXCEPT !["ctx"] = c] IN
              /\ n \in BundleFiles /\ n.test = b.test /\ n.harness = b.harness /\ n.san = b.san
              /\ n.ident = b.ident /\ n.ctx = c /\ n.dsan = b.dsan /\ n.diff = b.diff
           /\ \A s \in Runs :
              LET n == [b EXCEPT !["dsan"] = s] IN
              /\ n \in BundleFiles /\ n.test = b.test /\ n.harness = b.harness /\ n.san = b.san
              /\ n.ident = b.ident /\ n.ctx = b.ctx /\ n.dsan = s /\ n.diff = b.diff
           /\ \A r \in SUBSET Comparisons :
              LET n == [b EXCEPT !["diff"] = r] IN
              /\ n \in BundleFiles /\ n.test = b.test /\ n.harness = b.harness /\ n.san = b.san
              /\ n.ident = b.ident /\ n.ctx = b.ctx /\ n.dsan = b.dsan /\ n.diff = r
  BY DEF BundleFiles

LEMMA ProbeInitInv == ProbeInit => ProbeInv
  <1> SUFFICES ASSUME ProbeInit PROVE ProbeInv
    OBVIOUS
  <1>1. ProbeTypeOK
    BY EmptyBundle, IdleJob, ProbeAssumption DEF ProbeInit, ProbeTypeOK, Configs
  <1>2. \A d \in Dirs : Sound(dir[d])
    BY EmptyBundle DEF ProbeInit, Sound
  <1>3. WrittenInv
    BY IdleJob DEF ProbeInit, WrittenInv, Writes
  <1> QED  BY <1>1, <1>2, <1>3 DEF ProbeInv

(* A confirmed run *)
LEMMA ConfirmStep ==
    ASSUME ProbeInv, NEW t \in Tests, NEW h \in AnyHarness, Confirm(t, h)
    PROVE  ProbeInv'
  <1> DEFINE new(next, d) == [at |-> next, d |-> d, new |-> dir[d] = Empty, test |-> t, harness |-> h,
                            run |-> Run(t, h, config, "crash")]
  <1>1. PICK d \in Filed :
            \/ job' = new("compare", d) /\ dir[d].ident = {Identity(t, h)}
            \/ job' = new("ident", d)
    BY DEF Confirm
  <1>2. /\ t \in AnyTest /\ config \in Configs /\ bin \in [Configs -> 1 .. MaxBuilds + 1]
        /\ UNCHANGED <<dir, bin, config, mishaps>> /\ probes' \in 0 .. MaxProbes
    BY ProbeAssumption DEF Confirm, ProbeInv, ProbeTypeOK, AnyTest
  <1>3. /\ Run(t, h, config, "crash") \in Runs
        /\ Run(t, h, config, "crash").test = t /\ Run(t, h, config, "crash").harness = h
        /\ Run(t, h, config, "crash").build = config /\ Run(t, h, config, "crash").bin = bin[config]
    BY <1>2, RunFields
  <1> DEFINE run == Run(t, h, config, "crash")
             fresh == dir[d] = Empty
  <1>6. fresh \in BOOLEAN
    OBVIOUS
  <1>7. \E next \in {"compare", "ident"} :
           /\ job' = [at |-> next, d |-> d, new |-> fresh, test |-> t, harness |-> h, run |-> run]
           /\ next = "compare" => dir[d].ident = {Identity(t, h)}
    BY <1>1
  <1>8. run \in Runs
    BY <1>3
  <1> HIDE DEF run, fresh
  <1>4. /\ job' \in Jobs /\ job'.at \in {"compare", "ident"} /\ job'.d = d
        /\ job'.test = t /\ job'.harness = h /\ job'.run = run
        /\ job'.at = "compare" => dir[d].ident = {Identity(t, h)}
    BY <1>2, <1>6, <1>7, <1>8 DEF Jobs, Writes, Dirs
  <1>5. ProbeTypeOK'
    BY <1>2, <1>4 DEF ProbeInv, ProbeTypeOK
  <1>9. WrittenInv'
    BY <1>2, <1>3, <1>4 DEF WrittenInv, Writes, run, Identity
  <1> QED  BY <1>2, <1>5, <1>9 DEF ProbeInv, Sound

Stages == Writes \cup {"idle", "compare", "record", "result", "end"}

(* A step of a probe over its bundle b *)
LEMMA AtWork ==
    ASSUME ProbeInv, NEW next \in Stages \ {"idle"}, job.at # "idle",
           NEW b \in BundleFiles, Sound(b), dir' = [dir EXCEPT ![job.d] = b],
           job' = [job EXCEPT !.at = next], UNCHANGED <<bin, config, probes, mishaps>>
    PROVE  /\ ProbeTypeOK' /\ \A d \in Dirs : Sound(dir'[d])
           /\ job'.at = next /\ job'.d = job.d /\ job'.test = job.test
           /\ job'.harness = job.harness /\ job'.run = job.run
           /\ dir'[job.d] = b
  <1>1. job \in Jobs /\ job.d \in Filed /\ job.d \in Dirs
    BY IdleJob DEF ProbeInv, ProbeTypeOK, Dirs
  <1>2. /\ job' \in Jobs /\ job'.at = next /\ job'.d = job.d /\ job'.test = job.test
        /\ job'.harness = job.harness /\ job'.run = job.run
    BY <1>1 DEF Jobs, Stages
  <1>3. /\ dir' \in [Dirs -> BundleFiles] /\ dir'[job.d] = b
        /\ \A e \in Dirs : e # job.d => dir'[e] = dir[e]
    BY <1>1, Replaced DEF ProbeInv, ProbeTypeOK
  <1>4. ProbeTypeOK'
    BY <1>1, <1>2, <1>3 DEF ProbeInv, ProbeTypeOK
  <1>5. \A d \in Dirs : Sound(dir'[d])
    BY <1>3 DEF ProbeInv
  <1> QED  BY <1>2, <1>3, <1>4, <1>5

LEMMA ContextFields ==
    ASSUME ProbeInv, job.at \in {"context", "stamp"}, NEW whole \in BOOLEAN
    PROVE  /\ Context(whole) \in Contexts
           /\ Context(whole).whole = whole
           /\ OfOneRun(Context(whole))
  <1>1. /\ dir[job.d] \in BundleFiles /\ job \in Jobs /\ config \in Configs /\ bin \in [Configs -> 1 .. MaxBuilds + 1]
    BY IdleJob DEF ProbeInv, ProbeTypeOK, Dirs
  <1>2. /\ job.test \in AnyTest /\ job.harness \in AnyHarness /\ dir[job.d].test \in AnyTest /\ dir[job.d].san \in Runs
        /\ bin[config] \in Nat
    BY <1>1, ProbeAssumption DEF Jobs, BundleFiles
  <1>3. /\ Identity(job.test, job.harness) \in Idents
        /\ Identity(job.test, job.harness).harness = job.harness
    BY <1>1, <1>2, IdentityType
  <1>4. /\ dir[job.d].test = job.test /\ dir[job.d].san = job.run
        /\ job.run.test = job.test /\ job.run.harness = job.harness
        /\ job.run.build = config /\ job.run.bin = bin[config]
    BY DEF ProbeInv, WrittenInv, Writes
  <1> DEFINE ident == Identity(job.test, job.harness)
             c == [ident |-> ident, test |-> dir[job.d].test, harness |-> job.harness, san |-> dir[job.d].san,
                   bin |-> bin[config], config |-> config, whole |-> whole]
  <1>5. c = Context(whole)
    BY Zenon DEF Context
  <1>6. ident \in Idents /\ ident.harness = job.harness
    BY <1>3
  <1> HIDE DEF ident
  <1>7. c \in Contexts
    BY <1>1, <1>2, <1>6 DEF Contexts
  <1>8. /\ c.ident = ident /\ c.test = dir[job.d].test /\ c.harness = job.harness /\ c.san = dir[job.d].san
        /\ c.bin = bin[config] /\ c.config = config /\ c.whole = whole
    OBVIOUS
  <1> HIDE DEF c
  <1> QED  BY <1>4, <1>5, <1>6, <1>7, <1>8 DEF OfOneRun

LEMMA MaterializeStep == ASSUME ProbeInv, Materialize PROVE ProbeInv'
  <1> DEFINE b == dir[job.d]
  <1>1. /\ job \in Jobs /\ job.at \in Writes /\ b \in BundleFiles /\ Sound(b)
        /\ config \in Configs /\ job.test \in AnyTest /\ job.harness \in AnyHarness /\ job.run \in Runs
        /\ UNCHANGED <<bin, config, probes, mishaps>>
    BY DEF ProbeInv, ProbeTypeOK, Materialize, Put, Jobs, Writes
  <1>2. /\ Identity(job.test, job.harness) \in Idents
        /\ \A t, h : Identity(t, h)' = Identity(t, h)
    BY <1>1, IdentityType DEF Identity
  <1>3. CASE job.at = "ident"
    <2> DEFINE one == {Identity(job.test, job.harness)}
               n == [b EXCEPT !["ident"] = one]
    <2>1. /\ dir' = [dir EXCEPT ![job.d] = n] /\ job' = [job EXCEPT !.at = "test"]
      BY <1>3 DEF Materialize, Put
    <2>5. one \in SUBSET Idents
      BY <1>2
    <2> HIDE DEF one
    <2>2. n \in BundleFiles /\ n.ident = one /\ n.ctx = b.ctx /\ n.diff = b.diff
      BY <1>1, <2>5, PutRecords
    <2> USE DEF one
    <2> HIDE DEF n
    <2>3. Sound(n)
      BY <1>1, <2>2 DEF Sound
    <2> HIDE DEF b
    <2>4. /\ ProbeTypeOK' /\ (\A d \in Dirs : Sound(dir'[d])) /\ job'.at = "test" /\ job'.d = job.d
          /\ job'.test = job.test /\ job'.harness = job.harness /\ job'.run = job.run /\ dir'[job.d] = n
      BY <1>1, <1>3, <2>1, <2>2, <2>3, AtWork DEF Stages, Writes
    <2> QED  BY <1>1, <1>2, <1>3, <2>2, <2>4 DEF ProbeInv, WrittenInv, Writes, Sound, OfOneComparison, OfOneRun
  <1>4. CASE job.at = "test"
    <2> DEFINE n == [b EXCEPT !["test"] = job.test]
    <2>1. /\ dir' = [dir EXCEPT ![job.d] = n] /\ job' = [job EXCEPT !.at = "san"]
      BY <1>4 DEF Materialize, Put
    <2>2. /\ n \in BundleFiles /\ n.test = job.test /\ n.ident = b.ident
          /\ n.ctx = b.ctx /\ n.diff = b.diff
      BY <1>1, <1>2, PutInputs
    <2> HIDE DEF n
    <2>3. Sound(n)
      BY <1>1, <2>2 DEF Sound
    <2>4. /\ ProbeTypeOK' /\ (\A d \in Dirs : Sound(dir'[d])) /\ job'.at = "san" /\ job'.d = job.d
          /\ job'.test = job.test /\ job'.harness = job.harness /\ job'.run = job.run /\ dir'[job.d] = n
      BY <1>1, <1>4, <2>1, <2>2, <2>3, AtWork DEF Stages, Writes
    <2> QED  BY <1>1, <1>2, <1>4, <2>2, <2>4 DEF ProbeInv, WrittenInv, Writes, Sound, OfOneComparison, OfOneRun
  <1>5. CASE job.at = "san"
    <2> DEFINE n == [b EXCEPT !["san"] = job.run]
    <2>1. /\ dir' = [dir EXCEPT ![job.d] = n]
          /\ job' = [job EXCEPT !.at = IF job.harness = None THEN "context" ELSE "harness"]
      BY <1>5 DEF Materialize, Put
    <2>2. /\ n \in BundleFiles /\ n.test = b.test /\ n.san = job.run /\ n.ident = b.ident
          /\ n.ctx = b.ctx /\ n.diff = b.diff
      BY <1>1, <1>2, PutInputs
    <2> HIDE DEF n
    <2>3. Sound(n)
      BY <1>1, <2>2 DEF Sound
    <2>4. PICK next \in {"context", "harness"} : job' = [job EXCEPT !.at = next]
      BY <2>1
    <2>5. /\ ProbeTypeOK' /\ (\A d \in Dirs : Sound(dir'[d])) /\ job'.at = next /\ job'.d = job.d
          /\ job'.test = job.test /\ job'.harness = job.harness /\ job'.run = job.run /\ dir'[job.d] = n
      BY <1>1, <1>5, <2>1, <2>2, <2>3, <2>4, AtWork DEF Stages, Writes
    <2> QED  BY <1>1, <1>2, <1>5, <2>2, <2>5 DEF ProbeInv, WrittenInv, Writes, Sound, OfOneComparison, OfOneRun
  <1>6. CASE job.at = "harness"
    <2> DEFINE n == [b EXCEPT !["harness"] = job.harness]
    <2>1. /\ dir' = [dir EXCEPT ![job.d] = n] /\ job' = [job EXCEPT !.at = "context"]
      BY <1>6 DEF Materialize, Put
    <2>2. /\ n \in BundleFiles /\ n.test = b.test /\ n.san = b.san /\ n.ident = b.ident
          /\ n.ctx = b.ctx /\ n.diff = b.diff
      BY <1>1, <1>2, PutInputs
    <2> HIDE DEF n
    <2>3. Sound(n)
      BY <1>1, <2>2 DEF Sound
    <2>4. /\ ProbeTypeOK' /\ (\A d \in Dirs : Sound(dir'[d])) /\ job'.at = "context" /\ job'.d = job.d
          /\ job'.test = job.test /\ job'.harness = job.harness /\ job'.run = job.run /\ dir'[job.d] = n
      BY <1>1, <1>6, <2>1, <2>2, <2>3, AtWork DEF Stages, Writes
    <2> QED  BY <1>1, <1>2, <1>6, <2>2, <2>4 DEF ProbeInv, WrittenInv, Writes, Sound, OfOneComparison, OfOneRun
  <1>7. CASE job.at \in {"context", "stamp"}
    <2>1. PICK whole \in BOOLEAN, next \in {"stamp", "compare", "end"} :
             /\ job' = [job EXCEPT !.at = next]
             /\ dir' = [dir EXCEPT ![job.d] = [b EXCEPT !["ctx"] = {Context(whole)}]]
      <3>1. CASE job.at = "context"
        BY <3>1 DEF Materialize, Put
      <3>2. CASE job.at = "stamp"
        <4>1. /\ job' = [job EXCEPT !.at = IF config = "alt" THEN "compare" ELSE "end"]
              /\ dir' = [dir EXCEPT ![job.d] = [b EXCEPT !["ctx"] = {Context(TRUE)}]]
          BY <3>2 DEF Materialize, Put
        <4> QED  BY <4>1
      <3> QED  BY <1>7, <3>1, <3>2
    <2>2. Context(whole) \in Contexts /\ OfOneRun(Context(whole))
      BY <1>7, ContextFields
    <2> DEFINE c == Context(whole)
    <2> HIDE DEF c
    <2> DEFINE one == {c}
               n == [b EXCEPT !["ctx"] = one]
    <2>3. dir' = [dir EXCEPT ![job.d] = n]
      BY <2>1 DEF c
    <2>4. c \in Contexts /\ OfOneRun(c) /\ one \in SUBSET Contexts
      BY <2>2 DEF c
    <2> HIDE DEF one
    <2>5. /\ n \in BundleFiles /\ n.test = b.test /\ n.san = b.san /\ n.ident = b.ident
          /\ n.ctx = one /\ n.diff = b.diff
      BY <1>1, <2>4, PutRecords
    <2> USE DEF one
    <2> HIDE DEF n
    <2>6. Sound(n)
      BY <1>1, <2>4, <2>5 DEF Sound
    <2>7. /\ ProbeTypeOK' /\ (\A d \in Dirs : Sound(dir'[d])) /\ job'.at = next /\ job'.d = job.d
          /\ job'.test = job.test /\ job'.harness = job.harness /\ job'.run = job.run /\ dir'[job.d] = n
      BY <1>1, <1>7, <2>1, <2>3, <2>5, <2>6, AtWork DEF Stages, Writes
    <2>8. next = "stamp" => job.at = "context"
      BY <1>1, <1>7, <2>1, <2>7 DEF Materialize, Put, Jobs
    <2> QED  BY <1>1, <1>2, <1>7, <2>5, <2>7 DEF ProbeInv, WrittenInv, Writes, Sound, OfOneComparison, OfOneRun
  <1> QED  BY <1>1, <1>3, <1>4, <1>5, <1>6, <1>7 DEF Writes

(* The probe stops *)
LEMMA AtRest ==
    ASSUME ProbeInv, job' = Idle, dir' \in [Dirs -> BundleFiles], \A d \in Dirs : Sound(dir'[d]),
           UNCHANGED <<bin, config, probes>>, mishaps' \in 0 .. MaxMishaps
    PROVE  ProbeInv'
  <1>1. ProbeTypeOK'
    BY IdleJob DEF ProbeInv, ProbeTypeOK
  <1>2. WrittenInv'
    BY IdleJob DEF WrittenInv, Writes
  <1> QED  BY <1>1, <1>2 DEF ProbeInv

(* Another bundle changes, or one no probe is at *)
LEMMA Elsewhere ==
    ASSUME ProbeInv, NEW d \in Dirs, job = Idle \/ d = Copy,
           NEW b \in BundleFiles, Sound(b), dir' = [dir EXCEPT ![d] = b],
           UNCHANGED <<bin, config, job, probes>>, mishaps' \in 0 .. MaxMishaps
    PROVE  ProbeInv'
  <1>1. /\ dir' \in [Dirs -> BundleFiles] /\ dir'[d] = b
        /\ \A e \in Dirs : e # d => dir'[e] = dir[e]
    BY Replaced DEF ProbeInv, ProbeTypeOK
  <1>2. ProbeTypeOK'
    BY <1>1 DEF ProbeInv, ProbeTypeOK
  <1>3. \A e \in Dirs : Sound(dir'[e])
    BY <1>1 DEF ProbeInv
  <1>4. job = Idle \/ dir'[job.d] = dir[job.d]
    BY <1>1, ProbeAssumption DEF ProbeInv, ProbeTypeOK, Dirs
  <1>5. WrittenInv'
    <2>1. CASE job = Idle
      BY <2>1, IdleJob DEF WrittenInv, Writes
    <2>2. CASE dir'[job.d] = dir[job.d]
      BY <2>2 DEF ProbeInv, WrittenInv, Identity
    <2> QED  BY <1>4, <2>1, <2>2
  <1> QED  BY <1>2, <1>3, <1>5 DEF ProbeInv

LEMMA MishapType == ASSUME mishaps \in 0 .. MaxMishaps, Mishap PROVE mishaps' \in 0 .. MaxMishaps
  BY ProbeAssumption DEF Mishap

LEMMA StopStep == ASSUME ProbeInv, Fail \/ End \/ Kill PROVE ProbeInv'
  <1>1. mishaps' \in 0 .. MaxMishaps
    BY MishapType DEF ProbeInv, ProbeTypeOK, Fail, End, Kill
  <1>2. dir' = dir \/ (dir' = [dir EXCEPT ![job.d] = Empty] /\ job.d \in Dirs)
    BY IdleJob DEF Fail, End, Kill, ProbeInv, ProbeTypeOK, Dirs
  <1>3. dir' \in [Dirs -> BundleFiles] /\ \A d \in Dirs : Sound(dir'[d])
    <2>1. CASE dir' = dir
      BY <2>1 DEF ProbeInv, ProbeTypeOK
    <2>2. CASE dir' = [dir EXCEPT ![job.d] = Empty] /\ job.d \in Dirs
      <3>1. /\ dir' \in [Dirs -> BundleFiles] /\ dir'[job.d] = Empty
            /\ \A e \in Dirs : e # job.d => dir'[e] = dir[e]
        BY <2>2, Replaced, EmptyBundle DEF ProbeInv, ProbeTypeOK
      <3>2. Sound(Empty)
        BY EmptyBundle DEF Sound
      <3> QED  BY <3>1, <3>2 DEF ProbeInv
    <2> QED  BY <1>2, <2>1, <2>2
  <1> QED  BY <1>1, <1>3, AtRest DEF Fail, End, Kill

LEMMA VerifiedFacts ==
    ASSUME NEW b, NEW c \in Verified(b)
    PROVE  /\ c \in b.ctx /\ c.whole /\ c.test = b.test /\ c.san = b.san
           /\ c.harness # None => c.harness = b.harness
           /\ c.bin = bin[c.config] /\ b.ident = {c.ident}
  BY DEF Verified, Recorded

LEMMA CompareStep == ASSUME ProbeInv, NEW out \in Outcomes, Compare(out) PROVE ProbeInv'
  <1> DEFINE run == Run(job.test, job.harness, "primary", out)
  <1>1. job \in Jobs /\ job.at = "compare" /\ job # Idle /\ job.d \in Filed
    BY IdleJob DEF ProbeInv, ProbeTypeOK, Compare
  <1>2. /\ job.test \in AnyTest /\ job.harness \in AnyHarness /\ bin \in [Configs -> 1 .. MaxBuilds + 1]
        /\ "primary" \in Configs
    BY <1>1 DEF Jobs, ProbeInv, ProbeTypeOK, Configs
  <1>3. /\ run \in Runs /\ run.test = job.test /\ run.harness = job.harness /\ run.build = "primary"
    BY <1>2, RunFields
  <1>4. job' = [job EXCEPT !.at = "record", !.run = run] /\ UNCHANGED <<dir, bin, config, probes, mishaps>>
    BY DEF Compare
  <1> HIDE DEF run
  <1>5. /\ job' \in Jobs /\ job'.at = "record" /\ job'.d = job.d /\ job'.test = job.test
        /\ job'.harness = job.harness /\ job'.run = run
    BY <1>1, <1>3, <1>4 DEF Jobs
  <1>6. ProbeTypeOK'
    BY <1>1, <1>4, <1>5 DEF ProbeInv, ProbeTypeOK
  <1>7. WrittenInv'
    BY <1>1, <1>3, <1>4, <1>5 DEF ProbeInv, WrittenInv, Writes, Identity
  <1> QED  BY <1>4, <1>6, <1>7 DEF ProbeInv

LEMMA RecordTextStep == ASSUME ProbeInv, RecordText PROVE ProbeInv'
  <1> DEFINE b == dir[job.d]
  <1>1. job \in Jobs /\ job.at = "record" /\ job.d \in Dirs /\ b \in BundleFiles /\ Sound(b) /\ job.run \in Runs
    BY IdleJob DEF ProbeInv, ProbeTypeOK, RecordText, Jobs, Dirs
  <1>2. CASE \E c \in Verified(b) : Recordable(c)
    <2>1. PICK c \in Verified(b) : Recordable(c)
      BY <1>2
    <2> DEFINE n == [b EXCEPT !["dsan"] = job.run]
    <2>2. dir' = [dir EXCEPT ![job.d] = n] /\ job' = [job EXCEPT !.at = "result"]
          /\ UNCHANGED <<bin, config, probes, mishaps>>
      BY <1>2 DEF RecordText
    <2>3. n \in BundleFiles /\ n.ident = b.ident /\ n.ctx = b.ctx /\ n.diff = b.diff
      BY <1>1, PutRecords
    <2> HIDE DEF n
    <2>4. Sound(n)
      BY <1>1, <2>3 DEF Sound
    <2>5. /\ ProbeTypeOK' /\ (\A d \in Dirs : Sound(dir'[d])) /\ job'.at = "result" /\ job'.d = job.d
          /\ job'.test = job.test /\ job'.harness = job.harness /\ job'.run = job.run /\ dir'[job.d] = n
      BY <1>1, <2>2, <2>3, <2>4, AtWork DEF Stages
    <2>6. /\ c \in b.ctx /\ c.whole /\ b.ident = {c.ident} /\ c.test = job.test
      BY <2>1, VerifiedFacts DEF Recordable
    <2>7. b.ident = {Identity(job.test, job.harness)}
      BY <1>1 DEF ProbeInv, WrittenInv
    <2>8. \A e \in b.ctx : e = c
      BY <1>1, <2>6 DEF Sound
    <2>9. c.ident = Identity(job.test, job.harness) /\ Identity(job.test, job.harness)' = Identity(job.test, job.harness)
      BY <2>2, <2>5, <2>6, <2>7 DEF Identity
    <2>10. /\ job.run.test = job.test /\ job.run.harness = job.harness /\ job.run.build = "primary"
      BY <1>1 DEF ProbeInv, WrittenInv
    <2> HIDE DEF b
    <2> QED
      BY <2>3, <2>5, <2>6, <2>7, <2>8, <2>9, <2>10 DEF ProbeInv, WrittenInv, Writes
  <1>3. CASE ~\E c \in Verified(b) : Recordable(c)
    BY <1>3, AtRest DEF RecordText, ProbeInv, ProbeTypeOK
  <1> QED  BY <1>2, <1>3

LEMMA RecordResultStep == ASSUME ProbeInv, RecordResult PROVE ProbeInv'
  <1> DEFINE b == dir[job.d]
  <1>1. job \in Jobs /\ job.at = "result" /\ job.d \in Dirs /\ b \in BundleFiles /\ Sound(b) /\ job.run \in Runs
    BY IdleJob DEF ProbeInv, ProbeTypeOK, RecordResult, Jobs, Dirs
  <1> DEFINE result(c) == [ident |-> c.ident, test |-> c.test, san |-> job.run,
                           bin |-> job.run.bin, status |-> Status(job.run.out)]
  <1>2. PICK c \in b.ctx : dir' = [dir EXCEPT ![job.d] = [b EXCEPT !["diff"] = {result(c)}]]
    BY DEF RecordResult
  <1>3. c \in Contexts /\ c.whole /\ c.test = job.test /\ c.ident = Identity(job.test, job.harness)
    BY <1>1 DEF ProbeInv, WrittenInv, BundleFiles
  <1>4. OfOneRun(c) /\ c.ident.harness = c.harness /\ c.ident \in Idents /\ c.test \in AnyTest
    BY <1>1, <1>3 DEF Sound, OfOneRun, Contexts
  <1>5. c.ident.harness = job.harness
    BY <1>3 DEF Identity
  <1>6. /\ job.run.test = job.test /\ job.run.harness = job.harness /\ job.run.build = "primary"
    BY <1>1 DEF ProbeInv, WrittenInv
  <1>7. job.run.bin \in Nat /\ Status(job.run.out) \in {"reproduced", "not-reproduced", "different-crash", "inconclusive"}
    BY <1>1 DEF Runs, Status
  <1> DEFINE r == [ident |-> c.ident, test |-> c.test, san |-> job.run,
                   bin |-> job.run.bin, status |-> Status(job.run.out)]
  <1>8. r \in Comparisons
    BY <1>1, <1>4, <1>7 DEF Comparisons
  <1>9. /\ r.ident = c.ident /\ r.test = c.test /\ r.san = job.run /\ r.bin = job.run.bin
        /\ r.status = Status(job.run.out)
    OBVIOUS
  <1>10. dir' = [dir EXCEPT ![job.d] = [b EXCEPT !["diff"] = {r}]]
    BY <1>2
  <1> HIDE DEF r
  <1>11. OfOneComparison(r)
    BY <1>3, <1>5, <1>6, <1>9 DEF OfOneComparison
  <1> DEFINE one == {r}
             n == [b EXCEPT !["diff"] = one]
  <1>12. one \in SUBSET Comparisons /\ dir' = [dir EXCEPT ![job.d] = n]
    BY <1>8, <1>10
  <1> HIDE DEF one
  <1>13. n \in BundleFiles /\ n.ctx = b.ctx /\ n.diff = one
    BY <1>1, <1>12, PutRecords
  <1> HIDE DEF n
  <1>14. Sound(n)
    BY <1>1, <1>11, <1>13 DEF Sound, one
  <1>15. /\ dir' \in [Dirs -> BundleFiles] /\ dir'[job.d] = n
         /\ \A e \in Dirs : e # job.d => dir'[e] = dir[e]
    BY <1>1, <1>12, <1>13, Replaced DEF ProbeInv, ProbeTypeOK
  <1>16. \A d \in Dirs : Sound(dir'[d])
    BY <1>14, <1>15 DEF ProbeInv
  <1> QED  BY <1>15, <1>16, AtRest DEF RecordResult, ProbeInv, ProbeTypeOK

(* Restored copies *)

LEMMA OneIsSome == ASSUME NEW S, Cardinality(S) = 1 PROVE S # {}
  BY FS_EmptySet

LEMMA ComparisonKept ==
    ASSUME ProbeInv, NEW b \in BundleFiles, Sound(b)
    PROVE  WithComparison(b) \in BundleFiles /\ Sound(WithComparison(b))
  <1> DEFINE found == {d \in Filed : Compared(dir[d]) # {}}
             with(d) == [b EXCEPT !.dsan = dir[d].dsan, !.diff = dir[d].diff]
             none == [b EXCEPT !.dsan = NoRun, !.diff = {}]
  <1>1. CASE Cardinality(UNION {Compared(dir[d]) : d \in found}) # 1
    BY <1>1 DEF WithComparison
  <1>2. CASE Cardinality(UNION {Compared(dir[d]) : d \in found}) = 1
    <2>1. UNION {Compared(dir[d]) : d \in found} # {}
      BY <1>2, OneIsSome
    <2>2. found # {}
      BY <2>1
    <2> DEFINE d == CHOOSE x \in found : TRUE
    <2>3. d \in Filed
      BY <2>2
    <2>4. WithComparison(b) = none \/ WithComparison(b) = with(d)
      BY <1>2 DEF WithComparison
    <2> HIDE DEF d
    <2>5. dir[d] \in BundleFiles /\ Sound(dir[d])
      BY <2>3 DEF ProbeInv, ProbeTypeOK, Dirs
    <2>6. /\ none \in BundleFiles /\ none.ctx = b.ctx /\ none.diff = {}
      BY EmptyBundle DEF BundleFiles
    <2>7. /\ with(d) \in BundleFiles /\ with(d).ctx = b.ctx /\ with(d).diff = dir[d].diff
      BY <2>5 DEF BundleFiles
    <2> HIDE DEF none, with
    <2>8. Sound(none) /\ Sound(with(d))
      BY <2>5, <2>6, <2>7 DEF Sound
    <2> QED  BY <2>4, <2>6, <2>7, <2>8
  <1> QED  BY <1>1, <1>2

LEMMA RestoredSource ==
    ASSUME ProbeInv, NEW b, NEW c \in Source(b)
    PROVE  c \in Contexts /\ c.whole /\ OfOneRun(c) /\ c.ident \in Idents
  <1>1. PICK d \in Filed : c \in Verified(dir[d])
    BY DEF Source
  <1>2. c \in dir[d].ctx /\ c.whole /\ d \in Dirs
    BY <1>1, VerifiedFacts DEF Dirs
  <1>3. Sound(dir[d]) /\ dir[d] \in BundleFiles
    BY <1>2 DEF ProbeInv, ProbeTypeOK
  <1>4. c \in Contexts
    BY <1>2, <1>3 DEF BundleFiles
  <1> QED  BY <1>2, <1>3, <1>4 DEF Sound, Contexts

LEMMA RestoreStep == ASSUME ProbeInv, Restore PROVE ProbeInv'
  <1> DEFINE c == CHOOSE x \in Source(dir[Copy]) : TRUE
             b == [dir[Copy] EXCEPT !.ident = {c.ident}, !.ctx = {c}]
  <1>1. c \in Source(dir[Copy])
    BY OneIsSome DEF Restore
  <1>2. dir' = [dir EXCEPT ![Copy] = Kept(b)] /\ job = Idle /\ UNCHANGED <<bin, config, job, probes, mishaps>>
    BY DEF Restore
  <1> HIDE DEF c
  <1>3. c \in Contexts /\ OfOneRun(c) /\ c.ident \in Idents
    BY <1>1, RestoredSource
  <1>4. dir[Copy] \in BundleFiles /\ Sound(dir[Copy]) /\ Copy \in Dirs
    BY DEF ProbeInv, ProbeTypeOK, Dirs
  <1>5. b \in BundleFiles /\ b.ctx = {c} /\ b.diff = dir[Copy].diff
    BY <1>3, <1>4 DEF BundleFiles
  <1> HIDE DEF b
  <1>6. Sound(b)
    BY <1>3, <1>4, <1>5 DEF Sound
  <1> DEFINE bare == [b EXCEPT !.ident = {}, !.ctx = {}]
  <1>7. bare \in BundleFiles /\ bare.ctx = {} /\ bare.diff = b.diff
    BY <1>5 DEF BundleFiles
  <1>8. Kept(b) = WithComparison(b) \/ Kept(b) = bare
    BY DEF Kept
  <1> HIDE DEF bare
  <1>9. Kept(b) \in BundleFiles /\ Sound(Kept(b))
    <2>1. Sound(bare)
      BY <1>6, <1>7 DEF Sound
    <2> QED  BY <1>5, <1>6, <1>7, <1>8, <2>1, ComparisonKept
  <1>10. mishaps' \in 0 .. MaxMishaps
    BY <1>2 DEF ProbeInv, ProbeTypeOK
  <1> QED  BY <1>2, <1>4, <1>9, <1>10, Elsewhere

LEMMA RestoreCutStep == ASSUME ProbeInv, RestoreCut PROVE ProbeInv'
  <1>1. PICK c \in Source(dir[Copy]) : dir' = [dir EXCEPT ![Copy] = [dir[Copy] EXCEPT !["ident"] = {c.ident}]]
    BY DEF RestoreCut
  <1> DEFINE one == {c.ident}
             n == [dir[Copy] EXCEPT !["ident"] = one]
  <1>2. one \in SUBSET Idents /\ dir' = [dir EXCEPT ![Copy] = n]
    BY <1>1, RestoredSource
  <1> HIDE DEF one
  <1>3. dir[Copy] \in BundleFiles /\ Sound(dir[Copy]) /\ Copy \in Dirs
    BY DEF ProbeInv, ProbeTypeOK, Dirs
  <1>4. n \in BundleFiles /\ n.ctx = dir[Copy].ctx /\ n.diff = dir[Copy].diff
    BY <1>2, <1>3, PutRecords
  <1> HIDE DEF n
  <1>5. Sound(n)
    BY <1>3, <1>4 DEF Sound
  <1>6. mishaps' \in 0 .. MaxMishaps /\ job = Idle /\ UNCHANGED <<bin, config, job, probes>>
    BY MishapType DEF RestoreCut, ProbeInv, ProbeTypeOK
  <1> QED  BY <1>2, <1>3, <1>4, <1>5, <1>6, Elsewhere

(* Agents *)
LEMMA PublishStep == ASSUME ProbeInv, NEW d \in Filed, Publish(d) PROVE ProbeInv'
  <1>1. PICK h \in {None, dir[d].harness} :
           dir' = [dir EXCEPT ![Copy] = [Empty EXCEPT !.test = dir[d].test, !.san = dir[d].san, !.harness = h]]
    BY DEF Publish
  <1> DEFINE n == [Empty EXCEPT !.test = dir[d].test, !.san = dir[d].san, !.harness = h]
  <1>2. dir[d] \in BundleFiles /\ Copy \in Dirs
    BY DEF ProbeInv, ProbeTypeOK, Dirs
  <1>3. dir[d].test \in AnyTest /\ dir[d].san \in Runs /\ h \in AnyHarness
    BY <1>2 DEF BundleFiles, AnyHarness
  <1>4. n \in BundleFiles /\ n.ctx = {} /\ n.diff = {}
    BY <1>3, EmptyBundle DEF BundleFiles
  <1>5. dir' = [dir EXCEPT ![Copy] = n]
    BY <1>1
  <1> HIDE DEF n
  <1>6. Sound(n)
    BY <1>4 DEF Sound
  <1>7. mishaps' \in 0 .. MaxMishaps /\ UNCHANGED <<bin, config, job, probes>>
    BY DEF Publish, ProbeInv, ProbeTypeOK
  <1> QED  BY <1>2, <1>4, <1>5, <1>6, <1>7, Elsewhere

LEMMA EditBundleStep == ASSUME ProbeInv, NEW d \in Dirs, EditBundle(d) \/ (d \in Filed /\ Export(d)) PROVE ProbeInv'
  <1> DEFINE b == dir[d]
  <1>1. b \in BundleFiles /\ Sound(b)
    BY DEF ProbeInv, ProbeTypeOK
  <1>2. PICK n : /\ dir' = [dir EXCEPT ![d] = n]
                 /\ n \in BundleFiles /\ n.ctx = b.ctx /\ n.diff = b.diff
    <2>1. CASE \E t \in Tests : dir' = [dir EXCEPT ![d] = [b EXCEPT !["test"] = t]]
      <3>1. PICK t \in Tests : dir' = [dir EXCEPT ![d] = [b EXCEPT !["test"] = t]]
        BY <2>1
      <3> DEFINE n == [b EXCEPT !["test"] = t]
      <3>2. dir' = [dir EXCEPT ![d] = n] /\ t \in AnyTest
        BY <3>1 DEF AnyTest
      <3>3. n \in BundleFiles /\ n.ctx = b.ctx /\ n.diff = b.diff
        BY <1>1, <3>2, PutInputs
      <3> HIDE DEF n
      <3> QED  BY <3>2, <3>3
    <2>2. CASE \E h \in Harnesses : dir' = [dir EXCEPT ![d] = [b EXCEPT !["harness"] = h]]
      <3>1. PICK h \in Harnesses : dir' = [dir EXCEPT ![d] = [b EXCEPT !["harness"] = h]]
        BY <2>2
      <3> DEFINE n == [b EXCEPT !["harness"] = h]
      <3>2. dir' = [dir EXCEPT ![d] = n] /\ h \in AnyHarness
        BY <3>1 DEF AnyHarness
      <3>3. n \in BundleFiles /\ n.ctx = b.ctx /\ n.diff = b.diff
        BY <1>1, <3>2, PutInputs
      <3> HIDE DEF n
      <3> QED  BY <3>2, <3>3
    <2>3. CASE dir' = [dir EXCEPT ![d] = [b EXCEPT !["san"] = Scribble]]
      <3>1. Scribble \in Runs
        BY EmptyBundle DEF Scribble, Runs
      <3> DEFINE n == [b EXCEPT !["san"] = Scribble]
      <3>2. dir' = [dir EXCEPT ![d] = n] /\ Scribble \in Runs
        BY <2>3, <3>1
      <3>3. n \in BundleFiles /\ n.ctx = b.ctx /\ n.diff = b.diff
        BY <1>1, <3>2, PutInputs
      <3> HIDE DEF n
      <3> QED  BY <3>2, <3>3
    <2>4. CASE dir' = [dir EXCEPT ![d] = [b EXCEPT !.exported = TRUE]]
      <3> DEFINE n == [b EXCEPT !.exported = TRUE]
      <3>1. n \in BundleFiles /\ n.ctx = b.ctx /\ n.diff = b.diff
        BY <1>1 DEF BundleFiles
      <3> QED  BY <2>4, <3>1
    <2> QED  BY <2>1, <2>2, <2>3, <2>4 DEF EditBundle, Export
  <1>3. Sound(n)
    BY <1>1, <1>2 DEF Sound
  <1>4. mishaps' \in 0 .. MaxMishaps /\ job = Idle /\ UNCHANGED <<bin, config, job, probes>>
    BY MishapType DEF EditBundle, Export, ProbeInv, ProbeTypeOK
  <1> QED  BY <1>2, <1>3, <1>4, Elsewhere

LEMMA RebuildStep == ASSUME ProbeInv, NEW b \in Configs, Rebuild(b) PROVE ProbeInv'
  <1>1. mishaps' \in 0 .. MaxMishaps
    BY MishapType DEF Rebuild, ProbeInv, ProbeTypeOK
  <1>2. /\ bin' \in [Configs -> 1 .. MaxBuilds + 1] /\ (b # config => bin'[config] = bin[config])
    BY ProbeAssumption DEF Rebuild, ProbeInv, ProbeTypeOK
  <1>3. UNCHANGED <<dir, config, job, probes>> /\ (job.at \in Writes => b # config)
    BY DEF Rebuild, Writes
  <1>4. ProbeTypeOK'
    BY <1>1, <1>2, <1>3 DEF ProbeInv, ProbeTypeOK
  <1>5. WrittenInv'
    BY <1>2, <1>3 DEF ProbeInv, WrittenInv, Identity
  <1> QED  BY <1>3, <1>4, <1>5 DEF ProbeInv

LEMMA SelectStep == ASSUME ProbeInv, Select PROVE ProbeInv'
  <1>1. mishaps' \in 0 .. MaxMishaps /\ config' \in Configs /\ job = Idle /\ UNCHANGED <<dir, bin, job, probes>>
    BY MishapType DEF Select, ProbeInv, ProbeTypeOK
  <1>2. ProbeTypeOK'
    BY <1>1 DEF ProbeInv, ProbeTypeOK
  <1>3. WrittenInv'
    BY <1>1, IdleJob DEF WrittenInv, Writes
  <1> QED  BY <1>1, <1>2, <1>3 DEF ProbeInv

LEMMA ProbeStep == ASSUME ProbeInv, [ProbeNext]_probeVars PROVE ProbeInv'
  <1>1. CASE UNCHANGED probeVars
    BY <1>1 DEF ProbeInv, ProbeTypeOK, WrittenInv, Identity, probeVars
  <1>2. CASE ProbeNext
    BY <1>2, ConfirmStep, MaterializeStep, StopStep, CompareStep, RecordTextStep, RecordResultStep,
       RestoreStep, RestoreCutStep, PublishStep, EditBundleStep, RebuildStep, SelectStep
       DEF ProbeNext, AnyHarness, Dirs
  <1> QED  BY <1>1, <1>2

(* What the records say holds of what is there *)
LEMMA ProbeHolds == ASSUME ProbeInv PROVE VerifiedIsRun /\ RecordedRan /\ ComparedOnPrimary
  <1>1. VerifiedIsRun
    <2> SUFFICES ASSUME NEW d \in Dirs, NEW c \in Verified(dir[d])
                 PROVE  /\ dir[d].san.test = dir[d].test /\ dir[d].san.bin = bin[dir[d].san.build]
                        /\ dir[d].san.build = c.config
                        /\ c.harness # None => dir[d].san.harness = dir[d].harness
      BY DEF VerifiedIsRun
    <2> QED  BY VerifiedFacts DEF ProbeInv, Sound, OfOneRun
  <1>2. RecordedRan
    <2> SUFFICES ASSUME NEW d \in Dirs, NEW c \in Recorded(dir[d])
                 PROVE  dir[d].san.test = dir[d].test /\ dir[d].san.harness \in {None, dir[d].harness}
      BY DEF RecordedRan, ReceiptArtifacts
    <2> QED  BY DEF Recorded, ProbeInv, Sound, OfOneRun
  <1>3. ComparedOnPrimary
    <2> SUFFICES ASSUME NEW d \in Dirs, NEW r \in Compared(dir[d])
                 PROVE  /\ dir[d].dsan.test = dir[d].test /\ dir[d].dsan.build = "primary"
                        /\ dir[d].dsan.bin = bin["primary"]
                        /\ dir[d].dsan.harness \in {None, dir[d].harness}
                        /\ r.status = Status(dir[d].dsan.out)
      BY DEF ComparedOnPrimary
    <2>1. PICK c \in Verified(dir[d]) : c.ident = r.ident /\ c.test = r.test
      BY DEF Compared
    <2>2. r \in dir[d].diff /\ r.san = dir[d].dsan /\ r.bin = bin["primary"]
      BY DEF Compared
    <2>3. OfOneRun(c) /\ OfOneComparison(r)
      BY <2>1, <2>2, VerifiedFacts DEF ProbeInv, Sound
    <2> QED  BY <2>1, <2>2, <2>3, VerifiedFacts DEF OfOneRun, OfOneComparison
  <1> QED  BY <1>1, <1>2, <1>3

-----------------------------------------------------------------------------
(* The receipt of a review *)

BundleRecords == [report : AnyText, proof : AnyText, review : SUBSET Reviews, place : Locations, probed : Revs]
ClaimsOf(review) == {<<r.vote, r.anchor>> : r \in review}

(* What a receipt's evidence says was reviewed *)
Reviewed(ev) == [report |-> ev.report, proof |-> ev.files.proof, claims |-> ClaimsOf(ev.files.review)]

(* Saved claims can be taken over, and the evidence this gives *)
Here(ev) == \E c \in ev.ctx : Matches(c, ev.rev)
CanKeep(b, ev, state) ==
    /\ Whole(b, state)
    /\ \A c \in ev.ctx : Valid(c, ev.rev)
    /\ \A a \in ev.att : Follows(b, a) # {}
    /\ ev.ctx # {} => Rebound(b, ev.att) # {}
    /\ Here(ev) => Claims(Rebound(b, ev.att)) = Claims(Attest(b))
KeptClaims(b, ev) == IF Here(ev) THEN Attest(b) ELSE Rebound(b, ev.att)
KeptEvidence(b, ev) == Evidence(b, ev.rev, KeptClaims(b, ev), ev.ctx)

LEMMA PreservedIs ==
    ASSUME NEW b, NEW ev, NEW state
    PROVE  Preserved(b, ev, state) = IF CanKeep(b, ev, state) THEN {KeptEvidence(b, ev)} ELSE {}
  BY Zenon DEF Preserved, CanKeep, KeptEvidence, KeptClaims, Here

ReceiptInv ==
    /\ ReceiptTypeOK
    /\ seen.prior \subseteq validation /\ (~seen.on => seen.prior = {})
    /\ raced \/ \A p \in seen.prior : Reviewed(p.ev) = Meaning
    /\ raced \/ \A p \in validation : \E j \in judged : j.state = p.state /\ j.of = Reviewed(p.ev)
    /\ \A p \in validation : p.ev.att # {} => p.ev.ctx # {}

(* Evidence over a bundle *)
LEMMA EvidenceFields ==
    ASSUME NEW b \in BundleRecords, NEW rev \in Revs, NEW att \in SUBSET Claimed, NEW ctx \in SUBSET Sites
    PROVE  /\ Evidence(b, rev, att, ctx) \in Evidences
           /\ Evidence(b, rev, att, ctx).att = att /\ Evidence(b, rev, att, ctx).ctx = ctx
           /\ Evidence(b, rev, att, ctx).rev = rev
           /\ Reviewed(Evidence(b, rev, att, ctx)) =
                  [report |-> b.report, proof |-> b.proof, claims |-> ClaimsOf(b.review)]
  <1> DEFINE files == [proof |-> b.proof, review |-> b.review, place |-> b.place]
             ev == [report |-> b.report, files |-> files, rev |-> rev, att |-> att, ctx |-> ctx]
  <1>1. ev = Evidence(b, rev, att, ctx)
    BY DEF Evidence
  <1>2. files \in [proof : AnyText, review : SUBSET Reviews, place : Locations] /\ b.report \in AnyText
    BY DEF BundleRecords
  <1>3. files.proof = b.proof /\ files.review = b.review
    OBVIOUS
  <1> HIDE DEF files
  <1>4. ev \in Evidences
    BY <1>2 DEF Evidences
  <1>5. ev.att = att /\ ev.ctx = ctx /\ ev.rev = rev /\ ev.report = b.report /\ ev.files = files
    OBVIOUS
  <1> HIDE DEF ev
  <1> QED  BY <1>1, <1>3, <1>4, <1>5 DEF Reviewed

(* Claims follow their review by the anchor *)
LEMMA FollowsAnchor ==
    ASSUME NEW b, NEW x, NEW y, x.anchor = y.anchor
    PROVE  Follows(b, x) = Follows(b, y)
  BY DEF Follows

(* The claim a, found again in b *)
FollowedBy(b, a) == CHOOSE r \in Follows(b, a) : TRUE
Bound(b, a) == [at |-> b.place, sha |-> FollowedBy(b, a), anchor |-> a.anchor]

LEMMA BoundFields ==
    ASSUME NEW b, NEW a
    PROVE  /\ Bound(b, a).at = b.place /\ Bound(b, a).sha = FollowedBy(b, a) /\ Bound(b, a).anchor = a.anchor
           /\ Follows(b, a) # {} => FollowedBy(b, a) \in Follows(b, a)
  <1>1. Bound(b, a).at = b.place /\ Bound(b, a).sha = FollowedBy(b, a) /\ Bound(b, a).anchor = a.anchor
    BY DEF Bound
  <1>2. Follows(b, a) # {} => FollowedBy(b, a) \in Follows(b, a)
    BY DEF FollowedBy
  <1> QED  BY <1>1, <1>2

LEMMA ReboundMember ==
    ASSUME NEW b, NEW saved \in SUBSET Claimed
    PROVE  Rebound(b, saved) = {Bound(b, a) : a \in saved}
  BY Zenon DEF Rebound, FollowedBy, Bound

LEMMA ReboundType ==
    ASSUME NEW b \in BundleRecords, NEW saved \in SUBSET Claimed, \A a \in saved : Follows(b, a) # {}
    PROVE  Rebound(b, saved) \in SUBSET Claimed
  <1>1. \A a \in saved : FollowedBy(b, a) \in Reviews
    BY BoundFields DEF Follows, BundleRecords
  <1>2. \A a \in saved : Bound(b, a) \in Claimed
    BY <1>1 DEF Claimed, BundleRecords, Bound
  <1> QED  BY <1>2, ReboundMember

LEMMA AttestType == ASSUME NEW b \in BundleRecords PROVE Attest(b) \in SUBSET Claimed
  BY DEF Attest, Claimed, BundleRecords, Reviews

LEMMA ReboundClaims ==
    ASSUME NEW b, NEW saved \in SUBSET Claimed
    PROVE  /\ Claims(Rebound(b, saved)) = Claims(saved)
           /\ Rebound(b, saved) = {} <=> saved = {}
  <1>1. \A x \in Rebound(b, saved) : \E a \in saved : x.anchor = a.anchor
    BY ReboundMember, BoundFields
  <1>2. \A a \in saved : \E x \in Rebound(b, saved) : x.anchor = a.anchor
    BY ReboundMember, BoundFields
  <1> QED  BY <1>1, <1>2 DEF Claims

LEMMA ReboundTwice ==
    ASSUME NEW b \in BundleRecords, NEW saved \in SUBSET Claimed, \A a \in saved : Follows(b, a) # {}
    PROVE  Rebound(b, Rebound(b, saved)) = Rebound(b, saved)
  <1> DEFINE back == Rebound(b, saved)
  <1>1. back \in SUBSET Claimed
    BY ReboundType
  <1>2. \A x \in back : Bound(b, x) = x
    <2> SUFFICES ASSUME NEW x \in back PROVE Bound(b, x) = x
      OBVIOUS
    <2>1. PICK a \in saved : x = Bound(b, a)
      BY ReboundMember
    <2>2. x.anchor = a.anchor
      BY <2>1, BoundFields
    <2>3. FollowedBy(b, x) = FollowedBy(b, a)
      BY <2>2, FollowsAnchor DEF FollowedBy
    <2> QED  BY <2>1, <2>2, <2>3 DEF Bound
  <1>3. Rebound(b, back) = {Bound(b, x) : x \in back}
    BY <1>1, ReboundMember
  <1> HIDE DEF back
  <1>4. Rebound(b, back) = back
    BY <1>2, <1>3
  <1> QED  BY <1>4 DEF back

(* Evidence taken over once more is the same *)
LEMMA KeptTwice ==
    ASSUME NEW b \in BundleRecords, NEW ev \in Evidences, NEW state, CanKeep(b, ev, state)
    PROVE  /\ KeptEvidence(b, ev) \in Evidences
           /\ CanKeep(b, KeptEvidence(b, ev), state)
           /\ KeptEvidence(b, KeptEvidence(b, ev)) = KeptEvidence(b, ev)
           /\ KeptEvidence(b, ev).ctx = ev.ctx /\ KeptEvidence(b, ev).rev = ev.rev
           /\ KeptEvidence(b, ev).att = KeptClaims(b, ev)
  <1> DEFINE att == KeptClaims(b, ev)
             new == KeptEvidence(b, ev)
  <1>1. ev.att \in SUBSET Claimed /\ ev.ctx \in SUBSET Sites /\ ev.rev \in Revs
    BY DEF Evidences
  <1>2. att \in SUBSET Claimed
    BY <1>1, AttestType, ReboundType DEF KeptClaims, CanKeep
  <1>3. new \in Evidences /\ new.att = att /\ new.ctx = ev.ctx /\ new.rev = ev.rev
    BY <1>1, <1>2, EvidenceFields DEF KeptEvidence
  <1>4. new = Evidence(b, ev.rev, att, ev.ctx)
    BY DEF KeptEvidence
  <1> HIDE DEF new
  <1>5. Here(new) <=> Here(ev)
    BY <1>3 DEF Here
  <1>6. \A a \in att : Follows(b, a) # {}
    <2>1. CASE Here(ev)
      <3>1. att = Attest(b)
        BY <2>1 DEF KeptClaims
      <3> QED  BY <3>1 DEF Attest, Follows
    <2>2. CASE ~Here(ev)
      <3>1. att = Rebound(b, ev.att)
        BY <2>2 DEF KeptClaims
      <3> SUFFICES ASSUME NEW x \in att PROVE Follows(b, x) # {}
        OBVIOUS
      <3>2. PICK a \in ev.att : x.anchor = a.anchor
        BY <1>1, <3>1, ReboundMember, BoundFields
      <3> QED  BY <3>2, FollowsAnchor DEF CanKeep
    <2> QED  BY <2>1, <2>2
  <1>7. ev.ctx # {} => att # {}
    <2> SUFFICES ASSUME ev.ctx # {}, att = {} PROVE FALSE
      OBVIOUS
    <2>1. Rebound(b, ev.att) # {}
      BY DEF CanKeep
    <2>2. Here(ev) /\ Attest(b) = {}
      BY <2>1 DEF KeptClaims
    <2>3. Claims(Rebound(b, ev.att)) = {}
      BY <2>2 DEF CanKeep, Claims
    <2> QED  BY <2>1, <2>3 DEF Claims
  <1>8. /\ Claims(Rebound(b, att)) = Claims(att) /\ (Rebound(b, att) = {} <=> att = {})
    BY <1>2, ReboundClaims
  <1>9. CanKeep(b, new, state)
    BY <1>3, <1>5, <1>6, <1>7, <1>8 DEF CanKeep, KeptClaims
  <1>10. KeptClaims(b, new) = att
    BY <1>1, <1>3, <1>5, ReboundTwice DEF KeptClaims, CanKeep
  <1>11. KeptEvidence(b, new) = new
    BY <1>3, <1>4, <1>10 DEF KeptEvidence
  <1> QED  BY <1>3, <1>9, <1>11 DEF new
(* A transform changes the form of a review and where the files are *)
Form(r) == [r EXCEPT !.form = 1]

LEMMA FormKeeps ==
    ASSUME NEW r \in Reviews
    PROVE  Form(r) \in Reviews /\ Form(r).vote = r.vote /\ Form(r).anchor = r.anchor
  BY DEF Form, Reviews

LEMMA TransformedIs ==
    ASSUME bundle \in BundleRecords, NEW m \in BOOLEAN, NEW b, b = Transformed(m)
    PROVE  /\ b \in BundleRecords /\ b.report = bundle.report /\ b.proof = bundle.proof
           /\ b.review = {Form(r) : r \in bundle.review}
  <1> DEFINE moved == IF m THEN "audit" ELSE bundle.place
             review == {Form(r) : r \in bundle.review}
  <1>1. b = [bundle EXCEPT !.place = moved, !.review = review]
    BY DEF Transformed, Form
  <1>2. moved \in Locations /\ review \in SUBSET Reviews
    BY FormKeeps DEF BundleRecords, Locations
  <1> HIDE DEF moved, review
  <1>3. b \in BundleRecords /\ b.report = bundle.report /\ b.proof = bundle.proof /\ b.review = review
    BY <1>1, <1>2 DEF BundleRecords
  <1> QED  BY <1>3 DEF review

(* ... and none of what it says *)
LEMMA TransformSays ==
    ASSUME bundle \in BundleRecords, NEW m \in BOOLEAN, NEW b, b = Transformed(m)
    PROVE  /\ ClaimsOf(b.review) = ClaimsOf(bundle.review)
           /\ Claims(Attest(b)) = Claims(Attest(bundle))
           /\ \A a : Follows(bundle, a) # {} => Follows(b, a) # {}
  <1> DEFINE old == bundle.review
             new == b.review
  <1>1. /\ \A r \in old : \E s \in new : s.vote = r.vote /\ s.anchor = r.anchor
        /\ \A s \in new : \E r \in old : s.vote = r.vote /\ s.anchor = r.anchor
    <2>1. new = {Form(r) : r \in old} /\ old \subseteq Reviews
      BY TransformedIs DEF BundleRecords
    <2> HIDE DEF old, new
    <2> QED  BY <2>1, FormKeeps
  <1> HIDE DEF old, new
  <1>2. ClaimsOf(new) = ClaimsOf(old)
    BY <1>1 DEF ClaimsOf
  <1>3. \A x : /\ \A y \in Attest(x) : \E r \in x.review : r.anchor = host.line /\ y.anchor = r.anchor
               /\ \A r \in x.review : r.anchor = host.line => \E y \in Attest(x) : y.anchor = r.anchor
    <2> TAKE x
    <2> DEFINE claim(r) == [at |-> x.place, sha |-> r, anchor |-> r.anchor]
               live == {r \in x.review : r.anchor = host.line}
    <2>1. Attest(x) = {claim(r) : r \in live}
      BY DEF Attest
    <2>2. \A r : claim(r).anchor = r.anchor
      OBVIOUS
    <2>3. \A r : r \in live <=> r \in x.review /\ r.anchor = host.line
      OBVIOUS
    <2> HIDE DEF claim, live
    <2> QED  BY <2>1, <2>2, <2>3
  <1>4. \A c, x : c \in Claims(Attest(x)) <=> \E r \in x.review : r.anchor = host.line /\ c = r.anchor
    BY <1>3 DEF Claims
  <1>5. Claims(Attest(b)) = Claims(Attest(bundle))
    <2>1. \A c : c \in Claims(Attest(b)) <=> c \in Claims(Attest(bundle))
      BY <1>1, <1>4 DEF old, new
    <2> QED  BY <2>1 DEF Claims
  <1>6. \A a : Follows(bundle, a) # {} => Follows(b, a) # {}
    BY <1>1 DEF Follows, old, new
  <1> QED  BY <1>2, <1>5, <1>6 DEF old, new

(* What could be kept of the bundle can be kept of the one transformed *)
LEMMA TransformCanKeep ==
    ASSUME bundle \in BundleRecords, NEW m \in BOOLEAN, NEW b, b = Transformed(m),
           NEW ev \in Evidences, NEW state, CanKeep(bundle, ev, state)
    PROVE  CanKeep(b, ev, state)
  <1>1. ev.att \in SUBSET Claimed
    BY DEF Evidences
  <1>2. \A x : /\ Claims(Rebound(x, ev.att)) = Claims(ev.att)
               /\ Rebound(x, ev.att) = {} <=> ev.att = {}
    BY <1>1, ReboundClaims
  <1>3. Whole(b, state) <=> Whole(bundle, state)
    BY TransformedIs DEF Whole
  <1> QED  BY <1>2, <1>3, TransformSays DEF CanKeep

(* Keeping evidence keeps what was reviewed, and where it is placed *)
LEMMA KeptIs ==
    ASSUME NEW b \in BundleRecords, NEW ev \in Evidences, NEW state, CanKeep(b, ev, state),
           ev.att # {} => ev.ctx # {}
    PROVE  /\ KeptEvidence(b, ev) \in Evidences /\ KeptEvidence(b, ev).rev = ev.rev
           /\ Reviewed(KeptEvidence(b, ev)) = [report |-> b.report, proof |-> b.proof, claims |-> ClaimsOf(b.review)]
           /\ KeptEvidence(b, ev).att # {} => KeptEvidence(b, ev).ctx # {}
  <1>1. ev.att \in SUBSET Claimed /\ ev.ctx \in SUBSET Sites /\ ev.rev \in Revs
    BY DEF Evidences
  <1>2. KeptClaims(b, ev) \in SUBSET Claimed
    BY <1>1, AttestType, ReboundType DEF KeptClaims, CanKeep
  <1>3. KeptClaims(b, ev) # {} => ev.ctx # {}
    BY <1>1, ReboundClaims DEF KeptClaims, Here
  <1> QED  BY <1>1, <1>2, <1>3, EvidenceFields DEF KeptEvidence

(* A receipt that is current *)
LEMMA CurrentIs ==
    ASSUME ReceiptTypeOK, NEW p \in Current
    PROVE  /\ p \in validation /\ p.ev \in Evidences /\ p \in ReceiptRecords
           /\ CanKeep(bundle, p.ev, p.state) /\ KeptEvidence(bundle, p.ev) = p.ev
           /\ Reviewed(p.ev) = Meaning
  <1>1. p \in validation /\ Preserved(bundle, p.ev, p.state) = {p.ev}
    BY DEF Current
  <1>2. p.ev \in Evidences /\ p \in ReceiptRecords
    BY <1>1 DEF ReceiptTypeOK, ReceiptRecords
  <1>3. CanKeep(bundle, p.ev, p.state) /\ KeptEvidence(bundle, p.ev) = p.ev
    BY <1>1, PreservedIs
  <1>4. p.ev.att \in SUBSET Claimed /\ p.ev.ctx \in SUBSET Sites /\ p.ev.rev \in Revs /\ bundle \in BundleRecords
    BY <1>2 DEF Evidences, ReceiptTypeOK, BundleRecords
  <1>5. KeptClaims(bundle, p.ev) \in SUBSET Claimed
    BY <1>3, <1>4, AttestType, ReboundType DEF KeptClaims, CanKeep
  <1>6. Reviewed(p.ev) = Meaning
    <2>1. Meaning = [report |-> bundle.report, proof |-> bundle.proof, claims |-> ClaimsOf(bundle.review)]
      BY DEF Meaning, ClaimsOf
    <2>2. Reviewed(KeptEvidence(bundle, p.ev)) =
              [report |-> bundle.report, proof |-> bundle.proof, claims |-> ClaimsOf(bundle.review)]
      BY <1>4, <1>5, EvidenceFields DEF KeptEvidence
    <2> QED  BY <1>3, <2>1, <2>2
  <1> QED  BY <1>1, <1>2, <1>3, <1>6
(* Writing one piece of evidence *)
LEMMA WrittenIs ==
    ASSUME ReceiptTypeOK, NEW state \in States, NEW ev \in Evidences, NEW kept \in SUBSET (0 .. MaxTicks),
           \A s, t \in kept : s = t
    PROVE  /\ Written(state, {ev}, kept) = {[state |-> state, ev |-> ev, at |-> ClockOf(state, ev, kept)]}
           /\ ClockOf(state, ev, kept) \in 0 .. MaxTicks
           /\ \A p \in validation : p.state = state /\ p.ev = ev => ClockOf(state, ev, kept) = p.at
           /\ \A t \in kept : (\A p \in validation : p.at = t) => ClockOf(state, ev, kept) = t
  <1> DEFINE same == {p \in validation : p.state = state /\ p.ev = ev}
             when == ClockOf(state, ev, kept)
  <1>1. /\ same # {} => when = (CHOOSE p \in same : TRUE).at
        /\ same = {} /\ kept # {} => when = CHOOSE t \in kept : TRUE
        /\ same = {} /\ kept = {} => when = ticks
    BY DEF ClockOf
  <1>2. /\ \A p, q \in validation : p = q
        /\ \A p \in validation : p.at \in 0 .. MaxTicks
        /\ ticks \in 0 .. MaxTicks
    BY DEF ReceiptTypeOK, ReceiptRecords
  <1>3. Written(state, {ev}, kept) = {[state |-> state, ev |-> ev, at |-> when]}
    BY DEF Written
  <1>4. same \subseteq validation /\ \A p \in validation : p.state = state /\ p.ev = ev => p \in same
    OBVIOUS
  <1> HIDE DEF same, when
  <1>5. CASE same # {}
    <2>1. PICK p \in same : when = p.at
      BY <1>1, <1>5
    <2> QED  BY <1>2, <1>3, <1>4, <2>1 DEF when
  <1>6. CASE same = {} /\ kept # {}
    <2>1. PICK t \in kept : when = t
      BY <1>1, <1>6
    <2> QED  BY <1>2, <1>3, <1>4, <1>6, <2>1 DEF when
  <1>7. CASE same = {} /\ kept = {}
    BY <1>1, <1>2, <1>3, <1>4, <1>7 DEF when
  <1> QED  BY <1>5, <1>6, <1>7

(* The evidence of a new review *)
LEMMA NewContextType == ASSUME ReceiptTypeOK, NEW rev \in Revs PROVE NewContext(rev) \in SUBSET Sites
  <1>1. host.path \in Paths
    BY DEF ReceiptTypeOK
  <1>2. {<<"root", host.path>>} \in SUBSET Sites /\ {<<"revision", rev>>} \in SUBSET Sites
    BY <1>1 DEF Sites
  <1>3. NewContext(rev) \in {{}, {<<"root", host.path>>}, {<<"revision", rev>>}}
    BY Zenon DEF NewContext
  <1> QED  BY <1>2, <1>3

LEMMA RevisionType == ASSUME ReceiptTypeOK PROVE Revision \in Revs
  BY DEF Revision, ReceiptTypeOK

LEMMA FreshIs ==
    ASSUME ReceiptTypeOK, NEW rev \in Revs, NEW state, Fresh(bundle, rev, state) # {}
    PROVE  \E ev \in Evidences : /\ Fresh(bundle, rev, state) = {ev}
                                 /\ ev.att # {} => ev.ctx # {}
                                 /\ Reviewed(ev) = Meaning
  <1> DEFINE context == NewContext(rev)
             att == IF context = {} THEN {} ELSE Attest(bundle)
             ctx == IF att = {} THEN {} ELSE context
             ev == Evidence(bundle, rev, att, ctx)
  <1>1. Fresh(bundle, rev, state) = {ev}
    BY DEF Fresh
  <1>2. bundle \in BundleRecords
    BY DEF ReceiptTypeOK, BundleRecords
  <1>3. context \in SUBSET Sites
    BY NewContextType
  <1>4. Attest(bundle) \in SUBSET Claimed
    BY <1>2, AttestType
  <1> HIDE DEF context
  <1>5. att \in SUBSET Claimed /\ ctx \in SUBSET Sites /\ (att # {} => ctx # {})
    BY <1>3, <1>4
  <1> HIDE DEF att, ctx
  <1>6. /\ ev \in Evidences /\ ev.att = att /\ ev.ctx = ctx
        /\ Reviewed(ev) = [report |-> bundle.report, proof |-> bundle.proof, claims |-> ClaimsOf(bundle.review)]
    BY <1>2, <1>5, EvidenceFields
  <1>7. Meaning = [report |-> bundle.report, proof |-> bundle.proof, claims |-> ClaimsOf(bundle.review)]
    BY DEF Meaning, ClaimsOf
  <1> HIDE DEF ev
  <1> QED  BY <1>1, <1>5, <1>6, <1>7

LEMMA MeaningType ==
    ASSUME ReceiptTypeOK
    PROVE  Meaning \in [report : AnyText, proof : AnyText, claims : SUBSET ({"Promote", "Reject"} \X AnyText)]
  <1>1. \A r \in bundle.review : <<r.vote, r.anchor>> \in {"Promote", "Reject"} \X AnyText
    BY DEF ReceiptTypeOK, Reviews
  <1> QED  BY <1>1 DEF Meaning, ReceiptTypeOK
LEMMA ReceiptInitInv == ASSUME ReceiptAssumption, ReceiptInit PROVE ReceiptInv
  <1>1. bundle \in BundleRecords
    BY DEF ReceiptAssumption, ReceiptInit, BundleRecords, AnyText, Locations
  <1>2. host \in [path : Paths, rev : Revs, line : Texts, declared : Revs \cup {Unset}]
    BY DEF ReceiptAssumption, ReceiptInit, Paths
  <1>3. seen \in [on : BOOLEAN, prior : SUBSET ReceiptRecords] /\ seen.prior = {}
    BY DEF ReceiptInit, Resting
  <1>4. validation = {} /\ ticks \in 0 .. MaxTicks /\ events \in 0 .. MaxEvents /\ judged = {}
    BY DEF ReceiptAssumption, ReceiptInit
  <1>5. raced \in BOOLEAN
    BY Zenon DEF ReceiptInit
  <1> QED  BY <1>1, <1>2, <1>3, <1>4, <1>5 DEF ReceiptInv, ReceiptTypeOK, BundleRecords

(* The parts of the invariant *)
LEMMA InvParts ==
    ASSUME ReceiptInv
    PROVE  /\ bundle \in BundleRecords /\ validation \subseteq ReceiptRecords /\ (\A p, q \in validation : p = q)
           /\ seen \in [on : BOOLEAN, prior : SUBSET ReceiptRecords]
           /\ ticks \in 0 .. MaxTicks /\ events \in 0 .. MaxEvents /\ raced \in BOOLEAN
           /\ (\A p \in validation : p.ev \in Evidences /\ p.state \in States /\ p.at \in 0 .. MaxTicks)
  BY DEF ReceiptInv, ReceiptTypeOK, BundleRecords, ReceiptRecords

LEMMA TickType ==
    ASSUME ReceiptAssumption, ReceiptInv, Tick
    PROVE  ticks' \in 0 .. MaxTicks
  BY InvParts DEF ReceiptAssumption, Tick

LEMMA EventType ==
    ASSUME ReceiptAssumption, ReceiptInv, Event
    PROVE  events' \in 0 .. MaxEvents /\ events' # events
  BY InvParts DEF ReceiptAssumption, Event

LEMMA VoteStep == ASSUME ReceiptAssumption, ReceiptInv, Vote PROVE ReceiptInv'
  <1>1. PICK v \in {"Promote", "Reject"}, x \in {NoText, host.line} :
            bundle' = [bundle EXCEPT !.review = {[vote |-> v, anchor |-> x, form |-> 0]}]
    BY DEF Vote
  <1>2. x \in AnyText
    BY DEF ReceiptInv, ReceiptTypeOK, AnyText
  <1>3. {[vote |-> v, anchor |-> x, form |-> 0]} \in SUBSET Reviews
    BY <1>2 DEF Reviews
  <1>4. bundle' \in BundleRecords
    BY <1>1, <1>3, InvParts DEF BundleRecords
  <1>5. ticks' \in 0 .. MaxTicks
    BY TickType DEF Vote
  <1>6. UNCHANGED <<host, validation, seen, events, judged, raced>> /\ ~seen.on
    BY DEF Vote
  <1> QED  BY <1>4, <1>5, <1>6 DEF ReceiptInv, ReceiptTypeOK, BundleRecords

LEMMA JudgeStep == ASSUME ReceiptAssumption, ReceiptInv, NEW state \in States, JudgeArtifact(state) PROVE ReceiptInv'
  <1> DEFINE evs == Fresh(bundle, Revision, state)
  <1>1. /\ validation' = Written(state, evs, {})
        /\ judged' = (IF evs = {} THEN judged ELSE {[state |-> state, of |-> Meaning]})
        /\ raced' = (IF evs = {} THEN raced ELSE FALSE)
        /\ UNCHANGED <<bundle, host, seen, events>> /\ ~seen.on /\ ticks' \in 0 .. MaxTicks
    BY TickType DEF JudgeArtifact
  <1>2. CASE evs = {}
    <2>1. validation' = validation /\ judged' = judged /\ raced' = raced
      BY <1>1, <1>2 DEF Written
    <2>2. Meaning' = Meaning
      BY <1>1 DEF Meaning
    <2>3. ReceiptTypeOK'
      BY <1>1, <2>1 DEF ReceiptInv, ReceiptTypeOK
    <2>4. (raced \/ \A p \in seen.prior : Reviewed(p.ev) = Meaning)'
      BY Zenon, <1>1, <2>1, <2>2 DEF ReceiptInv
    <2>5. (raced \/ \A p \in validation : \E j \in judged : j.state = p.state /\ j.of = Reviewed(p.ev))'
      BY Zenon, <2>1 DEF ReceiptInv
    <2> QED  BY <1>1, <2>1, <2>3, <2>4, <2>5 DEF ReceiptInv
  <1>3. CASE evs # {}
    <2>0. ReceiptTypeOK /\ Revision \in Revs
      BY RevisionType DEF ReceiptInv
    <2>1. PICK ev \in Evidences : evs = {ev} /\ (ev.att # {} => ev.ctx # {}) /\ Reviewed(ev) = Meaning
      BY <1>3, <2>0, FreshIs
    <2> DEFINE none == {}
               when == ClockOf(state, ev, none)
               new == [state |-> state, ev |-> ev, at |-> when]
               verdict == [state |-> state, of |-> Meaning]
    <2>2. validation' = {new} /\ when \in 0 .. MaxTicks
      <3>1. none \in SUBSET (0 .. MaxTicks) /\ \A s, t \in none : s = t
        OBVIOUS
      <3>2. validation' = Written(state, {ev}, none)
        BY <1>1, <2>1
      <3> HIDE DEF none, evs
      <3> QED  BY <2>0, <2>1, <3>1, <3>2, WrittenIs
    <2>3. judged' = {verdict} /\ raced' = FALSE
      BY <1>1, <1>3
    <2> HIDE DEF evs, when
    <2>4. new \in ReceiptRecords /\ new.ev = ev /\ new.state = state
      BY <2>2 DEF ReceiptRecords
    <2>5. /\ verdict \in [state : States, of : [report : AnyText, proof : AnyText,
                                             claims : SUBSET ({"Promote", "Reject"} \X AnyText)]]
          /\ verdict.state = state /\ verdict.of = Meaning
      BY <2>0, MeaningType
    <2> HIDE DEF new, verdict
    <2>6. ReceiptTypeOK'
      BY <1>1, <2>0, <2>2, <2>3, <2>4, <2>5 DEF ReceiptTypeOK
    <2>7. seen'.prior = {}
      BY <1>1 DEF ReceiptInv
    <2>8. \A p \in validation' : \E j \in judged' : j.state = p.state /\ j.of = Reviewed(p.ev)
      BY <2>1, <2>2, <2>3, <2>4, <2>5
    <2>9. \A p \in validation' : p.ev.att # {} => p.ev.ctx # {}
      BY <2>1, <2>2, <2>4
    <2> QED  BY <2>6, <2>7, <2>8, <2>9 DEF ReceiptInv, Reviewed
  <1> QED  BY <1>2, <1>3

LEMMA SnapshotStep == ASSUME ReceiptInv, Snapshot PROVE ReceiptInv'
  <1>1. UNCHANGED <<bundle, host, validation, ticks, events, judged, raced>>
    BY DEF Snapshot
  <1>2. seen' = [on |-> TRUE, prior |-> Current] /\ Current \subseteq validation
    BY DEF Snapshot, Current
  <1>3. \A p \in Current : Reviewed(p.ev) = Meaning
    BY CurrentIs DEF ReceiptInv
  <1>4. Meaning' = Meaning
    BY <1>1 DEF Meaning
  <1>5. seen'.on = TRUE /\ seen'.prior = Current
    BY <1>2
  <1>6. seen' \in [on : BOOLEAN, prior : SUBSET ReceiptRecords]
    BY <1>2, InvParts
  <1>7. ReceiptTypeOK'
    BY <1>1, <1>6 DEF ReceiptInv, ReceiptTypeOK
  <1>8. (raced \/ \A p \in seen.prior : Reviewed(p.ev) = Meaning)'
    BY <1>3, <1>4, <1>5 DEF Reviewed
  <1> QED  BY <1>1, <1>2, <1>5, <1>7, <1>8 DEF ReceiptInv, Reviewed

LEMMA EditStep == ASSUME ReceiptAssumption, ReceiptInv, EditJudged PROVE ReceiptInv'
  <1>1. /\ UNCHANGED <<host, validation, seen, ticks, judged>> /\ events' \in 0 .. MaxEvents
        /\ raced' = (raced \/ seen.prior # {})
    BY EventType DEF EditJudged
  <1>2. bundle' \in BundleRecords
    BY InvParts DEF EditJudged, BundleRecords, AnyText
  <1>3. raced' \in BOOLEAN
    BY Zenon, <1>1
  <1> QED  BY <1>1, <1>2, <1>3 DEF ReceiptInv, ReceiptTypeOK, BundleRecords, Reviewed

LEMMA HostStep == ASSUME ReceiptAssumption, ReceiptInv, Host PROVE ReceiptInv'
  <1>1. UNCHANGED <<bundle, validation, seen, ticks, judged, raced>> /\ events' \in 0 .. MaxEvents
    BY EventType DEF Host
  <1>2. host \in [path : Paths, rev : Revs, line : Texts, declared : Revs \cup {Unset}]
    BY DEF ReceiptInv, ReceiptTypeOK
  <1>3. host' \in [path : Paths, rev : Revs, line : Texts, declared : Revs \cup {Unset}]
    BY <1>2 DEF Host, Paths
  <1> QED  BY <1>1, <1>3 DEF ReceiptInv, ReceiptTypeOK, Meaning, Reviewed
(* The end of a transform, with what was current written over again *)
LEMMA RewriteIs ==
    ASSUME ReceiptInv, NEW m \in BOOLEAN, Rewrite(m), seen.prior # {}
    PROVE  \E p \in seen.prior :
               /\ p \in validation /\ seen.prior = {p} /\ validation = {p}
               /\ validation' = Written(p.state, Preserved(bundle', p.ev, p.state), {p.at})
  <1>1. PICK p \in seen.prior : validation' = Written(p.state, Preserved(bundle', p.ev, p.state), {p.at})
    BY DEF Rewrite
  <1>2. seen.prior \subseteq validation
    BY DEF ReceiptInv
  <1> QED  BY <1>1, <1>2, InvParts

(* What it writes, where the claims can be kept *)
LEMMA RewriteWrites ==
    ASSUME ReceiptInv, NEW b \in BundleRecords, NEW p \in validation, CanKeep(b, p.ev, p.state)
    PROVE  \E q \in ReceiptRecords :
               /\ Written(p.state, Preserved(b, p.ev, p.state), {p.at}) = {q}
               /\ q.state = p.state /\ q.ev = KeptEvidence(b, p.ev)
               /\ \A r \in validation : q.at = r.at
  <1> DEFINE kept == {p.at}
             ev == KeptEvidence(b, p.ev)
             state == p.state
             when == ClockOf(state, ev, kept)
             q == [state |-> state, ev |-> ev, at |-> when]
  <1>1. p.ev \in Evidences /\ state \in States /\ p.at \in 0 .. MaxTicks /\ \A r, s \in validation : r = s
    BY InvParts
  <1>2. ev \in Evidences
    BY <1>1, KeptTwice
  <1>3. Preserved(b, p.ev, state) = {ev}
    BY PreservedIs
  <1>4. kept \in SUBSET (0 .. MaxTicks) /\ (\A s, t \in kept : s = t) /\ p.at \in kept
    BY <1>1
  <1>5. ReceiptTypeOK
    BY DEF ReceiptInv
  <1> HIDE DEF kept, ev, state
  <1>6. /\ Written(state, {ev}, kept) = {q} /\ when \in 0 .. MaxTicks
        /\ \A r \in validation : r.state = state /\ r.ev = ev => when = r.at
        /\ \A t \in kept : (\A r \in validation : r.at = t) => when = t
    BY <1>1, <1>2, <1>4, <1>5, WrittenIs
  <1>7. \A r \in validation : r.at = p.at
    BY <1>1
  <1>8. when = p.at
    BY <1>4, <1>6, <1>7
  <1> HIDE DEF when
  <1>9. q \in ReceiptRecords /\ q.state = state /\ q.ev = ev /\ q.at = when
    BY <1>1, <1>2, <1>6 DEF ReceiptRecords
  <1> HIDE DEF q
  <1>10. Written(p.state, Preserved(b, p.ev, p.state), {p.at}) = {q}
    BY <1>3, <1>6 DEF kept, state
  <1>11. q.state = p.state /\ q.ev = KeptEvidence(b, p.ev) /\ \A r \in validation : q.at = r.at
    BY <1>7, <1>8, <1>9 DEF ev, state
  <1> QED  BY <1>9, <1>10, <1>11

(* A transform leaves the meaning of the artifact *)
LEMMA MeaningTransformed ==
    ASSUME ReceiptInv, NEW m \in BOOLEAN, bundle' = Transformed(m)
    PROVE  /\ bundle' \in BundleRecords /\ Meaning' = Meaning
           /\ [report |-> bundle'.report, proof |-> bundle'.proof, claims |-> ClaimsOf(bundle'.review)] = Meaning
  <1>1. bundle \in BundleRecords
    BY InvParts
  <1>2. /\ bundle' \in BundleRecords /\ bundle'.report = bundle.report /\ bundle'.proof = bundle.proof
        /\ ClaimsOf(bundle'.review) = ClaimsOf(bundle.review)
    BY <1>1, TransformedIs, TransformSays
  <1>3. Meaning = [report |-> bundle.report, proof |-> bundle.proof, claims |-> ClaimsOf(bundle.review)]
    BY DEF Meaning, ClaimsOf
  <1>4. Meaning' = [report |-> bundle'.report, proof |-> bundle'.proof, claims |-> ClaimsOf(bundle'.review)]
    BY DEF Meaning, ClaimsOf
  <1> QED  BY <1>2, <1>3, <1>4

LEMMA CutStep == ASSUME ReceiptAssumption, ReceiptInv, NEW m \in BOOLEAN, Cut(m) PROVE ReceiptInv'
  <1>1. UNCHANGED <<host, validation, ticks, judged, raced>> /\ events' \in 0 .. MaxEvents /\ seen' = Resting
    BY EventType DEF Cut
  <1>2. bundle' \in BundleRecords
    BY MeaningTransformed DEF Cut
  <1>3. seen' \in [on : BOOLEAN, prior : SUBSET ReceiptRecords] /\ seen'.prior = {}
    BY <1>1 DEF Resting
  <1> QED  BY <1>1, <1>2, <1>3 DEF ReceiptInv, ReceiptTypeOK, BundleRecords, Reviewed

LEMMA RewriteStep == ASSUME ReceiptAssumption, ReceiptInv, NEW m \in BOOLEAN, Rewrite(m) PROVE ReceiptInv'
  <1>1. UNCHANGED <<host, events, judged, raced>> /\ ticks' \in 0 .. MaxTicks /\ seen' = Resting
    BY TickType DEF Rewrite
  <1>2. bundle' \in BundleRecords
        /\ [report |-> bundle'.report, proof |-> bundle'.proof, claims |-> ClaimsOf(bundle'.review)] = Meaning
    BY MeaningTransformed DEF Rewrite
  <1>3. seen' \in [on : BOOLEAN, prior : SUBSET ReceiptRecords] /\ seen'.prior = {}
    BY <1>1 DEF Resting
  <1>4. validation' = validation \/
        \E p \in seen.prior, q \in ReceiptRecords :
            /\ validation' = {q} /\ p \in validation /\ q.state = p.state /\ Reviewed(q.ev) = Meaning
            /\ q.ev.att # {} => q.ev.ctx # {}
    <2>1. CASE seen.prior = {}
      BY <2>1 DEF Rewrite
    <2>2. CASE seen.prior # {}
      <3>1. PICK p \in seen.prior : /\ p \in validation
                                    /\ validation' = Written(p.state, Preserved(bundle', p.ev, p.state), {p.at})
        BY <2>2, RewriteIs
      <3>2. p.ev \in Evidences /\ (p.ev.att # {} => p.ev.ctx # {})
        BY <3>1, InvParts DEF ReceiptInv
      <3>3. CASE CanKeep(bundle', p.ev, p.state)
        <4>1. PICK q \in ReceiptRecords : validation' = {q} /\ q.state = p.state /\ q.ev = KeptEvidence(bundle', p.ev)
          BY <1>2, <3>1, <3>3, RewriteWrites
        <4>2. Reviewed(q.ev) = Meaning /\ (q.ev.att # {} => q.ev.ctx # {})
          BY <1>2, <3>2, <3>3, <4>1, KeptIs
        <4> QED  BY <3>1, <4>1, <4>2
      <3>4. CASE ~CanKeep(bundle', p.ev, p.state)
        <4>1. Preserved(bundle', p.ev, p.state) = {}
          BY <3>4, PreservedIs
        <4> QED  BY <3>1, <4>1 DEF Written
      <3> QED  BY <3>3, <3>4
    <2> QED  BY <2>1, <2>2
  <1>5. validation' \subseteq ReceiptRecords /\ \A p, q \in validation' : p = q
    BY <1>4, InvParts
  <1>6. ReceiptTypeOK'
    BY <1>1, <1>2, <1>3, <1>5 DEF ReceiptInv, ReceiptTypeOK, BundleRecords
  <1>7. \A p \in validation' : p.ev.att # {} => p.ev.ctx # {}
    BY <1>4 DEF ReceiptInv
  <1>8. raced \/ \A p \in validation' : \E j \in judged : j.state = p.state /\ j.of = Reviewed(p.ev)
    BY <1>4 DEF ReceiptInv
  <1> QED  BY <1>1, <1>3, <1>6, <1>7, <1>8 DEF ReceiptInv, Reviewed

LEMMA ReceiptStep == ASSUME ReceiptAssumption, ReceiptInv, [ReceiptNext]_receiptVars PROVE ReceiptInv'
  <1>1. ASSUME Vote PROVE ReceiptInv'
    BY <1>1, VoteStep
  <1>2. ASSUME NEW state \in States, JudgeArtifact(state) PROVE ReceiptInv'
    BY <1>2, JudgeStep
  <1>3. ASSUME Snapshot PROVE ReceiptInv'
    BY <1>3, SnapshotStep
  <1>4. ASSUME NEW m \in BOOLEAN, Rewrite(m) PROVE ReceiptInv'
    BY <1>4, RewriteStep
  <1>5. ASSUME NEW m \in BOOLEAN, Cut(m) PROVE ReceiptInv'
    BY <1>5, CutStep
  <1>6. ASSUME EditJudged PROVE ReceiptInv'
    BY <1>6, EditStep
  <1>7. ASSUME Host PROVE ReceiptInv'
    BY <1>7, HostStep
  <1>8. ASSUME UNCHANGED receiptVars PROVE ReceiptInv'
    BY <1>8 DEF receiptVars, ReceiptInv, ReceiptTypeOK, Meaning, Reviewed
  <1> QED  BY <1>1, <1>2, <1>3, <1>4, <1>5, <1>6, <1>7, <1>8 DEF ReceiptNext
LEMMA ReceiptHolds == ASSUME ReceiptInv PROVE CurrentIsJudged /\ AttestedIsLive /\ AttestedIsPlaced
  <1>0. ReceiptTypeOK
    BY DEF ReceiptInv
  <1>1. CurrentIsJudged
    <2>1. \A p \in Current : p \in validation /\ Reviewed(p.ev) = Meaning
      BY <1>0, CurrentIs
    <2> QED  BY <2>1 DEF ReceiptInv, CurrentIsJudged
  <1>2. AttestedIsLive
    <2> SUFFICES ASSUME NEW p \in Current, Here(p.ev), NEW x \in p.ev.att PROVE x.anchor = host.line
      BY DEF AttestedIsLive, Here
    <2>1. CanKeep(bundle, p.ev, p.state) /\ KeptEvidence(bundle, p.ev) = p.ev /\ p.ev \in Evidences
      BY <1>0, CurrentIs
    <2>2. bundle \in BundleRecords
      BY InvParts
    <2>3. p.ev.att = KeptClaims(bundle, p.ev)
      BY <2>1, <2>2, KeptTwice
    <2>4. p.ev.att = Attest(bundle)
      BY <2>3 DEF KeptClaims
    <2> QED  BY <2>4 DEF Attest
  <1>3. AttestedIsPlaced
    BY <1>0, CurrentIs DEF ReceiptInv, AttestedIsPlaced
  <1> QED  BY <1>1, <1>2, <1>3

(* What is kept of evidence depends on the bundle and the host alone *)
LEMMA PreservedNext ==
    ASSUME host' = host
    PROVE  \A ev, state : Preserved(bundle, ev, state)' = Preserved(bundle', ev, state)
  BY DEF Preserved, Whole, Valid, Matches, Follows, Rebound, Claims, Attest, Evidence

LEMMA TransformStep ==
    ASSUME ReceiptInv, [ReceiptNext]_receiptVars,
           NEW p \in Current \cap seen.prior, seen.on, ~seen'.on, events' = events
    PROVE  \E q \in Current' : q.state = p.state /\ q.at = p.at
  <1>1. PICK m \in BOOLEAN : Rewrite(m)
    <2>1. ~Vote /\ ~Snapshot /\ \A state \in States : ~JudgeArtifact(state)
      BY DEF Vote, Snapshot, JudgeArtifact
    <2>2. ~EditJudged /\ ~Host /\ \A m \in BOOLEAN : ~Cut(m)
      <3>1. ~Event
        BY InvParts DEF Event
      <3> QED  BY <3>1 DEF EditJudged, Host, Cut
    <2>3. ~UNCHANGED receiptVars
      BY DEF receiptVars
    <2> QED  BY <2>1, <2>2, <2>3 DEF ReceiptNext
  <1>2. host' = host /\ bundle' = Transformed(m)
    BY <1>1 DEF Rewrite
  <1>3. p \in validation /\ p.ev \in Evidences /\ CanKeep(bundle, p.ev, p.state) /\ host.declared \in {Unset, p.ev.rev}
    BY CurrentIs DEF ReceiptInv, Current
  <1>4. bundle' \in BundleRecords /\ CanKeep(bundle', p.ev, p.state)
    BY <1>2, <1>3, InvParts, MeaningTransformed, TransformCanKeep
  <1>5. validation' = Written(p.state, Preserved(bundle', p.ev, p.state), {p.at})
    <2>1. seen.prior = {p}
      BY <1>1, RewriteIs
    <2> QED  BY <1>1, <2>1, RewriteIs
  <1>6. PICK q \in ReceiptRecords :
            validation' = {q} /\ q.state = p.state /\ q.ev = KeptEvidence(bundle', p.ev) /\ q.at = p.at
    BY <1>3, <1>4, <1>5, RewriteWrites
  <1>7. /\ CanKeep(bundle', q.ev, p.state) /\ KeptEvidence(bundle', q.ev) = q.ev
        /\ q.ev.rev = p.ev.rev
    BY <1>3, <1>4, <1>6, KeptTwice
  <1>8. Preserved(bundle', q.ev, q.state) = {q.ev}
    BY <1>6, <1>7, PreservedIs
  <1>9. Preserved(bundle, q.ev, q.state)' = {q.ev}
    BY <1>2, <1>8, PreservedNext
  <1>10. q \in Current'
    BY <1>2, <1>3, <1>6, <1>7, <1>9 DEF Current
  <1> QED  BY <1>6, <1>10

LEMMA ClockStep ==
    ASSUME ReceiptInv, [ReceiptNext]_receiptVars,
           NEW p \in validation, NEW q \in validation', p.state = q.state, p.ev = q.ev
    PROVE  p.at = q.at
  <1>1. ASSUME validation' = validation PROVE p.at = q.at
    BY <1>1, InvParts
  <1>2. ASSUME NEW state \in States, JudgeArtifact(state) PROVE p.at = q.at
    <2> DEFINE none == {}
               evs == Fresh(bundle, Revision, state)
    <2>1. validation' = Written(state, evs, none) /\ ReceiptTypeOK /\ Revision \in Revs
      BY <1>2, RevisionType DEF JudgeArtifact, ReceiptInv
    <2>2. CASE evs = {}
      BY <1>1, <2>1, <2>2 DEF Written
    <2>3. CASE evs # {}
      <3>1. PICK ev \in Evidences : evs = {ev}
        BY <2>1, <2>3, FreshIs
      <3>2. none \in SUBSET (0 .. MaxTicks) /\ \A s, t \in none : s = t
        OBVIOUS
      <3> HIDE DEF none, evs
      <3>3. validation' = Written(state, {ev}, none)
        BY <2>1, <3>1
      <3>4. /\ Written(state, {ev}, none) = {[state |-> state, ev |-> ev, at |-> ClockOf(state, ev, none)]}
            /\ \A r \in validation : r.state = state /\ r.ev = ev => ClockOf(state, ev, none) = r.at
        BY <2>1, <3>2, WrittenIs
      <3> DEFINE when == ClockOf(state, ev, none)
      <3> HIDE DEF when
      <3>5. q = [state |-> state, ev |-> ev, at |-> when]
        BY <3>3, <3>4 DEF when
      <3> QED  BY <3>4, <3>5 DEF when
    <2> QED  BY <2>2, <2>3
  <1>3. ASSUME NEW m \in BOOLEAN, Rewrite(m) PROVE p.at = q.at
    <2>1. CASE seen.prior = {}
      BY <1>1, <1>3, <2>1 DEF Rewrite
    <2>2. CASE seen.prior # {}
      <3>1. PICK r \in seen.prior : /\ r \in validation
                                    /\ validation' = Written(r.state, Preserved(bundle', r.ev, r.state), {r.at})
        BY <1>3, <2>2, RewriteIs
      <3>2. bundle' \in BundleRecords
        BY <1>3, MeaningTransformed DEF Rewrite
      <3>3. CASE CanKeep(bundle', r.ev, r.state)
        BY <3>1, <3>2, <3>3, RewriteWrites
      <3>4. CASE ~CanKeep(bundle', r.ev, r.state)
        <4>1. Preserved(bundle', r.ev, r.state) = {}
          BY <3>4, PreservedIs
        <4> QED  BY <1>1, <3>1, <4>1 DEF Written
      <3> QED  BY <3>3, <3>4
    <2> QED  BY <2>1, <2>2
  <1>4. ASSUME Vote \/ Snapshot \/ EditJudged \/ Host \/ (\E m \in BOOLEAN : Cut(m)) \/ UNCHANGED receiptVars
        PROVE  p.at = q.at
    <2>1. validation' = validation
      BY <1>4 DEF Vote, Snapshot, EditJudged, Host, Cut, receiptVars
    <2> QED  BY <1>1, <2>1
  <1> QED  BY <1>2, <1>3, <1>4 DEF ReceiptNext

\* Files, receipts, reviews and records stay what they are: of both sides of the
\* evidence, every step of a probe, of an agent, of a review and of a transform.
THEOREM EvidenceTypeCorrect == EvidenceSpec => [](ProbeTypeOK /\ ReceiptTypeOK)
  <1>1. ProbeInit => ProbeInv
    BY ProbeInitInv, ProbeAssumption
  <1>2. ProbeInv /\ [ProbeNext]_probeVars => ProbeInv'
    BY ProbeStep, ProbeAssumption
  <1>3. ReceiptInit => ReceiptInv
    BY ReceiptInitInv, ReceiptAssumption
  <1>4. ReceiptInv /\ [ReceiptNext]_receiptVars => ReceiptInv'
    BY ReceiptStep, ReceiptAssumption
  <1>5. ProbeInv => ProbeTypeOK
    BY DEF ProbeInv
  <1>6. ReceiptInv => ReceiptTypeOK
    BY DEF ReceiptInv
  <1> QED  BY <1>1, <1>2, <1>3, <1>4, <1>5, <1>6, PTL DEF EvidenceSpec

\* What a review rests on holds: evidence that verifies is a run of what is there
\* on the build that is installed, and a receipt that is current is of what was
\* judged, vouches only for source that still reads so, outlives a transform and
\* keeps the time of its verdict (crash_bundle.py, validation_receipt.py).
THEOREM EvidenceIsKept == EvidenceSpec => EvidenceKept
  <1>1. ProbeInit => ProbeInv
    BY ProbeInitInv, ProbeAssumption
  <1>2. ProbeInv /\ [ProbeNext]_probeVars => ProbeInv'
    BY ProbeStep, ProbeAssumption
  <1>3. ReceiptInit => ReceiptInv
    BY ReceiptInitInv, ReceiptAssumption
  <1>4. ReceiptInv /\ [ReceiptNext]_receiptVars => ReceiptInv'
    BY ReceiptStep, ReceiptAssumption
  <1>5. ProbeInv => ProbeTypeOK /\ VerifiedIsRun /\ RecordedRan /\ ComparedOnPrimary
    BY ProbeHolds DEF ProbeInv
  <1>6. ReceiptInv => ReceiptTypeOK /\ CurrentIsJudged /\ AttestedIsLive /\ AttestedIsPlaced
    BY ReceiptHolds DEF ReceiptInv
  <1>7. ReceiptInv /\ [ReceiptNext]_receiptVars =>
            [\A p \in Current \cap seen.prior : seen.on /\ ~seen'.on /\ events' = events =>
                 \E q \in Current' : q.state = p.state /\ q.at = p.at]_receiptVars
    BY TransformStep
  <1>8. ReceiptInv /\ [ReceiptNext]_receiptVars =>
            [\A p \in validation, q \in validation' : p.state = q.state /\ p.ev = q.ev => p.at = q.at]_receiptVars
    BY ClockStep
  <1> QED  BY <1>1, <1>2, <1>3, <1>4, <1>5, <1>6, <1>7, <1>8, PTL DEF EvidenceSpec, EvidenceKept, TransformKeeps, ClockKept

=============================================================================
