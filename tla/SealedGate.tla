----------------------------- MODULE SealedGate -----------------------------
(***************************************************************************)
(* lib/audit_runner.py, SealedGateWorker: the background thread that gates *)
(* artifacts while agents still run, driven by the scheduler's loop        *)
(* (run_continuous; run_agent_pool drives it the same way).                *)
(*                                                                         *)
(* A chain is one slot's run of sessions that share in-flight work.  Time  *)
(* is the worker's logical clock: a chain takes a tick when it launches,   *)
(* an artifact when it is first seen complete, a slot's mention of an      *)
(* artifact when the session that made it ends.  Sessions, the scheduler   *)
(* and the gate are three actors; the worker's lock makes each of its      *)
(* methods one step.                                                       *)
(***************************************************************************)
EXTENDS Integers, FiniteSets

CONSTANTS
    Slots, Findings, Crashes,
    Owner,       \* Owner[c]: the slot in a crash bundle's name
    MaxClock     \* bound: chains launched

Artifacts == Findings \cup Crashes
NoTick == -1
Ticks == Nat \cup {NoTick}

ASSUME GateAssumption ==
    /\ Findings \cap Crashes = {}
    /\ Owner \in [Crashes -> Slots]
    /\ MaxClock \in Nat

VARIABLES
    \* the worker's fields
    clock, chains, firstSeen,
    touched,     \* touched[x][a]: tick of a's mention of x, NoTick for none
    stop, started,
    \* the gate thread
    wpc, sweep,
    quietSeal,   \* crashes of this sweep sealed for being unwritten
    \* the scheduler's loop
    pc, todo,
    fin,         \* slots whose sessions this round collected
    stamped,     \* close() took its time stamp
    charged,
    \* sessions and artifacts
    sess, named, disk, quiet,
    \* history
    writers,     \* writers[x]: the (slot, tick) chains that wrote x
    lateSweep    \* a sweep did work after close() asked to stop

worker == <<clock, chains, firstSeen, touched>>
thread == <<wpc, sweep, quietSeal, started, lateSweep>>
driver == <<pc, todo, fin, stop, stamped, charged>>
sessions == <<sess, named, disk, quiet, writers>>
vars == <<worker, thread, driver, sessions>>

ClockOK ==
    /\ clock \in Nat
    /\ chains \in [Slots -> Ticks]
    /\ firstSeen \in [Artifacts -> Ticks]
    /\ touched \in [Artifacts -> [Slots -> Ticks]]

ThreadOK ==
    /\ wpc \in {"wait", "checked", "scan", "gate", "done"}
    /\ sweep \subseteq Artifacts /\ quietSeal \subseteq Crashes
    /\ started \in {"none", "early", "late"}
    /\ lateSweep \in BOOLEAN

DriverOK ==
    /\ pc \in {"launch", "wait", "attribute", "observe", "steer", "steward",
               "relaunch", "retire", "close", "stamp", "join", "barrier"}
    /\ todo \subseteq Slots /\ fin \subseteq Slots
    /\ stop \in BOOLEAN /\ stamped \in BOOLEAN /\ charged \in BOOLEAN

SessionsOK ==
    /\ sess \in [Slots -> {"none", "run", "done"}]
    /\ named \in [Slots -> SUBSET Artifacts]
    /\ disk \in [Artifacts -> {"absent", "unfinished", "complete", "held", "moved"}]
    /\ quiet \in [Crashes -> BOOLEAN]
    /\ writers \in [Artifacts -> SUBSET (Slots \X Nat)]

\* The type of every variable, and what the loop keeps true of it: a session
\* in flight belongs to a chain.
TypeOK ==
    /\ ClockOK /\ ThreadOK /\ DriverOK /\ SessionsOK
    /\ \A a \in Slots : sess[a] # "none" => chains[a] # NoTick

Init ==
    /\ clock = 0
    /\ chains = [a \in Slots |-> NoTick]
    /\ firstSeen = [x \in Artifacts |-> NoTick]
    /\ touched = [x \in Artifacts |-> [a \in Slots |-> NoTick]]
    /\ stop = FALSE /\ started = "none" /\ stamped = FALSE /\ charged = FALSE
    /\ wpc = "wait" /\ sweep = {} /\ quietSeal = {}
    /\ pc = "launch" /\ todo = Slots /\ fin = {}
    /\ sess = [a \in Slots |-> "none"]
    /\ named = [a \in Slots |-> {}]
    /\ disk = [x \in Artifacts |-> "absent"]
    /\ quiet = [c \in Crashes |-> FALSE]
    /\ writers = [x \in Artifacts |-> {}]
    /\ lateSweep = FALSE

-----------------------------------------------------------------------------
(* Sessions *)

\* The running chain of a slot.
ChainOf(a) == <<a, chains[a]>>

\* A session may write what its chain filed, and its slot's unfinished
\* crashes, which every resume hands back to it.
MayWrite(a, x) ==
    \/ disk[x] = "absent" /\ (x \in Crashes => Owner[x] = a)
    \/ disk[x] \in {"unfinished", "complete"} /\ ChainOf(a) \in writers[x]
    \/ disk[x] = "unfinished" /\ x \in Crashes /\ Owner[x] = a

\* A write leaves the artifact unfinished or complete, and names its path.
Write(a, x, st) ==
    /\ sess[a] = "run" /\ MayWrite(a, x)
    /\ st \in {"unfinished", "complete"} /\ (disk[x] = "complete" => st = "complete")
    /\ disk' = [disk EXCEPT ![x] = st]
    /\ named' = [named EXCEPT ![a] = @ \cup {x}]
    /\ writers' = [writers EXCEPT ![x] = @ \cup {ChainOf(a)}]
    /\ quiet' = [c \in Crashes |-> quiet[c] /\ c # x]
    /\ UNCHANGED <<worker, thread, driver, sess>>

\* A command or a file tool names an artifact the session only reads.
Read(a, x) ==
    /\ sess[a] = "run" /\ disk[x] # "absent" /\ x \notin named[a]
    /\ named' = [named EXCEPT ![a] = @ \cup {x}]
    /\ UNCHANGED <<worker, thread, driver, sess, disk, quiet, writers>>

\* The session's process ends.
SessionEnd(a) ==
    /\ sess[a] = "run"
    /\ sess' = [sess EXCEPT ![a] = "done"]
    /\ UNCHANGED <<worker, thread, driver, named, disk, quiet, writers>>

\* GATE_QUIET_SECONDS pass without a write under the bundle.
QuietElapses(c) ==
    /\ disk[c] \in {"unfinished", "complete"} /\ ~quiet[c]
    /\ quiet' = [quiet EXCEPT ![c] = TRUE]
    /\ UNCHANGED <<worker, thread, driver, sess, named, disk, writers>>

-----------------------------------------------------------------------------
(* The worker's methods, each under its lock *)

\* Bug: a held bundle keeps the tick it was first seen at, and a bundle is
\* stamped before it is complete.
StampUnfinished ==
    firstSeen' = [x \in Artifacts |->
        IF disk[x] \in {"unfinished", "complete"} /\ firstSeen[x] = NoTick THEN clock
        ELSE firstSeen[x]]

\* _stamp: first-seen for what is complete, forgotten for what is not.
Stamp ==
    firstSeen' = [x \in Artifacts |->
        CASE disk[x] \in {"unfinished", "held"} -> NoTick
          [] disk[x] = "complete" /\ firstSeen[x] = NoTick -> clock
          [] OTHER -> firstSeen[x]]

\* launch: a fresh tick, unless a continuation carries its chain over.
Launch(a, continuation) ==
    LET fresh == ~continuation \/ chains[a] = NoTick
    IN  /\ fresh => clock < MaxClock
        /\ clock' = IF fresh THEN clock + 1 ELSE clock
        /\ chains' = IF fresh THEN [chains EXCEPT ![a] = clock + 1] ELSE chains
        /\ sess' = [sess EXCEPT ![a] = "run"]
        /\ named' = [named EXCEPT ![a] = {}]
        /\ UNCHANGED <<firstSeen, touched, thread, disk, quiet, writers>>

-----------------------------------------------------------------------------
(* The scheduler's loop *)

\* The initial cohort; a slot with nothing to do is left out.
LaunchFirst(a) ==
    /\ pc = "launch" /\ a \in todo
    /\ Launch(a, FALSE)
    /\ todo' = todo \ {a}
    /\ UNCHANGED <<pc, fin, stop, stamped, charged>>

Loop ==
    /\ pc \in {"launch", "retire"}
    /\ pc = "retire" => todo = {}
    /\ pc' = IF \E a \in Slots : sess[a] # "none" THEN "wait" ELSE "close"
    /\ todo' = {} /\ fin' = {}
    /\ UNCHANGED <<worker, thread, sessions, stop, stamped, charged>>

\* concurrent.futures.wait returns some finished sessions, or times out on
\* none and the steward's turn comes.
Collect(S) ==
    /\ pc = "wait"
    /\ S \subseteq {a \in Slots : sess[a] = "done"}
    /\ sess' = [a \in Slots |-> IF a \in S THEN "none" ELSE sess[a]]
    /\ fin' = S /\ todo' = S
    /\ pc' = IF S = {} THEN "steer" ELSE "attribute"
    /\ UNCHANGED <<worker, thread, named, disk, quiet, writers, stop, stamped, charged>>

\* Bug: a mention is stamped with the tick before its chain's.
AttributeEarly(a, readable) ==
    /\ pc = "attribute" /\ a \in todo
    /\ touched' = [x \in Artifacts |->
         IF readable /\ x \in named[a] THEN [touched[x] EXCEPT ![a] = chains[a] - 1]
         ELSE touched[x]]
    /\ todo' = todo \ {a}
    /\ pc' = IF todo = {a} THEN "observe" ELSE "attribute"
    /\ UNCHANGED <<clock, chains, firstSeen, thread, sessions, fin, stop, stamped, charged>>

\* attribute: what the ended session named, nothing when its transcript
\* cannot be read.
Attribute(a, readable) ==
    /\ pc = "attribute" /\ a \in todo
    /\ touched' = [x \in Artifacts |->
         IF readable /\ x \in named[a] THEN [touched[x] EXCEPT ![a] = clock] ELSE touched[x]]
    /\ todo' = todo \ {a}
    /\ pc' = IF todo = {a} THEN "observe" ELSE "attribute"
    /\ UNCHANGED <<clock, chains, firstSeen, thread, sessions, fin, stop, stamped, charged>>

\* observe, before any relaunch.
Observe ==
    /\ pc = "observe"
    /\ Stamp
    /\ pc' = "steer" /\ todo' = fin
    /\ UNCHANGED <<clock, chains, touched, thread, sessions, fin, stop, stamped, charged>>

\* A steward tick observes again and may launch slots left idle.
Steward ==
    /\ pc = "steer"
    /\ Stamp
    /\ pc' = "steward"
    /\ UNCHANGED <<clock, chains, touched, thread, sessions, todo, fin, stop, stamped, charged>>

StewardLaunch(a) ==
    /\ pc = "steward" /\ a \notin fin /\ sess[a] = "none"
    /\ Launch(a, FALSE)
    /\ UNCHANGED driver

\* Relaunch of a slot that finished, or not; those not launched retire.
Relaunch(a, continuation) ==
    /\ pc \in {"steer", "steward", "relaunch"} /\ a \in todo
    /\ Launch(a, continuation)
    /\ pc' = "relaunch" /\ todo' = todo \ {a}
    /\ fin' = fin \ {a}
    /\ UNCHANGED <<stop, stamped, charged>>

LeaveIdle(a) ==
    /\ pc \in {"steer", "steward", "relaunch"} /\ a \in todo
    /\ pc' = "relaunch" /\ todo' = todo \ {a}
    /\ UNCHANGED <<worker, thread, sessions, fin, stop, stamped, charged>>

Relaunched ==
    /\ pc \in {"steer", "steward", "relaunch"} /\ todo = {}
    /\ pc' = "retire" /\ todo' = fin
    /\ UNCHANGED <<worker, thread, sessions, fin, stop, stamped, charged>>

Retire(a) ==
    /\ pc = "retire" /\ a \in todo
    /\ chains' = [chains EXCEPT ![a] = NoTick]
    /\ todo' = todo \ {a}
    /\ UNCHANGED <<clock, firstSeen, touched, thread, sessions, pc, fin, stop, stamped, charged>>

\* close: ask to stop, stamp the time, join the thread, charge the tail of a
\* sweep that was in flight at the stamp.
Close ==
    /\ pc = "close"
    /\ stop' = TRUE /\ pc' = "stamp"
    /\ UNCHANGED <<worker, thread, sessions, todo, fin, stamped, charged>>

CloseStamp ==
    /\ pc = "stamp"
    /\ stamped' = TRUE /\ pc' = "join"
    /\ UNCHANGED <<worker, thread, sessions, todo, fin, stop, charged>>

Join ==
    /\ pc = "join" /\ wpc = "done"
    /\ charged' = (started = "early") /\ pc' = "barrier"
    /\ UNCHANGED <<worker, thread, sessions, todo, fin, stop, stamped>>

-----------------------------------------------------------------------------
(* The gate thread *)

\* A request, a hold, a quiet artifact or the clock wakes the thread.
Wake ==
    /\ wpc = "wait"
    /\ wpc' = IF stop THEN "done" ELSE "checked"
    /\ UNCHANGED <<worker, driver, sessions, sweep, quietSeal, started, lateSweep>>

SweepStart ==
    /\ wpc = "checked"
    /\ started' = IF stamped THEN "late" ELSE "early"
    /\ wpc' = "scan"
    /\ UNCHANGED <<worker, driver, sessions, sweep, quietSeal, lateSweep>>

\* Every slot that named x has ended for good.
TouchersDone(x) ==
    \A a \in Slots : touched[x][a] # NoTick => chains[a] = NoTick \/ chains[a] > touched[x][a]

IsTouched(x) == \E a \in Slots : touched[x][a] # NoTick

\* The wide rule: seen before every chain in flight.
BeforeAllChains(seen) == \A a \in Slots : chains[a] # NoTick => seen < chains[a]

FindingSealed(f, seen) == IF IsTouched(f) THEN TouchersDone(f) ELSE BeforeAllChains(seen)

CrashSealed(c, seen) ==
    /\ chains[Owner[c]] = NoTick \/ seen < chains[Owner[c]]
    /\ TouchersDone(c)

\* sealed: stamp, then select what is complete and settled, or a crash that
\* is complete and quiet.
Scan ==
    /\ wpc = "scan"
    /\ Stamp
    /\ LET complete == {x \in Artifacts : disk[x] = "complete"}
       IN  /\ quietSeal' = {c \in complete \cap Crashes :
                              quiet[c] /\ ~CrashSealed(c, firstSeen'[c])}
           /\ sweep' = {f \in complete \cap Findings : FindingSealed(f, firstSeen'[f])}
                  \cup {c \in complete \cap Crashes : CrashSealed(c, firstSeen'[c])}
                  \cup quietSeal'
    /\ wpc' = "gate"
    /\ UNCHANGED <<clock, chains, touched, driver, sessions, started, lateSweep>>

\* Triage or the find gate on one sealed artifact: accepted where it is,
\* moved to another lane, or (a crash) held pending.
Gate(x, verdict) ==
    /\ wpc = "gate" /\ x \in sweep
    /\ verdict \in {"complete", "moved", "held"} /\ (verdict = "held" => x \in Crashes)
    /\ disk' = [disk EXCEPT ![x] = verdict]
    /\ sweep' = sweep \ {x}
    /\ lateSweep' = (lateSweep \/ stop)
    /\ UNCHANGED <<worker, driver, wpc, quietSeal, started, sess, named, quiet, writers>>

\* Bug: the start mark is always cleared.
SweepEndForgets ==
    /\ wpc = "gate"
    /\ sweep' = {} /\ quietSeal' = {}
    /\ started' = "none"
    /\ wpc' = "wait"
    /\ UNCHANGED <<worker, driver, sessions, lateSweep>>

\* The sweep ends: all gated, the rest held back for a batch, or the wall
\* reached.  The start mark is kept for close() when it has asked to stop.
SweepEnd ==
    /\ wpc = "gate"
    /\ sweep' = {} /\ quietSeal' = {}
    /\ started' = IF stop THEN started ELSE "none"
    /\ wpc' = "wait"
    /\ UNCHANGED <<worker, driver, sessions, lateSweep>>

-----------------------------------------------------------------------------
Session == \E a \in Slots :
    \/ SessionEnd(a)
    \/ \E x \in Artifacts : Read(a, x) \/ \E st \in {"unfinished", "complete"} : Write(a, x, st)

Driver ==
    \/ Loop \/ Observe \/ Steward \/ Relaunched \/ Close \/ CloseStamp \/ Join
    \/ \E S \in SUBSET Slots : Collect(S)
    \/ \E a \in Slots :
          \/ LaunchFirst(a) \/ StewardLaunch(a) \/ LeaveIdle(a) \/ Retire(a)
          \/ \E readable \in BOOLEAN : Attribute(a, readable)
          \/ \E continuation \in BOOLEAN : Relaunch(a, continuation)

GateThread ==
    \/ Wake \/ SweepStart \/ Scan \/ SweepEnd
    \/ \E x \in Artifacts, verdict \in {"complete", "moved", "held"} : Gate(x, verdict)

Next == Session \/ Driver \/ GateThread \/ \E c \in Crashes : QuietElapses(c)

Spec == Init /\ [][Next]_vars

-----------------------------------------------------------------------------
(* Properties *)

\* A chain that wrote the artifact and is still running, or may continue.
LiveWriter(x) == \E a \in Slots : chains[a] # NoTick /\ ChainOf(a) \in writers[x]

\* No finding is under review while the chain that files it is live, its
\* turn-capped continuations included, unless an ended session of another
\* slot mentioned it.
FindingSettled ==
    \A f \in sweep \cap Findings :
        LiveWriter(f) =>
            \E b \in Slots : touched[f][b] # NoTick /\ \A w \in writers[f] : w[1] # b

\* No crash bundle is under triage while a chain that works on it is live,
\* unless nothing had been written to it for the quiet span.
CrashSettled ==
    \A c \in (sweep \cap Crashes) \ quietSeal : ~LiveWriter(c)

\* Review time past the drained pool is billed: a sweep that was in flight when
\* close() took its time and worked on is charged when the barrier begins.  (One
\* that passed the stop check before close() and stamped its start after it is not.)
TailCharged == pc = "barrier" /\ lateSweep => charged \/ started = "late"

\* Post-iteration triage never overlaps a sweep.
BarrierAlone == pc = "barrier" => wpc = "done" /\ sweep = {}

\* The driver's barrier finds the gate at rest, and what the gate did past the
\* drained pool on its account.
ClosesInOrder == BarrierAlone /\ TailCharged
=============================================================================
