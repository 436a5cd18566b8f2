---------------------------- MODULE ClusterLane ----------------------------
(***************************************************************************)
(* lib/audit_runner.py: ClusterExpansionLane and expand_new_crash_clusters. *)
(*                                                                         *)
(* Sweeps of the sealed gate and the driver's barriers hand promoted       *)
(* crashes to a lane that expands them, one batch at a time, on an         *)
(* executor thread.  A Future becomes done before its callback retires     *)
(* the batch; the callback is registered outside the lane's lock by        *)
(* whoever started the batch.  Triage moves bundles off crashes/ while a   *)
(* decision is in flight, and the productive wall passes at any moment.    *)
(***************************************************************************)
EXTENDS Naturals, FiniteSets

CONSTANTS Crashes,      \* crash bundles an audit can file
          StateOf,      \* StateOf[c]: the crash state (cluster) of bundle c
          NoState,      \* the state of a bundle whose stack does not parse
          MaxBarriers   \* bound: barriers of one modelled run

ASSUME LaneAssumption ==
    /\ IsFiniteSet(Crashes)
    /\ StateOf = [c \in Crashes |-> StateOf[c]]
    /\ MaxBarriers \in Nat

States == {StateOf[c] : c \in Crashes} \ {NoState}

VARIABLES
    disk,       \* bundles under crashes/
    gone,       \* bundles triage rejected or folded into .duplicates/
    marker,     \* bundles holding .cluster_expanded
    attempted,  \* runtime.cluster_expansion_attempted, this process
    backlog,    \* lane._backlog (no duplicates; expansion re-sorts it)
    expanding,  \* lane._expanding
    fut,        \* lane._expansion: "none", "scan", "decide", "mint", "done"
    watcher,    \* who has yet to register the Future's callback, or "none"
    leaders,    \* crashes this batch asks a decision for and has yet to mint
    group,      \* the bundles this batch grouped by crash state
    failed,     \* history: a batch not retired before the last barrier raised
    minted,     \* history: decisions whose rows were queued, per crash state
    phase,      \* driver: "pool", "barrier", "drain", "ended"
    sweep,      \* the crashes the sweep in flight will hand over
    sweeping,   \* sweep thread: "idle" or "triage"
    past,       \* the productive wall deadline has passed
    barriers    \* barriers taken so far

lane == <<backlog, expanding, fut, watcher>>
batch == <<leaders, group, failed, minted, attempted>>
files == <<disk, gone, marker>>
driver == <<phase, sweep, sweeping, past, barriers>>
vars == <<lane, batch, files, driver>>

Futures == {"none", "scan", "decide", "mint", "done"}

\* The type of every variable; a crash is `expanding` only while a batch owns
\* the slot, or the lane would refuse it for ever.
TypeOK ==
    /\ disk \subseteq Crashes /\ gone \subseteq Crashes /\ marker \subseteq Crashes
    /\ attempted \subseteq Crashes
    /\ backlog \subseteq Crashes /\ expanding \subseteq Crashes
    /\ fut \in Futures
    /\ fut = "none" => expanding = {} /\ watcher = "none"
    /\ watcher \in {"none", "sweep", "driver", "callback"}
    /\ leaders \subseteq Crashes
    /\ group \subseteq Crashes
    /\ failed \in BOOLEAN
    /\ minted \in [States -> Nat]
    /\ phase \in {"pool", "barrier", "drain", "ended"}
    /\ sweep \subseteq Crashes
    /\ sweeping \in {"idle", "triage"}
    /\ past \in BOOLEAN
    /\ barriers \in Nat

Init ==
    /\ disk = {} /\ gone = {} /\ marker = {} /\ attempted = {}
    /\ backlog = {} /\ expanding = {} /\ fut = "none" /\ watcher = "none"
    /\ leaders = {} /\ group = {} /\ failed = FALSE
    /\ minted = [s \in States |-> 0]
    /\ phase = "pool" /\ sweep = {} /\ sweeping = "idle"
    /\ past = FALSE /\ barriers = 0

-----------------------------------------------------------------------------
(* The lane *)

\* _start_locked: clear the backlog and submit what is still unexpanded.
StartLocked(queued, who) ==
    LET todo == queued \ marker
    IN  /\ backlog' = {}
        /\ IF todo = {}
             THEN fut' = "none" /\ watcher' = "none" /\ UNCHANGED expanding
             ELSE fut' = "scan" /\ watcher' = who /\ expanding' = todo

\* The part of schedule run under the lock: queue what is not yet queued, in
\* flight or expanded; start a batch unless the callback still owns the slot.
Schedule(crashes, who) ==
    LET queued == backlog \cup (crashes \ (expanding \cup marker))
    IN  IF fut # "none"
          THEN backlog' = queued /\ UNCHANGED <<fut, watcher, expanding>>
          ELSE StartLocked(queued, who)

\* Bug: registered under the lock, so the callback of a Future already done
\* runs synchronously and waits for the lock its own thread holds.
WatchUnderLock ==
    /\ watcher # "none" /\ fut # "done"
    /\ watcher' = "none"
    /\ UNCHANGED <<backlog, expanding, fut, batch, files, driver>>

\* _watch: register the callback, outside the lock.
Watch ==
    /\ watcher # "none"
    /\ watcher' = "none"
    /\ UNCHANGED <<backlog, expanding, fut, batch, files, driver>>

\* Bug: what was queued while the batch ran is not started.
DoneForgettingBacklog ==
    /\ fut = "done" /\ watcher = "none"
    /\ fut' = "none" /\ expanding' = {}
    /\ UNCHANGED <<backlog, watcher, batch, files, driver>>

\* _done: retire the batch and, before the deadline, start the next one
\* under the same lock.
Done ==
    /\ fut = "done" /\ watcher = "none"
    /\ IF past
         THEN fut' = "none" /\ expanding' = {} /\ UNCHANGED <<backlog, watcher>>
         ELSE LET todo == backlog \ marker
              IN  /\ backlog' = {}
                  /\ expanding' = todo
                  /\ fut' = IF todo = {} THEN "none" ELSE "scan"
                  /\ watcher' = IF todo = {} THEN "none" ELSE "callback"
    /\ UNCHANGED <<batch, files, driver>>

-----------------------------------------------------------------------------
(* expand_new_crash_clusters, on the executor thread *)

\* States already expanded by a bundle still on disk.
ExpandedStates == {StateOf[c] : c \in disk \cap marker} \ {NoState}

\* Every candidate leads: the representative table is never consulted.
LeadershipsUngrouped(cands) == {cands}

\* One representative per crash state leads; the rest ride on it.
Leaderships(cands) ==
    {ls \in SUBSET cands :
        /\ \A c \in cands : StateOf[c] = NoState => c \in ls
        /\ \A s \in States :
              (\E c \in cands : StateOf[c] = s)
              => \E l \in ls : ls \cap {c \in cands : StateOf[c] = s} = {l}}

\* Scan the tree: mark members of expanded clusters, choose leaders, and
\* remember the ones asked as attempted.
ExpandScan ==
    /\ fut = "scan"
    /\ LET known == {c \in (expanding \cap disk) \ marker : StateOf[c] \in ExpandedStates}
           cands == ((expanding \cap disk) \ marker) \ known
       IN  /\ marker' = marker \cup known
           /\ \E ls \in Leaderships(cands) :
                 LET asked == ls \ attempted
                 IN  /\ leaders' = asked
                     /\ attempted' = attempted \cup asked
                     /\ group' = IF asked = {} THEN {} ELSE cands
                     /\ fut' = IF asked = {} THEN "done" ELSE "decide"
    /\ UNCHANGED <<backlog, expanding, watcher, failed, minted, disk, gone, driver>>

\* The decision session returns: rows for some crashes, None for the others.
ExpandDecide ==
    /\ fut = "decide"
    /\ \E answered \in SUBSET leaders :
          /\ leaders' = answered
          /\ fut' = IF answered = {} THEN "done" ELSE "mint"
          /\ group' = IF answered = {} THEN {} ELSE group
    /\ UNCHANGED <<backlog, expanding, watcher, failed, minted, attempted,
                   files, driver>>

\* The bundles of this batch that ride on leader c.
Siblings(c) ==
    {d \in group \ {c} : StateOf[d] = StateOf[c] /\ StateOf[d] # NoState}

\* Queue one crash's rows, then write its marker and its siblings'.  A
\* bundle triage moved meanwhile has no directory left to mark.
ExpandMint(c) ==
    /\ fut = "mint" /\ c \in leaders
    /\ leaders' = leaders \ {c}
    /\ fut' = IF leaders = {c} THEN "done" ELSE "mint"
    /\ group' = IF leaders = {c} THEN {} ELSE group
    /\ minted' = IF StateOf[c] = NoState THEN minted
                 ELSE [minted EXCEPT ![StateOf[c]] = @ + 1]
    /\ marker' = marker \cup (({c} \cup Siblings(c)) \cap disk)
    /\ UNCHANGED <<backlog, expanding, watcher, failed, attempted, disk, gone,
                   driver>>

\* The batch raises; whatever it had not marked stays unmarked.
ExpandRaise ==
    /\ fut \in {"scan", "mint"}
    /\ fut' = "done" /\ failed' = TRUE /\ leaders' = {} /\ group' = {}
    /\ UNCHANGED <<backlog, expanding, watcher, minted, attempted, files, driver>>

-----------------------------------------------------------------------------
(* The callers *)

\* A session files a bundle that triage promotes.
FileCrash(c) ==
    /\ phase = "pool" /\ c \notin disk \cup gone
    /\ disk' = disk \cup {c}
    /\ UNCHANGED <<lane, batch, gone, marker, driver>>

\* Triage, in a sweep or a barrier, moves a bundle off crashes/.
MoveCrash(c) ==
    /\ c \in disk /\ (sweeping = "triage" \/ phase = "barrier")
    /\ disk' = disk \ {c} /\ marker' = marker \ {c} /\ gone' = gone \cup {c}
    /\ UNCHANGED <<lane, batch, driver>>

\* _sweep: sealed crashes are chosen and the wall is checked, then triage runs.
SweepBegin ==
    /\ phase = "pool" /\ sweeping = "idle" /\ ~past
    /\ \E sealed \in SUBSET disk \ {{}} : sweep' = sealed
    /\ sweeping' = "triage"
    /\ UNCHANGED <<lane, batch, files, phase, past, barriers>>

\* _sweep hands its crashes over once both gates have returned.
SweepHandOver ==
    /\ sweeping = "triage" /\ watcher # "sweep"
    /\ Schedule(sweep, "sweep")
    /\ sweeping' = "idle" /\ sweep' = {}
    /\ UNCHANGED <<batch, files, phase, past, barriers>>

\* The pool drains and close() joins the sweep thread.
BarrierBegin ==
    /\ phase = "pool" /\ sweeping = "idle" /\ watcher # "sweep"
    /\ phase' = "barrier" /\ failed' = (failed /\ fut # "none")
    /\ UNCHANGED <<lane, leaders, group, minted, attempted, files,
                   sweep, sweeping, past, barriers>>

\* _result_gate_pass: every bundle on disk not attempted this process.
BarrierHandOver ==
    /\ phase = "barrier"
    /\ Schedule(disk \ attempted, "driver")
    /\ phase' = "drain" /\ barriers' = barriers + 1
    /\ UNCHANGED <<batch, files, sweep, sweeping, past>>

\* drain returns once the lane is idle; the driver runs another pool or ends.
DrainReturn ==
    /\ phase = "drain" /\ fut = "none" /\ watcher # "driver"
    /\ phase' \in IF past \/ barriers >= MaxBarriers THEN {"ended"} ELSE {"pool"}
    /\ UNCHANGED <<lane, batch, files, sweep, sweeping, past, barriers>>

\* The productive wall passes.
WallPasses ==
    /\ ~past /\ past' = TRUE
    /\ UNCHANGED <<lane, batch, files, phase, sweep, sweeping, barriers>>

Next ==
    \/ Watch \/ Done
    \/ ExpandScan \/ ExpandDecide \/ ExpandRaise
    \/ \E c \in Crashes : ExpandMint(c) \/ FileCrash(c) \/ MoveCrash(c)
    \/ SweepBegin \/ SweepHandOver
    \/ BarrierBegin \/ BarrierHandOver \/ DrainReturn
    \/ WallPasses

\* A decision call is bounded by its own timeout and every thread runs on, so
\* each started step is eventually taken.
Fairness ==
    /\ WF_vars(Watch) /\ WF_vars(Done)
    /\ WF_vars(ExpandScan) /\ WF_vars(ExpandDecide)
    /\ \A c \in Crashes : WF_vars(ExpandMint(c))
    /\ WF_vars(SweepHandOver) /\ WF_vars(BarrierHandOver) /\ WF_vars(DrainReturn)

Spec == Init /\ [][Next]_vars /\ Fairness

-----------------------------------------------------------------------------
(* Properties *)

\* One expansion runs at a time so two decisions never mint the same
\* neighbours: rows are queued once per crash state, unless triage moved a
\* bundle of that state, and its marker with it, off crashes/.
MintOnce ==
    \A s \in States : minted[s] <= 1 + Cardinality({c \in gone : StateOf[c] = s})

\* A bundle is expanded, or a decision on its crash state was asked for.
Settled(c) == c \in marker \cup attempted \/ \E d \in attempted : StateOf[d] = StateOf[c]

\* What a barrier hands over is settled when drain returns before the wall:
\* every bundle still on disk is expanded, or a decision on its crash state
\* was already asked for in this process, or a batch raised.
DrainSettles ==
    [][(phase = "drain" /\ phase' # "drain" /\ ~past /\ ~failed) =>
         \A c \in disk : Settled(c)]_vars

\* drain never waits for ever: every batch in flight is retired and the
\* backlog it leaves is bounded, so the driver leaves the barrier.
DrainReturns == (phase = "drain") ~> (phase # "drain")
=============================================================================
