-------------------------------- MODULE Pool --------------------------------
(* The pooled result of a benchmark run: update_result and rebuild_pool of     *)
(* benchmark_runner.py with build_pool, relocate_experiments, split_pool,      *)
(* attribute_clusters and aggregate of benchmark.py.                           *)
(*                                                                             *)
(* What the finished cells confirmed is copied into a staging pool, its        *)
(* crashes replayed, everything scored, clustered, split by condition and      *)
(* rendered, and the staging pool takes the place of the published one.  Every *)
(* such step may cost an artifact its review receipt.  An artifact without a   *)
(* current one is published "unjudged", and the report counts it as such.  A   *)
(* kill may come between any two steps; the next update begins from the cells. *)
(*                                                                             *)
(* Each cell is its own condition.  The pool's names are left out: one         *)
(* generation's names and its artifacts correspond one to one.                 *)
EXTENDS Naturals, FiniteSets

CONSTANTS
    PoolCells, Arts,  \* cells, and the artifacts they confirmed
    CellOf, SanOf,    \* an artifact's cell; a crash's sanitizer, "none" for a finding
    Behind,           \* Behind[f]: the crash the finding f writes up, or f
    MaxPoolKills      \* bound: kills

\* A write-up is a finding, and what it writes up is a crash.
ASSUME PoolAssumption ==
    /\ IsFiniteSet(Arts) /\ 0 \notin Arts /\ MaxPoolKills \in Nat
    /\ CellOf \in [Arts -> PoolCells] /\ Behind \in [Arts -> Arts] /\ DOMAIN SanOf = Arts
    /\ \A f \in Arts : Behind[f] # f => SanOf[f] = "none" /\ SanOf[Behind[f]] # "none"

Crashes == {a \in Arts : SanOf[a] # "none"}
Sans == {SanOf[a] : a \in Crashes}
OwnedBy(c) == {a \in Arts : CellOf[a] = c}

VARIABLES
    done,           \* cells with status "done"
    tree,           \* tree[c]: "out" of the run's directory, "lost" when cell.json
                    \* names a place it is no longer at, "in" the directory
    current,        \* artifacts whose receipt in the cell is current
    rebuilt,        \* sanitizers whose build changed since the run pinned it
    bare, raw,      \* crashes whose diagnostics name no source line: in the cells, pooled
    rate,           \* rate[a]: what the replays gave the crash: "some" rate, "zero", or "none";
                    \* "doubt" is a zero after a replay that did not run or crashed elsewhere
    pool, valid, scored, split,     \* .pool.staging, its current receipts and scores,
                                    \* and the current receipts of the conditions' copies
    members, unjudged, clustered,   \* pool-members.json, clusters-*.json
    live,           \* pool/, or NoPool
    report,         \* report.json
    hitch,          \* a tool of this update failed
    doing, killed

cells == <<done, tree, current, rebuilt, bare>>
stage == <<pool, valid, scored, split>>
files == <<members, unjudged, clustered>>
poolVars == <<cells, raw, rate, stage, files, live, report, hitch, doing, killed>>

ReplayStatuses == {"reproduced", "not-reproduced", "mismatch", "inconclusive", "unmeasured"}
NoPool == {0}     \* no artifact is 0
NoReport == [total |-> [c \in PoolCells |-> 0], unjudged |-> {}, credited |-> {}, unique |-> {}]
Steps == {"idle", "build", "move", "point", "symbols", "replay", "audit", "cluster", "split",
          "index", "finalize", "reaudit", "out", "in", "aggregate"}

\* The type of every variable; the conditions' copies are of the pool.
PoolTypeOK ==
    /\ done \subseteq PoolCells /\ tree \in [PoolCells -> {"out", "lost", "in"}]
    /\ current \subseteq Arts /\ rebuilt \subseteq Sans /\ bare \subseteq Crashes
    /\ raw \subseteq bare \cap pool
    /\ rate \in [Crashes -> {"untried", "some", "zero", "doubt", "none"}]
    /\ pool \subseteq Arts /\ valid \subseteq pool /\ scored \subseteq pool /\ split \subseteq pool
    /\ members \subseteq Arts /\ unjudged \subseteq members /\ clustered \in BOOLEAN
    /\ live \in (SUBSET Arts) \cup {NoPool}
    /\ report.total \in [PoolCells -> 0 .. Cardinality(Arts)]
    /\ report.credited \cup report.unjudged \cup report.unique \subseteq Arts
    /\ hitch \in BOOLEAN /\ doing \in Steps /\ killed \in 0 .. MaxPoolKills

PoolInit ==
    /\ done = {} /\ tree = [c \in PoolCells |-> "out"] /\ current = Arts /\ rebuilt = {}
    /\ bare \in SUBSET Crashes /\ raw = {} /\ rate = [a \in Crashes |-> "untried"]
    /\ pool = {} /\ valid = {} /\ scored = {} /\ split = {}
    /\ members = {} /\ unjudged = {} /\ clustered = FALSE
    /\ live = NoPool /\ report = NoReport /\ hitch = FALSE /\ doing = "idle" /\ killed = 0

\* The next step of rebuild_pool, the bundles among those left out.
Go(next) == doing' = next

-----------------------------------------------------------------------------
(* Between updates *)

\* A cell ends, its confirmed artifacts counted in its metrics.json.
Finish(c) ==
    /\ doing = "idle" /\ done' = done \cup {c}
    /\ UNCHANGED <<tree, current, rebuilt, bare, raw, rate, stage, files, live, report, hitch, doing, killed>>

\* A receipt's scope is contradicted, or a sanitizer's build is made again.
Outdate ==
    /\ doing = "idle"
    /\ \/ \E a \in current : current' = current \ {a} /\ UNCHANGED rebuilt
       \/ \E s \in Sans : rebuilt' = rebuilt \cup {s} /\ UNCHANGED current
    /\ UNCHANGED <<done, tree, bare, raw, rate, stage, files, live, report, hitch, doing, killed>>

\* update_result; the skip of unchanged inputs leaves everything as it is.
Update ==
    /\ doing = "idle" /\ done # {} /\ Go("build") /\ hitch' = FALSE
    /\ UNCHANGED <<cells, raw, rate, stage, files, live, report, killed>>

-----------------------------------------------------------------------------
(* rebuild_pool *)

\* What the finished cells' metrics count.
InMetrics == {a \in Arts : CellOf[a] \in done}

\* build_pool: what the metrics of the finished cells name is copied from where
\* cell.json says it is, and a current receipt is bound to the copy.
Build ==
    /\ doing = "build" /\ Go("move")
    /\ pool' = {a \in InMetrics : tree[CellOf[a]] # "lost"}
    /\ valid' = pool' \cap current /\ scored' = {} /\ split' = {}
    /\ members' = pool' /\ unjudged' = {}
    /\ rate' = [a \in Crashes |-> "untried"] /\ raw' = bare \cap pool'
    /\ UNCHANGED <<cells, clustered, live, report, hitch, killed>>

\* relocate_experiments moves a tree, and then says so in cell.json.
Move ==
    /\ doing = "move"
    /\ \/ \E c \in done : /\ tree[c] = "out" /\ tree' = [tree EXCEPT ![c] = "lost"] /\ Go("point")
       \/ /\ \A c \in done : tree[c] # "out"
          /\ Go("symbols") /\ UNCHANGED tree
    /\ UNCHANGED <<done, current, rebuilt, bare, raw, rate, stage, files, live, report, hitch, killed>>

Point ==
    /\ doing = "point" /\ Go("move")
    /\ \E c \in done : tree[c] = "lost" /\ c \in {CellOf[a] : a \in pool}
                       /\ tree' = [tree EXCEPT ![c] = "in"]
    /\ UNCHANGED <<done, current, rebuilt, bare, raw, rate, stage, files, live, report, hitch, killed>>

\* _pool_build_unverified: some build of the run's pin changed.
Unverified == rebuilt # {}

\* repair_pool_report_symbols: the receipts are bound again.
Symbols ==
    /\ doing = "symbols" /\ Go("replay")
    /\ raw' = IF Unverified THEN raw ELSE {}
    /\ UNCHANGED <<cells, rate, stage, files, live, report, hitch, killed>>

\* _pool_replay_blocked: the crash's own build changed.
Blocked(a) == SanOf[a] \in rebuilt

\* reverify_one_crash: what two replays establish, with the saved testcase and
\* in the old form without it.
Outcome(first, legacy) ==
    IF legacy = "reproduced" THEN legacy
    ELSE IF first \in {"unmeasured", "inconclusive"} THEN first
    ELSE IF legacy = "unmeasured" \/ (legacy = "mismatch" /\ first = "not-reproduced") THEN legacy
    ELSE first

Measured == {"reproduced", "not-reproduced"}

\* reverify_pool_crash_rates binds the receipt again when a rate was measured.
\* The diagnostics were given their source lines before the replay.
Unbound(a, outcome) == IF outcome \in Measured \/ a \notin raw THEN {} ELSE {a}

Rate(outcome, attempts) ==
    IF outcome = "reproduced" THEN "some"
    ELSE IF outcome # "not-reproduced" THEN "none"
    ELSE IF attempts \cap {"unmeasured", "mismatch"} = {} THEN "zero" ELSE "doubt"

Replay(a) ==
    /\ doing = "replay" /\ a \in pool \cap Crashes /\ ~Blocked(a) /\ rate[a] = "untried"
    /\ \E first \in ReplayStatuses, harness \in BOOLEAN, second \in ReplayStatuses :
          LET legacy == IF harness /\ first # "reproduced" THEN second ELSE "none"
              outcome == IF legacy = "none" THEN first ELSE Outcome(first, legacy)
          IN /\ rate' = [rate EXCEPT ![a] = Rate(outcome, {first, legacy})]
             /\ valid' = valid \ Unbound(a, outcome)
             /\ raw' = raw \ {a}
    /\ UNCHANGED <<cells, pool, scored, split, files, live, report, hitch, doing, killed>>

\* What is left has no replay contract.  Then bin/severity scores what a
\* current receipt vouches for, or fails.  Nothing reads the rates again here.
Score ==
    /\ doing = "replay" /\ Go("audit")
    /\ \E ok \in BOOLEAN : scored' = (IF ok THEN valid ELSE {}) /\ hitch' = (hitch \/ ~ok)
    /\ rate' = [a \in Crashes |-> "untried"] /\ raw' = {}
    /\ UNCHANGED <<cells, pool, valid, split, files, live, report, killed>>

\* _quarantine_stale_receipts, over the pool and its conditions' copies.
Quarantined == pool \ (valid \cap scored \cap (IF doing = "reaudit" THEN split ELSE pool))

Audit ==
    /\ doing \in {"audit", "reaudit"} /\ Go(IF doing = "audit" THEN "cluster" ELSE "out")
    /\ unjudged' = unjudged \cup Quarantined
    /\ UNCHANGED <<cells, raw, rate, stage, members, clustered, live, report, hitch, killed>>

\* The tools that rewrite reports bind the receipts again when they all succeed.
Rewrites(S, left) ==
    \E ok \in BOOLEAN : /\ left \in IF ok THEN {S} ELSE SUBSET S
                        /\ hitch' = (hitch \/ ~ok)

\* A clustering that fails leaves an empty list of clusters.
Cluster ==
    /\ doing = "cluster" /\ Go("split")
    /\ \E ok \in BOOLEAN : /\ clustered' = ok /\ hitch' = (hitch \/ ~ok)
                           /\ valid' \in IF ok THEN {valid} ELSE SUBSET valid
    /\ UNCHANGED <<cells, raw, rate, pool, scored, split, members, unjudged, live, report, killed>>

\* split_pool copies every member into its condition's tree.
Split ==
    /\ doing = "split" /\ Go("index") /\ split' = valid
    /\ UNCHANGED <<cells, raw, rate, pool, valid, scored, files, live, report, hitch, killed>>

\* maintain_indexes, over the pool and then over its conditions.
Index ==
    /\ doing = "index" /\ Go("finalize")
    /\ \E left \in SUBSET valid : Rewrites(valid, left) /\ valid' = left
    /\ UNCHANGED <<cells, raw, rate, pool, scored, split, files, live, report, killed>>

FinalizeConditionPools ==
    /\ doing = "finalize" /\ Go("reaudit")
    /\ \E left \in SUBSET split : Rewrites(split, left) /\ split' = left
    /\ UNCHANGED <<cells, raw, rate, pool, valid, scored, files, live, report, killed>>

\* The published pool is put aside and the staging one put in its place.
SwapOut ==
    /\ doing = "out" /\ Go("in") /\ live' = NoPool
    /\ UNCHANGED <<cells, raw, rate, stage, files, report, hitch, killed>>

SwapIn ==
    /\ doing = "in" /\ Go("aggregate") /\ live' = pool
    /\ UNCHANGED <<cells, raw, rate, stage, files, report, hitch, killed>>

-----------------------------------------------------------------------------
(* The report *)

\* credited_pool_members.
Credited == members \ unjudged

\* Bug: a finding is behind a crash of any condition, credited or not.
CoveredAny(f) == Behind[f] # f

\* _finding_covered_by_crash: the finding writes up a crash its condition is
\* credited with.
Covered(f) == Behind[f] # f /\ Behind[f] \in Credited /\ CellOf[Behind[f]] = CellOf[f]

\* attribute_clusters: what counts for a condition as a defect of its own.
Unique == IF clustered THEN {a \in Credited : ~Covered(a)} ELSE {}

\* aggregate: a condition's crashes are what its cells' metrics counted, less
\* the ones the pool holds unjudged.
Total(c) == Cardinality(OwnedBy(c) \cap Crashes \cap InMetrics)
            - Cardinality(OwnedBy(c) \cap Crashes \cap unjudged)

\* There is no staging pool any more; what a killed update left is discarded by
\* the next one unread.
Cleared ==
    /\ pool' = {} /\ valid' = {} /\ scored' = {} /\ split' = {} /\ raw' = {}
    /\ rate' = [a \in Crashes |-> "untried"] /\ hitch' = FALSE

Aggregate ==
    /\ doing = "aggregate" /\ Go("idle")
    /\ report' = [total |-> [c \in PoolCells |-> Total(c)], unjudged |-> unjudged,
                  credited |-> Credited, unique |-> Unique]
    /\ Cleared /\ UNCHANGED <<cells, files, live, killed>>

\* The runner is killed; the files stay as they are.
KillUpdate ==
    /\ doing # "idle" /\ killed < MaxPoolKills /\ killed' = killed + 1 /\ Go("idle")
    /\ Cleared /\ UNCHANGED <<cells, files, live, report>>

Rebuild ==
    \/ Build \/ Move \/ Point \/ Symbols \/ (\E a \in Crashes : Replay(a)) \/ Score \/ Audit
    \/ Cluster \/ Split \/ Index \/ FinalizeConditionPools \/ SwapOut \/ SwapIn \/ Aggregate

PoolNext == (\E c \in PoolCells : Finish(c)) \/ Outdate \/ Update \/ Rebuild \/ KillUpdate

PoolSpec == PoolInit /\ [][PoolNext]_poolVars

-----------------------------------------------------------------------------
(* Properties *)

\* benchmark_runner.py 2778-2794, 3044-3048: what a report credits is in the
\* published pool, reviewed as published there and in its condition's copy, and
\* scored, whichever tool failed or was killed on the way.
CreditedIsCurrent ==
    [][report' # report => report'.credited \subseteq live \cap valid \cap split \cap scored]_poolVars

\* benchmark_runner.py 2492-2496, triage.py 5499-5506: an update in which no
\* tool fails and no build changed credits all that was reviewed in the cells.
ReviewsSurvive ==
    [][report' # report /\ ~hitch /\ rebuilt = {} => report'.credited = pool \cap current]_poolVars

\* benchmark.py 4222-4237: no condition is credited with a crash and its write-up;
\* a write-up of a crash it is not credited with is a finding of its own.
OneDefectOnce ==
    [][report' # report => \A f \in Arts : Behind[f] # f /\ f \in report'.credited /\ clustered =>
           (f \in report'.unique <=>
                ~(Behind[f] \in report'.unique /\ CellOf[Behind[f]] = CellOf[f]))]_poolVars

\* benchmark_runner.py 2298-2317: a rate of zero is written only where neither
\* replay failed to launch or ended in another fault.
RateEarned == \A a \in Crashes : rate[a] # "doubt"

\* A published rate was measured, what is credited has a current receipt, an
\* update keeps the reviews it did not replace, one defect counts once, and no
\* condition is left with fewer crashes than none.
PoolKept ==
    /\ [](PoolTypeOK /\ RateEarned)
    /\ CreditedIsCurrent
    /\ ReviewsSurvive
    /\ OneDefectOnce

=============================================================================
