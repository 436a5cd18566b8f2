----------------------------- MODULE MCMeasure ------------------------------
(***************************************************************************)
(* What a benchmark measures, one question per behaviour: what identifies the *)
(* source a build or a pin is of ("identity"), a run of cells over kills and *)
(* edits ("run"), the pooled results ("pool"), the harvested numbers       *)
(* ("harvest"), the answer key ("score"), the tokens charged ("usage"), and the reaping of a cell's processes ("reaper"). *)
(***************************************************************************)
EXTENDS SourceIdentity, ProcessTree, BenchmarkRun, Pool, Sequences
\* What a checkout can be is interchangeable, and so is a build.
FirstWorld == RunInit /\ world = [src |-> "s0", bld |-> "b0"]

\* A cell something unusual happened to.
Odd(d) == d.audit = "cut" \/ d.unreaped \/ d.unowned \/ d.mark = "provider_recovered"

\* A crash, its write-up, and a crash of another cell.
CellOfArts == <<1, 1, 2>>
SanOfArts == <<"asan", "none", "ubsan">>
BehindArts == <<1, 1, 3>>

HomeOf == [a \in {"x1", "x2", "f1"} |-> IF a = "x2" THEN "h2" ELSE "h1"]
\* One cell has a probe row of a run that was never started, one a rejected crash
\* that never had a directory.
RowsOf == [c \in {"h1", "h2"} |-> IF c = "h1" THEN <<0>> ELSE <<>>]
LedgerOf == [c \in {"h1", "h2"} |-> IF c = "h2" THEN 1 ELSE 0]

Seen(prim, sym, access) == [prim |-> prim, sym |-> sym, access |-> access]
Bug(id, prim, sym, file, classes, only, quarantined, alts) ==
    [id |-> id, prim |-> prim, sym |-> sym, file |-> file, classes |-> classes, only |-> only,
     quarantined |-> quarantined, alts |-> alts]
PlantedBugs ==
    {Bug("b1", "uaf", "f", <<>>, {}, FALSE, FALSE, {}),
     Bug("b2", "uaf", "f", <<1, 1>>, {"c1"}, FALSE, FALSE, {Seen("df", "g", "READ")}),
     Bug("b3", "df", "g", <<2, 1>>, {"c1"}, TRUE, FALSE, {}),
     Bug("b4", "df", "g", <<>>, {}, TRUE, FALSE, {}),
     Bug("b5", "df", "f", <<>>, {"c2"}, TRUE, FALSE, {}),
     Bug("b6", "df", "h", <<>>, {}, FALSE, FALSE, {Seen("df", "g", "WRITE")}),
     Bug("b7", "uaf", "g", <<2, 1>>, {}, FALSE, TRUE, {})}

TrapAt(id, sym, shown, file, classes) ==
    [id |-> id, sym |-> sym, outcome |-> shown, file |-> file, classes |-> classes]
Traps ==
    {TrapAt("t1", "g", "clean", <<1, 1>>, {"c1"}), TrapAt("t2", "g", "clean", <<>>, {}),
     TrapAt("t3", "f", "ABRT", <<>>, {}), TrapAt("t4", "f", "clean", <<>>, {"c2", "c3"})}

CrashAt(prim, site, access, cond, judged) ==
    [kind |-> "crash", cond |-> cond, judged |-> judged, prim |-> prim, site |-> site, access |-> access]
FindingAt(sym, file, class, cond, judged) ==
    [kind |-> "finding", cond |-> cond, judged |-> judged, sym |-> sym, file |-> file, class |-> class]
\* At f no entry names a file; output that names no primitive fits nothing.
Confirmed ==
    {CrashAt(p, s, "READ", "m", TRUE) : p \in {"uaf", "df", "ABRT"}, s \in {{"f"}, {"g"}, {"f", "g"}}}
        \cup {CrashAt("", {"f", "g"}, "READ", "m", TRUE)}
        \cup {CrashAt("df", {"g"}, "WRITE", c, j) : c \in {"m", "h"}, j \in BOOLEAN}
        \cup {FindingAt("g", f, k, "m", TRUE) : f \in {<<>>, <<0, 1>>, <<1, 1>>, <<2, 1>>}, k \in {"c1", "c2", "c3"}}
        \cup {FindingAt("f", <<1, 1>>, k, "m", TRUE) : k \in {"c1", "c2", "c3"}}
        \cup {FindingAt("g", <<2, 1>>, "c1", "h", j) : j \in BOOLEAN}

VARIABLE part    \* the component this behaviour is of

VARIABLES h_tree, h_status, h_metrics, h_pool, h_odd, g_bugs, g_traps, g_filed
Books == INSTANCE Harvest WITH
    Cells <- {"h1", "h2"}, CondOf <- [c \in {"h1", "h2"} |-> "h"],
    Arts <- {"x1", "x2", "f1"}, CellOf <- HomeOf, Crashes <- {"x1", "x2"},
    ProbeRows <- RowsOf, RawRequests <- [c \in {"h1", "h2"} |-> 1], LedgerRows <- LedgerOf,
    MaxOdd <- 1, SomeBugs <- PlantedBugs, SomeTraps <- Traps, MaxBugs <- 2, MaxTraps <- 1,
    SomeFiled <- Confirmed, MaxFiled <- 2, Conditions <- {"m", "h"},
    FamilyOf <- [c \in {"c1", "c2", "c3"} |-> IF c = "c3" THEN "y" ELSE "x"],
    tree <- h_tree, status <- h_status, metrics <- h_metrics, pool <- h_pool, odd <- h_odd,
    bugs <- g_bugs, traps <- g_traps, filed <- g_filed
BooksVars == <<h_tree, h_status, h_metrics, h_pool, h_odd>>
KeyVars == <<g_bugs, g_traps, g_filed>>

VARIABLES u_backend, u_kind, u_stream, u_spent, u_kids, u_spawned, u_tail, u_rollouts,
          u_row, u_ledger, u_marker, u_now
Spend == INSTANCE Usage WITH
    Backends <- {"claude", "codex", "oss", "grok", "gemini"}, Threads <- {1, 2},
    MaxSpend <- 3, MaxEvents <- 3, MaxRows <- 2, backend <- u_backend, kind <- u_kind,
    stream <- u_stream, spent <- u_spent, kids <- u_kids, spawned <- u_spawned,
    tail <- u_tail, rollouts <- u_rollouts, row <- u_row, ledger <- u_ledger,
    marker <- u_marker, now <- u_now
SpendVars == <<u_backend, u_kind, u_stream, u_spent, u_kids, u_spawned, u_tail, u_rollouts, u_row,
    u_ledger, u_marker, u_now>>

-----------------------------------------------------------------------------
\* A component that is not asked about rests in an initial state, or is absent.
BaseRests == Init
RunRests == FirstWorld
ResultsRests == PoolInit /\ bare = {}
BooksAbsent ==
    /\ h_tree = 0 /\ h_status = 0 /\ h_metrics = 0 /\ h_pool = 0 /\ h_odd = 0
KeyAbsent ==
    /\ g_bugs = 0 /\ g_traps = 0 /\ g_filed = 0
SpendAbsent ==
    /\ u_backend = 0 /\ u_kind = 0 /\ u_stream = 0 /\ u_spent = 0 /\ u_kids = 0 /\ u_spawned = 0 /\ u_tail = 0
    /\ u_rollouts = 0 /\ u_row = 0 /\ u_ledger = 0 /\ u_marker = 0 /\ u_now = 0
ReapingRests == ReapInit /\ alive = {Cell, Shell, Adopter} /\ ~blind

MCInit ==
    \/ part = "identity" /\ Init /\ RunRests /\ ResultsRests /\ BooksAbsent /\ KeyAbsent /\ SpendAbsent /\ ReapingRests
    \/ part = "run" /\ FirstWorld /\ BaseRests /\ ResultsRests /\ BooksAbsent /\ KeyAbsent /\ SpendAbsent /\ ReapingRests
    \/ part = "pool" /\ PoolInit /\ BaseRests /\ RunRests /\ BooksAbsent /\ KeyAbsent /\ SpendAbsent /\ ReapingRests
    \/ part = "harvest" /\ Books!Init /\ BaseRests /\ RunRests /\ ResultsRests /\ KeyAbsent /\ SpendAbsent /\ ReapingRests
    \/ part = "score" /\ Books!KeyInit /\ BaseRests /\ RunRests /\ ResultsRests /\ BooksAbsent /\ SpendAbsent /\ ReapingRests
    \/ part = "usage" /\ Spend!Init /\ BaseRests /\ RunRests /\ ResultsRests /\ BooksAbsent /\ KeyAbsent /\ ReapingRests
    \/ part = "reaper" /\ ReapInit /\ BaseRests /\ RunRests /\ ResultsRests /\ BooksAbsent /\ KeyAbsent /\ SpendAbsent

MCNext ==
    \/ part = "identity" /\ Next /\ UNCHANGED <<part, runVars, poolVars, BooksVars, KeyVars, SpendVars, reapVars>>
    \/ part = "run" /\ RunNext /\ UNCHANGED <<part, vars, poolVars, BooksVars, KeyVars, SpendVars, reapVars>>
    \/ part = "pool" /\ PoolNext /\ UNCHANGED <<part, vars, runVars, BooksVars, KeyVars, SpendVars, reapVars>>
    \/ part = "harvest" /\ Books!Next /\ UNCHANGED <<part, vars, runVars, poolVars, KeyVars, SpendVars, reapVars>>
    \/ part = "score" /\ Books!KeyNext /\ UNCHANGED <<part, vars, runVars, poolVars, BooksVars, SpendVars, reapVars>>
    \/ part = "usage" /\ Spend!Next /\ UNCHANGED <<part, vars, runVars, poolVars, BooksVars, KeyVars, reapVars>>
    \/ part = "reaper" /\ ReapNext /\ UNCHANGED <<part, vars, runVars, poolVars, BooksVars, KeyVars, SpendVars>>

mcVars == <<part, vars, runVars, poolVars, BooksVars, KeyVars, SpendVars, reapVars>>

MCSpec ==
    /\ MCInit /\ [][MCNext]_mcVars

\* Bounds: what goes wrong from outside, one or two things at a time.
MCBound ==
    /\ part = "identity" => Cardinality({p \in Products : work[p] # Absent}) <= IF rev = 0 /\ answers THEN 1 ELSE 0
    /\ part = "run" => /\ \A c, d \in Cells : Odd(cell[c]) /\ Odd(cell[d]) => c = d
                       /\ edits + kills <= 2
    /\ part = "pool" => Cardinality({1, 2, 3} \ current) + Cardinality(rebuilt) + killed <= 1
    /\ part = "harvest" => (h_tree["x2"].lane \in {"none", "open"} /\ ~h_tree["x2"].todo /\ h_tree["x2"].receipt \in {"none", "reportable"}
                           /\ (h_tree["x2"].lane = "open" => h_tree["x2"].trace # "none"))
    /\ part = "usage" => (u_ledger = <<>> \/ Len(u_stream) <= 1)

-----------------------------------------------------------------------------
\* What is harvested and aggregated adds up over demotions, unjudged artifacts and
\* clusterings that fail.
\* Under a manifest that validates, in whatever order it is written, an artifact is
\* credited to one bug or trap, and the scores of the conditions add up.
\* Spend reported as measured is exact, the audit's share is what was spent
\* before finalization, what is not known shows, and a rollout is read whole or
\* not at all.
NumbersKept ==
    /\ [](part = "harvest" => Books!HarvestAddsUp /\ Books!RowAddsUp /\ Books!RejectionsShown)
    /\ [](part = "score" => Books!CrashOwnerIsOne /\ Books!ClaimsAreApart /\ Books!ScoresAddUp)
    /\ [](part = "usage" => Spend!MeasuredIsExact /\ Spend!WallIsAudit /\ Spend!UnknownShows)
    /\ [][part = "usage" => Spend!RolloutCounted]_SpendVars

=============================================================================
