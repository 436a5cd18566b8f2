------------------------------ MODULE Harvest ------------------------------
(***************************************************************************)
(* The numbers of a benchmark (src/lib/benchmark.py): what harvest counts  *)
(* in a cell's results tree, and how aggregate folds the cells of a        *)
(* condition into one row, with the crashes a later gate took out of the   *)
(* published pool and the artifacts that were published unjudged; then the *)
(* scoring against an answer key: which manifests manifest_errors lets     *)
(* through, and to which planted bug or trap the two oracles credit a      *)
(* confirmed crash or finding.                                             *)
(*                                                                         *)
(* An artifact is its facts.  Reading a tree is one step: nothing writes   *)
(* to it any more.                                                         *)
(***************************************************************************)
EXTENDS Naturals, Sequences, FiniteSets, FiniteSetsExt, SequencesExt

CONSTANTS
    Cells, CondOf,  \* cells of a run and their conditions
    Arts, CellOf,   \* artifacts and the cells that file them
    Crashes,        \* the artifacts that are crashes; the others are findings
    ProbeRows,      \* per cell, the sanitizer runs of each row of runs.jsonl
    RawRequests,    \* per cell, requests read off the raw log
    LedgerRows,     \* per cell, rejections that never had a directory
    MaxOdd          \* bound on what changes after a review

VARIABLES
    tree,     \* artifact -> its facts
    status,   \* cell -> "running", "done", "incomplete"
    metrics,  \* cell -> {} or {its metrics.json}
    pool,     \* pool-members.json and the rejected clusters: {} or one record
    odd

vars == <<tree, status, metrics, pool, odd>>

Kinds == {"crash", "finding"}
OfKind(k) == IF k = "crash" THEN Crashes ELSE Arts \ Crashes
Security == {"reportable"}
Final == Security \cup {"not-reportable"}
LaneNames == Final \cup {"pending", "rejected", "legacy-provisional"}

Init ==
    /\ tree = [a \in Arts |-> [lane |-> "none", receipt |-> "none", current |-> FALSE, trace |-> "none", todo |-> FALSE]]
    /\ status = [c \in Cells |-> "running"]
    /\ metrics = [c \in Cells |-> {}]
    /\ pool = {} /\ odd = 0

-----------------------------------------------------------------------------
(* harvest *)

Open(c, k) == {a \in OfKind(k) : CellOf[a] = c /\ tree[a].lane = "open"}
Cut(c, k) == {a \in OfKind(k) : CellOf[a] = c /\ tree[a].lane = "cut"}

\* dir_has_sanitizer_output: a trace, and no rate of zero.
Reproduced(a) == tree[a].trace = "trace"

\* publication_state_names: a current final receipt, of a crash that reproduces.
Published(c, k) ==
    {a \in Open(c, k) : /\ tree[a].current /\ tree[a].receipt \in Final
                        /\ k = "crash" => Reproduced(a)}
Credited(c, k) == {a \in Published(c, k) : tree[a].receipt \in Security}

\* count_pending_crashes
PendingCrashes(c) == {a \in Open(c, "crash") : Reproduced(a) /\ tree[a].todo}

\* _finding_has_terminal_reject
RejectedInPlace(c) == {a \in Open(c, "finding") : tree[a].current /\ tree[a].receipt = "rejected"}

\* count_crashes_rejected and rejected_finding_names
Rejected(c, k) == Cardinality(Cut(c, k)) + IF k = "crash" THEN LedgerRows[c] ELSE 0

\* harvest_execution: the raw log is read only where no probe left a row, and a
\* confirmed crash is proof of a run.
Execution(c, floor) ==
    LET runs == MapThenSumSet(LAMBDA i : ProbeRows[c][i], DOMAIN ProbeRows[c]) IN
    [records |-> Len(ProbeRows[c]), invocations |-> IF runs < floor THEN floor ELSE runs,
     requests |-> IF ProbeRows[c] = <<>> THEN RawRequests[c] ELSE 0]

\* harvest_gate_states: a row's validation and the lane it is shown in.
Validation(a) == IF tree[a].current THEN tree[a].receipt ELSE "legacy-provisional"
Disposition(a) ==
    IF tree[a].lane = "cut" THEN "rejected"
    ELSE IF Validation(a) \notin Final \/ (a \in Crashes /\ tree[a].todo) THEN "pending" ELSE "accepted"
LaneOf(a) == IF Disposition(a) = "rejected" THEN "rejected" ELSE Validation(a)

\* validation_waterfall
Waterfall(c, k) ==
    LET rows == Open(c, k) \cup Cut(c, k) IN
    [candidates |-> Cardinality(rows),
     validated |-> Cardinality({a \in rows : Disposition(a) = "rejected" \/ Validation(a) \in Final}),
     reportable |-> Cardinality({a \in rows : Validation(a) \in Security}),
     lanes |-> [l \in LaneNames |-> Cardinality({a \in rows : LaneOf(a) = l})]]

AtLeast0(x, y) == IF x < y THEN 0 ELSE x - y

\* harvest, for one kind.
CountsOf(c, k) ==
    LET all == Cardinality(IF k = "crash" THEN {a \in Open(c, k) : Reproduced(a)} ELSE Open(c, k))
        final == Cardinality(Published(c, k))
        inPlace == IF k = "finding" THEN Cardinality(RejectedInPlace(c)) ELSE 0
    IN [filed |-> all, confirmed |-> Cardinality(Credited(c, k)), final |-> final, inPlace |-> inPlace,
        unadjudicated |-> AtLeast0(all, final + inPlace), rejected |-> Rejected(c, k),
        names |-> Credited(c, k), waterfall |-> Waterfall(c, k)]

HarvestOf(c) ==
    [counts |-> [k \in Kinds |-> CountsOf(c, k)], pending |-> Cardinality(PendingCrashes(c)),
     execution |-> Execution(c, Cardinality(Credited(c, "crash")))]

\* A cell that ended is harvested, and again by --regenerate; the pool that was
\* built of the old numbers is rebuilt.
Harvest(c) ==
    /\ status[c] # "running"
    /\ metrics' = [metrics EXCEPT ![c] = {HarvestOf(c)}]
    /\ pool' = {}
    /\ UNCHANGED <<tree, status, odd>>

-----------------------------------------------------------------------------
(* The pool *)

Done(cond) == {c \in Cells : CondOf[c] = cond /\ status[c] = "done"}
Conds == {CondOf[c] : c \in Cells}
Ready == \A c \in Cells : status[c] = "done" => metrics[c] # {}
M(c) == CHOOSE m \in metrics[c] : TRUE

\* build_pool takes what the metrics name, _pool_finding_names, and the
\* rejected directories; a clustering that fails finds no clusters.
BuildPool ==
    /\ Ready /\ pool = {} /\ \A c \in Cells : status[c] # "running"
    /\ LET cut(cond, k) == UNION {Cut(c, k) : c \in Done(cond)} IN
       \E broken \in BOOLEAN :
          pool' = {[members |-> UNION {M(c).counts[k].names : k \in Kinds, c \in {x \in Cells : status[x] = "done"}},
                    demoted |-> {}, unjudged |-> {},
                    dirs |-> [cond \in Conds |-> [k \in Kinds |-> Cardinality(cut(cond, k))]],
                    clusters |-> [cond \in Conds |-> [k \in Kinds |->
                        IF broken \/ cut(cond, k) = {} THEN 0 ELSE 1]]]}
    /\ UNCHANGED <<tree, status, metrics, odd>>

P == CHOOSE p \in pool : TRUE
Odd == odd < MaxOdd /\ odd' = odd + 1

\* A member's receipt does not hold when the pool is published.
Unjudge(a) ==
    /\ pool # {} /\ Odd /\ a \in P.members /\ a \notin P.demoted
    /\ pool' = {[P EXCEPT !.unjudged = @ \cup {a}]}
    /\ UNCHANGED <<tree, status, metrics>>

\* A gate over the published pool moves a crash; _reconcile_demoted_pool_crashes
\* then books it with the rejected.
Demote(a) ==
    /\ pool # {} /\ Odd /\ a \in P.members \cap Crashes /\ a \notin P.demoted \cup P.unjudged
    /\ pool' = {[P EXCEPT !.demoted = @ \cup {a}, !.dirs[CondOf[CellOf[a]]]["crash"] = @ + 1,
                          !.clusters[CondOf[CellOf[a]]]["crash"] = 1]}
    /\ UNCHANGED <<tree, status, metrics>>

-----------------------------------------------------------------------------
(* aggregate *)

Sum(cond, k, field) == MapThenSumSet(LAMBDA c : M(c).counts[k][field], Done(cond))
Gone(c) == Cardinality({a \in P.demoted \cup P.unjudged : a \in Crashes /\ CellOf[a] = c})
OfCond(S, cond, k) == Cardinality({a \in S \cap OfKind(k) : CondOf[CellOf[a]] = cond})

\* Bug: a demoted crash is added to the rejected and not taken out.
CrashTotalKept(cond) == Sum(cond, "crash", "confirmed")

\* The per-cell numbers, less what left the accepted pool.
CrashTotal(cond) ==
    MapThenSumSet(LAMBDA c : AtLeast0(M(c).counts["crash"].confirmed, Gone(c)), Done(cond))

\* Reproduced crashes a reviewer placed outside the declared controls.
Retained(cond, k) ==
    MapThenSumSet(LAMBDA c : AtLeast0(M(c).counts[k].final, M(c).counts[k].confirmed), Done(cond))

\* What one condition's row says of a kind.
RowOf(cond, k) ==
    LET demoted == OfCond(P.demoted, cond, k)
        unjudged == OfCond(P.unjudged, cond, k)
    IN [confirmed |-> IF k = "crash" THEN CrashTotal(cond) ELSE AtLeast0(Sum(cond, k, "confirmed"), unjudged),
        retained |-> Retained(cond, k),
        unadjudicated |-> Sum(cond, k, "unadjudicated") + unjudged,
        rejected |-> Sum(cond, k, "rejected") + Sum(cond, k, "inPlace") + demoted,
        filed |-> Sum(cond, k, "filed") + Sum(cond, k, "rejected")]

\* _sum_cell_waterfalls, and what was published unjudged moved to pending.
LanesOf(cond, k) ==
    LET sum(l) == MapThenSumSet(LAMBDA c : M(c).counts[k].waterfall.lanes[l], Done(cond))
        unjudged == OfCond(P.unjudged, cond, k)
        moved == IF unjudged < sum("reportable") THEN unjudged ELSE sum("reportable")
    IN [l \in LaneNames |-> CASE l = "reportable" -> sum(l) - moved
                               [] l = "pending" -> sum(l) + moved
                               [] OTHER -> sum(l)]

\* _unique_rejected: directories without a cluster are a clustering that failed.
UniqueRejected(cond, k) ==
    LET raw == RowOf(cond, k).rejected
        dirs == P.dirs[cond][k]
        clusters == P.clusters[cond][k]
    IN IF dirs > 0 /\ clusters = 0 THEN raw ELSE clusters + AtLeast0(raw, dirs)

-----------------------------------------------------------------------------
(* The cells at work *)

Change(a, facts) ==
    /\ tree' = [tree EXCEPT ![a] = facts]
    /\ UNCHANGED <<status, metrics, pool>>

File(a) ==
    /\ tree[a].lane = "none" /\ status[CellOf[a]] = "running"
    /\ \E t \in {"trace", "none"}, todo \in BOOLEAN :
          Change(a, [tree[a] EXCEPT !.lane = "open", !.trace = IF a \in Crashes THEN t ELSE "none",
                                    !.todo = (a \in Crashes /\ todo)])
    /\ UNCHANGED odd

\* Triage, also after the wall: a crash without a trace is never final.
Judge(a) ==
    /\ tree[a].lane = "open" /\ metrics[CellOf[a]] = {}
    /\ \E s \in Final \cup {"pending", "rejected"} :
          /\ a \in Crashes /\ s \in Final => Reproduced(a)
          /\ Change(a, [tree[a] EXCEPT !.receipt = s, !.current = TRUE])
    /\ UNCHANGED odd

MoveRejected(a) ==
    /\ tree[a].lane = "open" /\ tree[a].current /\ tree[a].receipt = "rejected" /\ metrics[CellOf[a]] = {}
    /\ Change(a, [tree[a] EXCEPT !.lane = "cut"])
    /\ UNCHANGED odd

\* An edit outdates the receipt; a rate of zero is bound to it again.
Later(a) ==
    /\ tree[a].lane = "open" /\ Odd
    /\ \/ Change(a, [tree[a] EXCEPT !.current = FALSE])
       \/ tree[a].trace = "trace" /\ Change(a, [tree[a] EXCEPT !.trace = "zero"])

End(c) ==
    /\ status[c] = "running"
    /\ \E s \in {"done", "incomplete"} : status' = [status EXCEPT ![c] = s]
    /\ UNCHANGED <<tree, metrics, pool, odd>>

Next ==
    \/ \E a \in Arts : File(a) \/ Judge(a) \/ MoveRejected(a) \/ Later(a) \/ Unjudge(a) \/ Demote(a)
    \/ \E c \in Cells : End(c) \/ Harvest(c)
    \/ BuildPool

-----------------------------------------------------------------------------
(* Properties of the numbers *)

\* What harvest says of a cell adds up: each filed artifact is credited,
\* retained, rejected in place or unadjudicated, each row has one lane, and the
\* runs cover the crashes.
HarvestAddsUp ==
    \A c \in Cells : \A m \in metrics[c] : \A k \in Kinds :
        LET n == m.counts[k] IN
        /\ n.filed = n.final + n.inPlace + n.unadjudicated
        /\ n.waterfall.candidates = MapThenSumSet(LAMBDA l : n.waterfall.lanes[l], LaneNames)
        /\ n.waterfall.reportable >= n.confirmed /\ n.waterfall.validated >= n.final
        /\ m.execution.invocations >= m.counts["crash"].confirmed
        /\ m.execution.records > 0 => m.execution.requests = 0

\* No artifact of a condition's completed cells is lost or counted twice,
\* whatever left the pool after they were harvested, and the lanes agree with
\* the headline of the findings.
RowAddsUp ==
    pool # {} => \A cond \in Conds : \A k \in Kinds :
        LET r == RowOf(cond, k) IN
        /\ r.confirmed + r.retained + r.unadjudicated + r.rejected = r.filed
        /\ k = "finding" => LanesOf(cond, k)["reportable"] = r.confirmed

\* Rejections never read as none because their clustering failed, nor as more
\* than there were.
RejectionsShown ==
    pool # {} => \A cond \in Conds : \A k \in Kinds :
        LET u == UniqueRejected(cond, k)
            raw == RowOf(cond, k).rejected
        IN u <= raw /\ (raw > 0 => u > 0)

-----------------------------------------------------------------------------
(* The answer key: a file is a directory and a base name; 0 for the directory is
   a bare base name, Nowhere is no file.  A symbol stands for its trailing
   identifier, a class for its canonical form. *)

CONSTANTS
    SomeBugs, SomeTraps, \* entries a manifest may have
    MaxBugs, MaxTraps,   \* bounds on a manifest
    SomeFiled, MaxFiled, \* artifacts that may be confirmed, bound on them
    Conditions,          \* conditions of a benchmark
    FamilyOf             \* class -> its family

VARIABLES
    bugs, traps, \* the manifest, in its order
    filed        \* confirmed artifacts: sets of records

keyVars == <<bugs, traps, filed>>

Nowhere == <<>>
KeyInit == bugs = <<>> /\ traps = <<>> /\ filed = {}

-----------------------------------------------------------------------------
(* Sites *)

\* _same_source_file: exact where both are qualified, else by base name.
SameFile(a, b) ==
    /\ a # Nowhere /\ b # Nowhere
    /\ IF a[1] # 0 /\ b[1] # 0 THEN a = b ELSE a[2] = b[2]

\* _manifest_file_allows
FileAllows(e, found) == e.file = Nowhere \/ SameFile(e.file, found)

\* _entries_may_share_a_site
MayShare(e, f) == e.file = Nowhere \/ f.file = Nowhere \/ SameFile(e.file, f.file)

\* A bug's signatures: its own, which asks for no access, and its alternates.
Signatures(b) == {[prim |-> b.prim, sym |-> b.sym, access |-> ""]} \cup b.alts
Symbols(b) == {s.sym : s \in Signatures(b)}

\* _entry_admits_class
Admits(e, class) == e.classes = {} \/ class \in e.classes

-----------------------------------------------------------------------------
(* manifest_errors *)

Pairs(s) == {<<i, j>> \in (DOMAIN s) \X (DOMAIN s) : i < j}

\* A match key twice in a list, where the entries may share a site.
KeyClashes ==
    \/ \E p \in Pairs(bugs) : LET b == bugs[p[1]]
                                  c == bugs[p[2]]
                              IN b.prim = c.prim /\ b.sym = c.sym /\ MayShare(b, c)
    \/ \E p \in Pairs(traps) : LET t == traps[p[1]]
                                   u == traps[p[2]]
                               IN t.outcome = u.outcome /\ t.sym = u.sym /\ MayShare(t, u)

\* Bug: only the classes both name overlap.
ClassesOverlapNamed(b, t) == b.classes \cap t.classes # {}

\* An omitted list of classes is a wildcard.
ClassesOverlap(b, t) == b.classes = {} \/ t.classes = {} \/ b.classes \cap t.classes # {}

TrapClashes ==
    \E b \in Range(bugs), t \in Range(traps) :
        /\ b.only /\ t.outcome = "clean"
        /\ ClassesOverlap(b, t) /\ t.sym \in Symbols(b) /\ MayShare(b, t)

\* A runtime key twice, of two bugs or one; no access overlaps any.
RuntimeClashes ==
    \/ \E p \in Pairs(bugs) : \E s \in Signatures(bugs[p[1]]), r \in Signatures(bugs[p[2]]) :
           /\ s.prim = r.prim /\ s.sym = r.sym /\ (s.access = "" \/ r.access = "" \/ s.access = r.access)
           /\ MayShare(bugs[p[1]], bugs[p[2]])
    \/ \E b \in Range(bugs) : \E s, r \in Signatures(b) :
           s # r /\ s.prim = r.prim /\ s.sym = r.sym /\ (s.access = "" \/ r.access = "" \/ s.access = r.access)

Valid == ~KeyClashes /\ ~TrapClashes /\ ~RuntimeClashes

-----------------------------------------------------------------------------
(* The oracles *)

First(list, Test(_)) == LET hits == SelectSeq(list, Test) IN IF hits = <<>> THEN {} ELSE {hits[1]}

\* _attribution_evidence: none without the sanitizer's own output.
Evidence(x) == x.kind = "crash" /\ x.prim # ""

\* _match_real
Fits(x, s) == s.prim = x.prim /\ s.sym \in x.site /\ (s.access = "" \/ s.access = x.access)
Scored(list, only) == SelectSeq(list, LAMBDA b : b.only = only /\ ~b.quarantined)
MatchReal(x, list) == First(Scored(list, FALSE), LAMBDA b : \E s \in Signatures(b) : Fits(x, s))

\* _match_trap: a clean trap expects no crash.
MatchTrap(x, list) == First(list, LAMBDA t : t.outcome # "clean" /\ t.outcome = x.prim /\ t.sym \in x.site)

\* What score_ground_truth books a crash as.
BookCrash(x, bs, ts) ==
    IF ~Evidence(x) THEN <<"unattributed", {}>>
    ELSE IF MatchReal(x, bs) # {} THEN <<"bug", MatchReal(x, bs)>>
    ELSE IF MatchTrap(x, ts) # {} THEN <<"trap", MatchTrap(x, ts)>>
    ELSE <<"unexpected", {}>>

\* score_findings_ground_truth: the class settles a shared function, the family
\* only where there is nothing to tell apart.
BookFinding(x, bs, ts) ==
    LET bugsHere == SelectSeq(Scored(bs, TRUE), LAMBDA b : x.sym \in Symbols(b) /\ FileAllows(b, x.file))
        trapsHere == SelectSeq(ts, LAMBDA t : t.outcome = "clean" /\ x.sym = t.sym /\ FileAllows(t, x.file))
        byClass == First(bugsHere, LAMBDA b : Admits(b, x.class))
        byFamily == IF Len(bugsHere) = 1 /\ trapsHere = <<>>
                    THEN First(bugsHere, LAMBDA b : \E c \in b.classes : FamilyOf[c] = FamilyOf[x.class]) ELSE {}
        hit == IF byClass # {} THEN byClass ELSE byFamily
        declared == IF bugsHere = <<>> THEN {} ELSE First(trapsHere, LAMBDA t : x.class \in t.classes)
        trap == IF declared # {} THEN declared ELSE First(trapsHere, LAMBDA t : Admits(t, x.class))
    IN IF hit # {} THEN <<"bug", hit>> ELSE IF trap # {} THEN <<"trap", trap>> ELSE <<"open", {}>>

Book(x, bs, ts) == IF x.kind = "crash" THEN BookCrash(x, bs, ts) ELSE BookFinding(x, bs, ts)

\* What a table of the artifacts of conditions says; artifacts published
\* unjudged are skipped.
Of(kind, conditions) == {x \in filed : x.kind = kind /\ x.cond \in conditions /\ x.judged}
Booked(kind, conditions, as) == Cardinality({x \in Of(kind, conditions) : Book(x, bugs, traps)[1] = as})
Detected(kind, conditions) == UNION {Book(x, bugs, traps)[2] : x \in {y \in Of(kind, conditions) : Book(y, bugs, traps)[1] = "bug"}}
Score(kind, conditions) ==
    LET only == (kind = "finding")
        fp == Booked(kind, conditions, "trap") + IF only THEN 0 ELSE Booked(kind, conditions, "unexpected") + Booked(kind, conditions, "unattributed")
    IN [detected |-> Detected(kind, conditions), missed |-> Range(Scored(bugs, only)) \ Detected(kind, conditions),
        tp |-> Booked(kind, conditions, "bug"), fp |-> fp, total |-> Cardinality(Of(kind, conditions)),
        open |-> Booked(kind, conditions, "open")]

-----------------------------------------------------------------------------
(* Manifests and artifacts *)

Plant(b) ==
    /\ filed = {} /\ Len(bugs) < MaxBugs /\ b \notin Range(bugs)
    /\ bugs' = Append(bugs, b)
    /\ UNCHANGED <<traps, filed>>

Trap(t) ==
    /\ filed = {} /\ Len(traps) < MaxTraps /\ t \notin Range(traps)
    /\ traps' = Append(traps, t)
    /\ UNCHANGED <<bugs, filed>>

\* A confirmed artifact of a scored benchmark, its function named by some entry.
Confirm(x) ==
    /\ Valid /\ Cardinality(filed) < MaxFiled
    /\ filed' = filed \cup {x}
    /\ UNCHANGED <<bugs, traps>>

KeyNext ==
    \/ \E b \in SomeBugs : Plant(b)
    \/ \E t \in SomeTraps : Trap(t)
    \/ \E x \in SomeFiled : Confirm(x)

-----------------------------------------------------------------------------
(* Properties of the scores *)

\* Bugs the crash oracle cannot tell apart although manifest_errors lets them
\* through: one key, two files.  It never looks at a file.
Twins(b, c) == b # c /\ ~MayShare(b, c) /\ \E s \in Signatures(b), r \in Signatures(c) : s.prim = r.prim /\ s.sym = r.sym

\* A manifest that validates credits a crash to the same bug or trap in
\* whatever order it lists them.
CrashOwnerIsOne ==
    Valid => \A x \in filed : x.kind = "crash" =>
        \/ Book(x, bugs, traps) = Book(x, Reverse(bugs), Reverse(traps))
        \/ \E b, c \in Range(bugs) : Twins(b, c)
        \/ \E t, u \in Range(traps) : t # u /\ t.outcome = u.outcome /\ t.sym = u.sym /\ ~MayShare(t, u)

\* A finding that a planted bug admits is nobody's refuted claim: no clean trap
\* at its function admits it too, unless the report names a bare file that could
\* be either one's.
ClaimsAreApart ==
    Valid => \A x \in filed : x.kind = "finding" =>
        \A b \in Range(bugs), t \in Range(traps) :
            /\ b.only /\ t.outcome = "clean" /\ x.sym \in Symbols(b) /\ x.sym = t.sym
            /\ FileAllows(b, x.file) /\ FileAllows(t, x.file) /\ Admits(b, x.class) /\ Admits(t, x.class)
            => x.file # Nowhere /\ x.file[1] = 0 /\ ~MayShare(b, t)

\* A detected bug is scored and named by a judged artifact; a condition's table
\* leaves no artifact out, and the tables of the conditions add up to the whole.
ScoresAddUp ==
    \A kind \in {"crash", "finding"} :
        LET all == Score(kind, Conditions) IN
        /\ all.detected \subseteq Range(Scored(bugs, kind = "finding"))
        /\ all.tp + all.fp + all.open = all.total
        /\ all.detected = UNION {Score(kind, {c}).detected : c \in Conditions}
        /\ all.missed = {b \in Range(Scored(bugs, kind = "finding")) : \A c \in Conditions : b \in Score(kind, {c}).missed}
        /\ Of(kind, Conditions) = {} => all.detected = {}
=============================================================================
