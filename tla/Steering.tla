------------------------------ MODULE Steering ------------------------------
(***************************************************************************)
(* What steers an agent (src/lib/workqueue.py, src/lib/callgraph.py): what *)
(* a resume tells it of the runs made so far, and the commits, prior fixes *)
(* and callers the work cards are made of.                                 *)
(*                                                                         *)
(* A resume reads; the card it claims is claimed by WorkQueue.  A run is   *)
(* its hypothesis and how it came out, with the signals its saved output   *)
(* shows.  A refresh of the cards is a run of bin/patch-cards, which scans *)
(* the history, and one of bin/rank-work, which refreshes the call graph   *)
(* and lists the files (RankWindow chooses among them).                    *)
(***************************************************************************)
EXTENDS Integers, Sequences, FiniteSets, FiniteSetsExt, SequencesExt

CONSTANTS
    Agents, Hyps, Cards,
    AgentOf, CardOf,  \* hypothesis -> its agent, its card ("" for none)
    Outcomes,         \* how a run may come out
    Limit,            \* STATE_RESUME_RECENT_LIMIT
    StreakMin,        \* _EXECUTION_FAILURE_STREAK_MIN
    MaxRuns           \* bound on runs.jsonl

CONSTANTS
    Repos,            \* of "full", "shallow", "gitfile" (a worktree of a shallow clone), "none"
    Sinces, Heads,    \* what --since may name, where HEAD may be
    Commits, Behind,  \* commits by date, and those each reaches, itself included
    Touched, AllFiles, Callers,  \* files a commit changes, all files, file -> files calling it
    Named, Chores, Releases,     \* commits whose message names a defect, upkeep of the CI, a release
    Dated, Boundary,  \* commits within the lookback, commits cut off from their parents
    Scanned, Budget, Cap,         \* commits scanned, commits inspected, cards kept
    MaxMoves, MaxRounds          \* bounds

VARIABLES
    status,  \* hypothesis -> "none", "active", "filed", "rejected", "closed"
    order,   \* the hypotheses by updated_at, newest first
    runs     \* runs.jsonl

resumeVars == <<status, order, runs>>

ResumeInit ==
    /\ status = [h \in Hyps |-> "none"]
    /\ order = <<>> /\ runs = <<>>

-----------------------------------------------------------------------------
(* The agents and the triage at work *)

\* A write to a row of hypotheses.jsonl stamps it.
Write(h, s) ==
    /\ status' = [status EXCEPT ![h] = s]
    /\ order' = <<h>> \o SelectSeq(order, LAMBDA g : g # h)
    /\ UNCHANGED runs

AddHyp(h) == status[h] = "none" /\ Write(h, "active")

\* The agent names the artifact it filed, or closes the hypothesis.
File(h) ==
    /\ status[h] = "active"
    /\ \E i \in DOMAIN runs : runs[i].hyp = h /\ runs[i].verdict \in {"CRASH", "FIND"} /\ ~runs[i].notFiled
    /\ Write(h, "filed")

Drop(h) == status[h] = "active" /\ Write(h, "closed")

\* Triage replaces the status by DISCARDED with its note, or puts it back.
Reject(h) == status[h] = "filed" /\ Write(h, "rejected")
Reconsider(h) == status[h] = "rejected" /\ Write(h, "filed")

Newest == IF runs = <<>> THEN 0 ELSE Max({runs[i].at : i \in DOMAIN runs})
LastAgent == IF runs = <<>> THEN "" ELSE AgentOf[runs[Len(runs)].hyp]

\* A stamp is older than the last row's where another agent's append overtook
\* it; an explicit class is kept of an EXEC_FAIL only.
Run(h) ==
    /\ status[h] # "none" /\ Len(runs) < MaxRuns
    /\ \E o \in Outcomes :
       \E at \in {Newest + 2} \cup (IF LastAgent \notin {"", AgentOf[h]} THEN {Newest - 1} ELSE {}) :
          runs' = Append(runs, [hyp |-> h, at |-> at, verdict |-> o.verdict,
                                class |-> IF o.verdict = "EXEC_FAIL" THEN o.class ELSE "",
                                signals |-> o.signals, notFiled |-> o.notFiled])
    /\ UNCHANGED <<status, order>>

ResumeNext ==
    \E h \in Hyps : AddHyp(h) \/ File(h) \/ Drop(h) \/ Reject(h) \/ Reconsider(h) \/ Run(h)

-----------------------------------------------------------------------------
(* What a resume looks at *)

Active(a) == SelectSeq(order, LAMBDA h : AgentOf[h] = a /\ status[h] = "active")

\* The newest active hypothesis; else the card that was claimed, whoever worked
\* on it; else, with an unfinished crash or no card, the agent's own rows.
HypScope(h) == [agent |-> AgentOf[h], hyp |-> h, card |-> CardOf[h]]
CardScope(c) == [agent |-> "", hyp |-> "", card |-> c]
AgentScope(a) == [agent |-> a, hyp |-> "", card |-> ""]
Scopes(a) ==
    IF Active(a) # <<>> THEN {HypScope(Head(Active(a)))}
    ELSE {AgentScope(a)} \cup {CardScope(c) : c \in Cards}

\* Bug: the card of an active hypothesis is the scope of all it is told.
InScopeOfCard(h, s) == IF s.card # "" THEN CardOf[h] = s.card ELSE AgentOf[h] = s.agent

InScope(h, s) ==
    /\ s.agent # "" => AgentOf[h] = s.agent
    /\ IF s.hyp # "" THEN h = s.hyp ELSE s.card # "" => CardOf[h] = s.card

\* A streak is the memory of the card, where there is one.
InStreakScope(h, s) == IF s.card # "" THEN CardOf[h] = s.card ELSE InScope(h, s)

\* By stamp, and by append where second-resolution stamps tie.
Later(i, j) == runs[i].at > runs[j].at \/ (runs[i].at = runs[j].at /\ i > j)
NewestFirst(S) == SetToSortSeq(S, Later)
FirstOf(q, n) == IF n > 0 /\ Len(q) > n THEN SubSeq(q, 1, n) ELSE q

Shown(s) == FirstOf(NewestFirst({i \in DOMAIN runs : InScope(runs[i].hyp, s)}), Limit)
With(s, st) == {h \in Hyps : InScope(h, s) /\ status[h] = st}

\* _consecutive_execution_failure_class
Streak(s) ==
    LET q == NewestFirst({i \in DOMAIN runs : InStreakScope(runs[i].hyp, s)})
        same(n) == \A k \in 1 .. n : runs[q[k]].class # "" /\ runs[q[k]].class = runs[q[1]].class
    IN IF q = <<>> THEN [class |-> "", count |-> 0]
       ELSE [class |-> runs[q[1]].class, count |-> Max({n \in 0 .. Len(q) : same(n)})]

-----------------------------------------------------------------------------
(* runtime_feedback *)

\* A crash bin/probe declined to file, or one triage rejected.
TurnedDown(i, s) ==
    \/ runs[i].verdict = "CRASH" /\ runs[i].notFiled
    \/ runs[i].verdict \in {"CRASH", "FIND"} /\ runs[i].hyp \in With(s, "rejected")
Candidate(i, s) ==
    runs[i].verdict \in {"CRASH", "FIND"} /\ ~TurnedDown(i, s) /\ runs[i].hyp \notin With(s, "filed")

\* _runtime_row_signals: what the head of the saved output shows.
Showing(these, x) == Cardinality({i \in these : x \in runs[i].signals})

Half(n) == IF n < 2 THEN 1 ELSE n \div 2
Rung(when, say) == [when |-> when, say |-> say]

\* _runtime_feedback_decision: the first that applies.
Ladder(rows, s, streak) ==
    LET of(V) == Cardinality({i \in rows : runs[i].verdict \in V})
        showing(x) == Showing(rows, x)
        total == Cardinality(rows)
        recorded == of({"CRASH", "FIND"})
        rejected == Cardinality({i \in rows : TurnedDown(i, s)})
        filed == With(s, "filed") # {}
        long == streak.count >= StreakMin
    IN << Rung(total = 0 /\ ~filed /\ ~long, "no-runtime-evidence"),
          Rung(recorded > 0 /\ rejected >= recorded /\ ~filed, "artifact-rejected"),
          Rung((\E i \in rows : Candidate(i, s)) \/ (recorded > 0 /\ ~filed), "artifact-candidate"),
          Rung(filed, "artifact-recorded"),
          Rung(of({"PROPERTY"}) > 0, "property-counterexample"),
          Rung(showing("crash-signal") > 0, "artifact-mismatch"),
          Rung(total > 0 /\ of({"NO_EXEC"}) = total /\ showing("budget-exhausted") >= total, "budget-exhausted"),
          Rung(total > 0 /\ of({"NO_EXEC"}) = total, "harness-setup"),
          Rung(showing("near-miss") > 0, "near-miss-targeting"),
          Rung(long, "streak"),
          Rung(showing("format-reject") >= Half(total), "seed-format"),
          Rung(of({"NO_HIT", "MISSED"}) >= Half(total), "coverage-routing"),
          Rung(of({"TIMEOUT", "TIMEOUT_ONLY"}) >= Half(total), "timeout-budget"),
          Rung(of({"CLEAN"}) = total /\ total >= 2, "clean-no-diagnostic"),
          Rung(of({"EXEC_FAIL"}) >= Half(total), "execution-incomplete"),
          Rung(TRUE, "mixed-signal") >>

Say(rows, s, streak) ==
    LET ladder == Ladder(rows, s, streak)
    IN ladder[Min({k \in DOMAIN ladder : ladder[k].when})].say

Diagnosis(s) == Say(Range(Shown(s)), s, Streak(s))

-----------------------------------------------------------------------------
(* Properties of what an agent is told *)

\* The runs of S that Limit or more others of S are not newer than.
Recent(S) == {i \in S : Cardinality({j \in S : Later(j, i)}) < Limit}
RunsOf(h) == {i \in DOMAIN runs : runs[i].hyp = h}
RunsOn(c) == {i \in DOMAIN runs : CardOf[runs[i].hyp] = c}

\* An active hypothesis is told of its own unfiled crash however many runs its
\* siblings make on the card, and until Limit newer runs of its own.
CandidateShown ==
    \A a \in Agents : Active(a) # <<>> =>
        LET h == Head(Active(a)) IN
        (\E i \in Recent(RunsOf(h)) : runs[i].verdict \in {"CRASH", "FIND"} /\ ~runs[i].notFiled)
            => Diagnosis(HypScope(h)) = "artifact-candidate"

\* On a card that changes hands, one worker's filed artifact does not stand for
\* another's unfiled one, nor one rejection for all.
NoneStranded ==
    \A c \in Cards : Diagnosis(CardScope(c)) \in {"artifact-recorded", "artifact-rejected"} =>
        \A i \in Recent(RunsOn(c)) :
            runs[i].verdict \in {"CRASH", "FIND"} =>
                runs[i].notFiled \/ status[runs[i].hyp] \in {"filed", "rejected"}

\* What siblings do to a hypothesis' diagnosis is at most a streak: the newest
\* StreakMin runs of the card, all failed in one way.
SiblingsOnlyStreak ==
    \A a \in Agents : Active(a) # <<>> =>
        LET h == Head(Active(a))
            alone == Say(Recent(RunsOf(h)), HypScope(h), [class |-> "", count |-> 0])
            on == IF CardOf[h] = "" THEN RunsOf(h) ELSE RunsOn(CardOf[h])
            tail == {i \in on : Cardinality({j \in on : Later(j, i)}) < StreakMin}
        IN Diagnosis(HypScope(h)) # alone =>
              /\ Diagnosis(HypScope(h)) = "streak" /\ Cardinality(tail) = StreakMin
              /\ \E k \in {runs[i].class : i \in on} \ {""} : \A i \in tail : runs[i].class = k

\* An agent is sent to repair its harness only when none of the runs shown
\* executed and a spent budget does not account for all of them.
RepairIsFor ==
    \A a \in Agents : \A s \in Scopes(a) :
        Diagnosis(s) = "harness-setup" =>
            /\ \A i \in Range(Shown(s)) : runs[i].verdict = "NO_EXEC"
            /\ \E i \in Range(Shown(s)) : "budget-exhausted" \notin runs[i].signals

-----------------------------------------------------------------------------
(* The commits, prior fixes and callers the cards are made of *)

VARIABLES
    repo, since, head, dirty, art,  \* the checkout, REV, HEAD, tracked edits, the built artifact
    phase,          \* where the refresh stands
    begun, clean,   \* the inputs it began with, the inputs of the last clean one
    scope, rows, cards,   \* the range, the commits of the log, patch-cards.jsonl
    graph, sig,     \* the call graph, the inputs it is being refreshed for
    queue,          \* work-cards.jsonl
    odd,            \* what moved or failed during this refresh
    moves, rounds

checkout == <<repo, since, head, dirty, art>>
stamps == <<begun, clean>>
found == <<scope, rows, cards>>
map == <<graph, sig>>
bounds == <<moves, rounds>>
historyVars == <<checkout, phase, stamps, found, map, queue, odd, bounds>>

Whole == 0      \* no --since
Nothing == [sig |-> <<>>]

Inputs == <<head, dirty, art>>
Known == repo # "none"

\* vcs_source_signature and callgraph.cache_signature: nothing without a VCS.
Signature == IF Known THEN Inputs ELSE <<>>

HistoryInit ==
    /\ repo \in Repos /\ since \in Sinces /\ head \in Heads
    /\ dirty \in BOOLEAN /\ art = 0
    /\ phase = "off" /\ begun = <<>> /\ clean = <<>>
    /\ scope = [head |-> 0, commits |-> {}] /\ rows = {} /\ cards = {}
    /\ graph = Nothing /\ sig = <<>> /\ queue = [cards |-> {}, files |-> {}, ranked |-> FALSE]
    /\ odd = {} /\ moves = 0 /\ rounds = 0

-----------------------------------------------------------------------------
(* delta_scope *)

\* The commits of HEAD that REV does not reach, and the files those change,
\* from the merge base on.
CommitsSince(h) == Behind[h] \ Behind[since]
FilesOf(S) == UNION {Touched[c] : c \in S}

\* Bug: two dots, what differs between the two revisions.
ChangedTwoDots(h) == FilesOf((Behind[h] \ Behind[since]) \cup (Behind[since] \ Behind[h]))
Changed(h) == FilesOf(CommitsSince(h))

\* REV is a commit of the checkout and the tracked files are those of HEAD.
Resolves == Known /\ since \in Commits /\ ~dirty

\* A call of the VCS may fail: then there is no scope.
Launch ==
    /\ phase = "off"
    /\ \/ (since = Whole \/ Resolves) /\ phase' = "idle"
       \/ since # Whole /\ phase' = "refused"
    /\ UNCHANGED <<checkout, stamps, found, map, queue, odd, bounds>>

\* The inputs are not those of the last clean refresh.
Begin ==
    /\ phase = "idle" /\ (Signature = <<>> \/ Signature # clean) /\ rounds < MaxRounds
    /\ begun' = Signature /\ odd' = {} /\ rounds' = rounds + 1 /\ phase' = "scope"
    /\ UNCHANGED <<checkout, clean, found, map, queue, moves>>

Scope ==
    /\ phase = "scope"
    /\ \/ /\ since = Whole \/ Resolves
          /\ scope' = IF since = Whole THEN scope ELSE [head |-> head, commits |-> CommitsSince(head)]
          /\ phase' = "log" /\ UNCHANGED <<cards, odd>>
       \/ /\ since # Whole   \* the generator fails and its cards are removed
          /\ cards' = {} /\ odd' = odd \cup {"failed"} /\ phase' = "sign" /\ UNCHANGED scope
    /\ UNCHANGED <<checkout, stamps, rows, map, queue, bounds>>

-----------------------------------------------------------------------------
(* build_patch_cards *)

\* A later commit has a higher number.
NewestOf(S, n) == {c \in S : Cardinality({d \in S : d > c}) < n}

\* _patch_scan_window
WithinLookback == Behind[head] \cap Dated

\* The range, as far as it is counted; else a bounded window of recent commits,
\* or of any when none is recent.
LogRows ==
    IF since # Whole THEN NewestOf(Behind[head] \ Behind[since], Cardinality(scope.commits))
    ELSE IF WithinLookback # {} THEN NewestOf(WithinLookback, Scanned)
    ELSE NewestOf(Behind[head], Scanned)

\* A log that fails has no rows; where it is bounded by date, the other is tried.
Log ==
    /\ phase = "log" /\ phase' = "inspect"
    /\ \/ rows' = (IF Known THEN LogRows ELSE {}) /\ UNCHANGED odd
       \/ /\ Known /\ odd' = odd \cup {"silent"}
          /\ \E got \in {{}} \cup (IF since = Whole THEN {NewestOf(Behind[head], Scanned)} ELSE {}) : rows' = got
    /\ UNCHANGED <<checkout, stamps, scope, cards, map, queue, bounds>>

\* The budget goes to the commits that name a defect, then to the newest; a
\* range is inspected whole.
Before(c, d) == (c \in Named /\ d \notin Named) \/ ((c \in Named <=> d \in Named) /\ c > d)
Inspected ==
    IF since # Whole THEN rows
    ELSE {c \in rows : Cardinality({d \in rows : Before(d, c)}) < Budget}

\* _git_shallow_boundary reads .git/shallow, where .git is a directory.
Truncated == IF repo = "shallow" THEN Boundary ELSE {}

\* commit_files: a commit without its parents seems to add every file.
Seen(c) == IF c \in Boundary /\ repo \in {"shallow", "gitfile"} THEN AllFiles ELSE Touched[c]
FilesShown(c, blind) == IF c \in Inspected \ (Truncated \cup blind) THEN Seen(c) ELSE {}

\* is_non_audit_patch_description
Audited(p) ==
    \/ p.commit \in Named
    \/ p.commit \notin Releases /\ (p.commit \in Chores => p.files # {})

\* The order of the cards, and the key one of each is kept by.
Points(p) == (IF Cardinality(p.files) > 10 THEN 30 ELSE 3 * Cardinality(p.files))
             + (IF p.commit \in Named THEN 20 ELSE 0) - (IF p.files = {} THEN 10 ELSE 0)
Better(p, q) == Points(p) > Points(q) \/ (Points(p) = Points(q) /\ p.commit < q.commit)
KeyOf(p) == IF since # Whole \/ p.files = {} THEN <<"id", p.commit>> ELSE <<"file", Min(p.files)>>

Inspect ==
    /\ phase = "inspect" /\ phase' = "sign"
    /\ \E blind \in {{}} \cup {{c} : c \in rows} :
          LET all == {[commit |-> c, files |-> FilesShown(c, blind)] : c \in rows}
              fixes == {p \in all : Audited(p)}
              kept == {p \in fixes : \A q \in fixes : KeyOf(q) = KeyOf(p) => ~Better(q, p)}
          IN /\ cards' = {p \in kept : since # Whole \/ Cardinality({q \in kept : Better(q, p)}) < Cap}
             /\ odd' = IF blind = {} THEN odd ELSE odd \cup {"silent"}
    /\ UNCHANGED <<checkout, stamps, scope, rows, map, queue, bounds>>

-----------------------------------------------------------------------------
(* callgraph.refresh *)

\* A graph of other inputs is dropped before another is tried.
Sign ==
    /\ phase = "sign" /\ sig' = Signature
    /\ IF Signature # <<>> /\ graph # Nothing /\ graph.sig = Signature
       THEN phase' = "rank" /\ UNCHANGED graph
       ELSE phase' = "parse" /\ graph' = Nothing
    /\ UNCHANGED <<checkout, stamps, found, queue, odd, bounds>>

\* interpreter: no parser is found, or no source.
NoParser == UNCHANGED graph

\* Built, recorded as skipped or unavailable, or not tried.
Parse ==
    /\ phase = "parse" /\ phase' = "rank"
    /\ \/ \E skipped \in BOOLEAN : graph' = [sig |-> sig, skipped |-> skipped]
       \/ NoParser
    /\ UNCHANGED <<checkout, stamps, found, sig, queue, odd, bounds>>

Usable == graph # Nothing /\ ~graph.skipped

\* callers_of: one hop, inbound only.
CallersOf(S) == UNION {Callers[f] : f \in S} \ S

-----------------------------------------------------------------------------
(* bin/rank-work, and the end of the refresh *)

\* A delta that fails keeps its queue, a whole audit has none; the stamp is of
\* the inputs the refresh began with.
Rank ==
    /\ phase = "rank" /\ phase' = "idle"
    /\ \/ /\ since = Whole \/ Resolves
          /\ queue' = [cards |-> cards, ranked |-> TRUE,
                       files |-> IF since = Whole THEN AllFiles
                                 ELSE Changed(head) \cup (IF Usable THEN CallersOf(Changed(head)) ELSE {})]
          /\ clean' = IF "failed" \in odd THEN clean ELSE begun
          /\ UNCHANGED odd
       \/ /\ queue' = IF since = Whole THEN [cards |-> {}, files |-> {}, ranked |-> FALSE] ELSE queue
          /\ odd' = odd \cup {"failed"} /\ UNCHANGED clean
    /\ UNCHANGED <<checkout, begun, found, map, bounds>>

\* Commits arrive, files are edited and put back, the target is rebuilt.
Move ==
    /\ moves < MaxMoves /\ moves' = moves + 1 /\ phase # "off"
    /\ \/ \E h \in Heads : head # h /\ head \in Behind[h] /\ head' = h /\ UNCHANGED <<dirty, art>>
       \/ dirty' = ~dirty /\ UNCHANGED <<head, art>>
       \/ art' = 1 - art /\ UNCHANGED <<head, dirty>>
    /\ odd' = IF phase = "idle" THEN odd ELSE odd \cup {"moved"}
    /\ UNCHANGED <<repo, since, phase, stamps, found, map, queue, rounds>>

HistoryNext == Launch \/ Begin \/ Scope \/ Log \/ Inspect \/ Sign \/ Parse \/ Rank \/ Move

-----------------------------------------------------------------------------
(* Properties of what the cards are made of *)

\* The stamp matches, and nothing failed; inputs that changed during the refresh
\* and were put back are not noticed.
Stamped ==
    phase = "idle" /\ Known /\ clean = Inputs /\ odd \subseteq {IF clean = begun THEN "failed" ELSE "moved"}

\* Where nothing moved or failed during the refresh that stamped it, a delta's
\* queue is the range: each commit of it but mere upkeep, none outside,
\* each file these change, and the files that call them where there is a graph.
DeltaExact ==
    Stamped /\ since # Whole =>
        LET commits == {p.commit : p \in queue.cards} IN
        /\ CommitsSince(head) \ ((Chores \cup Releases) \ Named) \subseteq commits /\ commits \subseteq CommitsSince(head)
        /\ queue.files \in {Changed(head), Changed(head) \cup CallersOf(Changed(head))}
        /\ Usable => CallersOf(Changed(head)) \subseteq queue.files

\* Whatever moves or fails, a delta never works on what REV reaches.
NeverWidens ==
    since # Whole =>
        /\ \A p \in cards \cup queue.cards : p.commit \notin Behind[since]
        /\ \A f \in queue.files : \E c \in Commits \ Behind[since] :
              f \in Touched[c] \cup CallersOf(Touched[c])

\* A card claims files its commit changed, unless the clone is shallow and its
\* .git is a file.
ClaimsItsFiles ==
    \A p \in cards \cup queue.cards :
        p.files \subseteq Touched[p.commit] \/ (repo = "gitfile" /\ p.commit \in Boundary)

\* A history whose newest commit is older than the lookback is mined all the
\* same, and a fix that names its defect is neither crowded out by newer commits
\* nor left without its files, unless the clone ends there.
DormantMined ==
    Stamped /\ since = Whole =>
        /\ (WithinLookback = {} => queue.cards # {})
        /\ LogRows \cap Named # {} =>
              \E p \in queue.cards : p.commit \in Named /\ (p.files # {} \/ LogRows \cap Named \cap Boundary # {})

\* The callers a delta is given are of a graph of the inputs this refresh signed.
MapIsOfInputs == phase = "rank" /\ Usable => graph.sig = sig
=============================================================================
