----------------------------- MODULE WorkQueue -----------------------------
(***************************************************************************)
(* lib/workqueue.py and bin/state: the work queue's shared ledgers.        *)
(*                                                                         *)
(* claims.jsonl is append-only and the latest row of a card wins;          *)
(* hypotheses.jsonl is rewritten in place.  Each file has a writers' lock  *)
(* and readers take none, so an operation that reads a file, decides and   *)
(* only then appends is two steps here (release, env-block, adoption,      *)
(* acceptance), and an operation that decides under the lock of the file   *)
(* it writes is one (next-card; update-card, whose evidence only grows).   *)
(*                                                                         *)
(* The model keeps of claims.jsonl the folds its readers compute, not the  *)
(* rows, and of time the seconds left: of a lease, of the grace after a    *)
(* claim and of the grace after a run.                                     *)
(***************************************************************************)
EXTENDS Naturals, FiniteSets

CONSTANTS
    Agents, Cards, Hyps,
    NoAgent, NoCard,
    Broad,           \* cards of kind ranked-source or s4-campaign
    Surface,         \* Surface[c]: the file a card works on
    Shape,           \* Shape[h]: the investigative angle of a hypothesis
    CardStatuses,    \* statuses agents pass to update-card
    TTL,             \* WORK_CARD_CLAIM_TTL_SECONDS
    Grace,           \* WORK_CARD_CLAIM_GRACE_SECONDS
    MinRuns,         \* WORK_CARD_MIN_RUNS_BEFORE_DISCARD
    MinShapes,       \* WORK_CARD_MIN_HYPS_BEFORE_DISCARD
    MaxRuns,         \* bound: counted clean runs per hypothesis
    MaxConclusions   \* bound: conclusions per card

Terminal == {"discarded", "crash", "find", "blocked"}
Productive == {"crash", "find"}
RowStatuses == Terminal \cup {"none", "claimed", "released"}
Sources == {"next", "adopt", "update", "env", "accept", "release"}
HypStatuses == {"none", "open", "dry", "env", "named", "rejected", "folded"}

ASSUME QueueAssumption ==
    /\ NoAgent \notin Agents /\ NoCard \notin Cards
    /\ IsFiniteSet(Hyps) /\ Broad \subseteq Cards
    /\ CardStatuses \subseteq (Terminal \cup {"claimed"})
    /\ TTL \in Nat \ {0} /\ Grace \in Nat
    /\ MinRuns \in Nat /\ MinShapes \in Nat
    /\ MaxRuns \in Nat /\ MaxConclusions \in Nat

VARIABLES
    \* claims.jsonl, folded per card
    latest,     \* the latest row: status, agent, source, lease and grace left
    lastTerm,   \* status of the latest terminal row, "none" before one
    concl,      \* card_conclusion_counts
    ownTerm,    \* (agent, status) of productive rows not from accepted-artifact
    accepted,   \* hypotheses whose artifact has an accepted-artifact row
    \* hypotheses.jsonl and runs.jsonl
    hyp,        \* per hypothesis id: status, agent, card
    runs,       \* counted CLEAN runs recorded under a hypothesis
    crashRun,   \* cards with a run row of verdict CRASH
    recent,     \* per card: grace left since its last run
    \* bundles and sessions
    art,        \* the bundle filed under a hypothesis
    unfinished, \* agents owning an unfinished crash report
    live,       \* agents with a session in flight (keep_agents)
    pend,       \* what an agent's state command has yet to do
    rel,        \* release rows decided but not yet appended
    \* history
    view,       \* view[a][c]: lease time agent a was granted and still counts on
    covered,    \* (card, source): a row was put over a lease its holder counts on
    said        \* productive update-card rows per card

ledger == <<latest, lastTerm, concl, ownTerm, view, covered, said>>
hyps == <<hyp, runs, crashRun, recent, art, unfinished>>
vars == <<ledger, hyps, accepted, live, pend, rel>>

\* A claims row; only a claim has a lease and a grace.
Row(st, ag, src) ==
    [st |-> st, ag |-> ag, src |-> src,
     left  |-> IF st = "claimed" THEN TTL ELSE 0,
     fresh |-> IF st = "claimed" THEN Grace ELSE 0]

Rows == [st : RowStatuses, ag : Agents \cup {NoAgent}, src : Sources \cup {"none"},
         left : 0..TTL, fresh : 0..Grace]

Idle == [op |-> "idle", card |-> NoCard]
Pending == [op : {"idle", "adopt", "envread", "envwrite"}, card : Cards \cup {NoCard}]
ReleaseRows == [card : Cards, ag : Agents \cup {NoAgent}, st : Terminal \cup {"released"}]

\* claims.jsonl and its history.
LedgerOK ==
    /\ latest \in [Cards -> Rows]
    /\ \A c \in Cards : latest[c].left > 0 => latest[c].st = "claimed"
    /\ lastTerm \in [Cards -> Terminal \cup {"none"}]
    /\ concl \in [Cards -> Nat]
    /\ ownTerm \in [Cards -> SUBSET (Agents \X Productive)]
    /\ view \in [Agents -> [Cards -> 0..TTL]]
    /\ covered \subseteq (Cards \X Sources)
    /\ said \in [Cards -> Nat]

\* hypotheses.jsonl, runs.jsonl and the bundles.
HypsOK ==
    /\ hyp \in [Hyps -> [st : HypStatuses, ag : Agents \cup {NoAgent},
                         card : Cards \cup {NoCard}]]
    /\ \A h \in Hyps : hyp[h].st # "none" => hyp[h].ag \in Agents /\ hyp[h].card \in Cards
    /\ runs \in [Hyps -> Nat]
    /\ crashRun \subseteq Cards
    /\ recent \in [Cards -> 0..Grace]
    /\ art \in [Hyps -> {"none", "filed", "accepting", "accepted", "rejected", "folded"}]
    /\ \A h \in Hyps : art[h] # "none" => hyp[h].st # "none"
    /\ unfinished \subseteq Agents
    /\ accepted \subseteq Hyps

\* Sessions, their commands and the release pass.
SessionsOK ==
    /\ live \subseteq Agents
    /\ pend \in [Agents -> Pending]
    /\ \A a \in Agents : pend[a].op # "idle" => pend[a].card \in Cards
    /\ rel \subseteq ReleaseRows

\* The type of every variable.  Only a claimed row carries lease time, a
\* bundle has a hypothesis, and a command in flight has a card.
TypeOK == LedgerOK /\ HypsOK /\ SessionsOK

Init ==
    /\ latest = [c \in Cards |->
                   [st |-> "none", ag |-> NoAgent, src |-> "none", left |-> 0, fresh |-> 0]]
    /\ lastTerm = [c \in Cards |-> "none"]
    /\ concl = [c \in Cards |-> 0]
    /\ ownTerm = [c \in Cards |-> {}]
    /\ accepted = {}
    /\ hyp = [h \in Hyps |-> [st |-> "none", ag |-> NoAgent, card |-> NoCard]]
    /\ runs = [h \in Hyps |-> 0]
    /\ crashRun = {}
    /\ recent = [c \in Cards |-> 0]
    /\ art = [h \in Hyps |-> "none"]
    /\ unfinished = {}
    /\ live = {}
    /\ pend = [a \in Agents |-> Idle]
    /\ rel = {}
    /\ view = [a \in Agents |-> [c \in Cards |-> 0]]
    /\ covered = {}
    /\ said = [c \in Cards |-> 0]

-----------------------------------------------------------------------------
(* What readers of the ledgers compute *)

\* Bug: a lease ends one second early.
ClaimBlocksEarly(c) == latest[c].st = "claimed" /\ latest[c].left > 1

\* claim_blocks_card: the latest row is a lease that has not expired.
ClaimBlocksCard(c) == latest[c].st = "claimed" /\ latest[c].left > 0

\* visible_card_status: an expired lease reads back as unclaimed.
VisibleStatus(c) ==
    IF latest[c].st = "none" \/ (latest[c].st = "claimed" /\ latest[c].left = 0)
      THEN "unclaimed" ELSE latest[c].st

\* hypotheses.jsonl with the status of one row rewritten.
WithStatus(h, st) == [hyp EXCEPT ![h] = [st |-> st, ag |-> hyp[h].ag, card |-> hyp[h].card]]

HypsOn(c) == {h \in Hyps : hyp[h].st # "none" /\ hyp[h].card = c}
OpenOn(c) == {h \in HypsOn(c) : hyp[h].st = "open"}

\* card_distinct_hypothesis_counts.
DistinctShapes(c) == Cardinality({Shape[h] : h \in HypsOn(c)})

\* Bug: an expired lease masks the conclusion under it.
CardClosedMasked(c) ==
    IF c \in Broad THEN VisibleStatus(c) = "blocked"
    ELSE IF VisibleStatus(c) \notin Productive
           THEN VisibleStatus(c) \in Terminal
           ELSE concl[c] >= DistinctShapes(c) + 1

\* card_closed_for_run.  A broad card closes only when blocked; a concrete one
\* on any terminal status, except that a productive one closes only once it
\* was concluded more often than it has distinct hypotheses.
CardClosedForRun(c) ==
    IF c \in Broad THEN VisibleStatus(c) = "blocked"
    ELSE IF VisibleStatus(c) \in Productive \/ (VisibleStatus(c) = "unclaimed" /\ concl[c] > 0)
           THEN concl[c] >= DistinctShapes(c) + 1
           ELSE VisibleStatus(c) \in Terminal

\* Surfaces under an open hypothesis or a live lease.
OwnedSurfaces == {Surface[c] : c \in {d \in Cards : OpenOn(d) # {} \/ ClaimBlocksCard(d)}}

OwnLease(a, c) == ClaimBlocksCard(c) /\ latest[c].ag = a

\* Bug: the surface of a card is not looked at.
CandidatesAnySurface(a) ==
    {c \in Cards :
        /\ ~CardClosedForRun(c)
        /\ OpenOn(c) = {}
        /\ ClaimBlocksCard(c) => OwnLease(a, c)}

\* _build_candidates: open, nobody's open hypothesis, nobody else's lease, and
\* a surface nobody owns unless the agent's own lease is what owns it.
Candidates(a) ==
    {c \in Cards :
        /\ ~CardClosedForRun(c)
        /\ OpenOn(c) = {}
        /\ ClaimBlocksCard(c) => OwnLease(a, c)
        /\ OwnLease(a, c) \/ Surface[c] \notin OwnedSurfaces}

\* The agent's own lease sorts first once any card has been worked; the other
\* preferences (subsystem, demotion, lane, buildability) order the rest.
Offer(a) ==
    LET own == {c \in Candidates(a) : OwnLease(a, c)}
        worked == \E c \in Cards : concl[c] > 0 \/ HypsOn(c) # {}
    IN  IF own # {} /\ worked THEN own ELSE Candidates(a)

\* card_discard_evidence: counted clean runs and the shapes they probed.
CleanRuns(c) == {run \in HypsOn(c) \X (1..MaxRuns) : run[2] <= runs[run[1]]}
ProbedShapes(c) == {Shape[h] : h \in {g \in HypsOn(c) : runs[g] > 0}}

EvidenceFloor(c) ==
    /\ Cardinality(CleanRuns(c)) >= MinRuns
    /\ Cardinality(ProbedShapes(c)) >= MinShapes

-----------------------------------------------------------------------------
(* Appending to claims.jsonl *)

\* The row covers a lease that its holder's session still counts on.
Covers(c, ag, src) ==
    /\ ClaimBlocksCard(c)
    /\ \E x \in Agents :
          /\ latest[c].ag = x /\ view[x][c] > 0
          /\ (ag # x \/ src \in {"accept", "release"})

\* What the row's own agent counts on afterwards.
ViewAfter(c, st, ag, src) ==
    IF ag \notin Agents \/ src \in {"accept", "release"} THEN view
    ELSE [view EXCEPT ![ag][c] = IF st = "claimed" THEN TTL ELSE 0]

\* One append under the claims lock, and the folds readers make of it.  A
\* release row that preserves a conclusion is not counted as another one.
AppendRow(c, st, ag, src) ==
    /\ latest' = [latest EXCEPT ![c] = Row(st, ag, src)]
    /\ lastTerm' = IF st \in Terminal THEN [lastTerm EXCEPT ![c] = st] ELSE lastTerm
    /\ concl' = IF st \in Productive /\ src # "release"
                  THEN [concl EXCEPT ![c] = @ + 1] ELSE concl
    /\ ownTerm' = IF st \in Productive /\ src # "accept" /\ ag \in Agents
                    THEN [ownTerm EXCEPT ![c] = @ \cup {<<ag, st>>}] ELSE ownTerm
    /\ said' = IF st \in Productive /\ src = "update"
                 THEN [said EXCEPT ![c] = @ + 1] ELSE said
    /\ covered' = IF Covers(c, ag, src) THEN covered \cup {<<c, src>>} ELSE covered
    /\ view' = ViewAfter(c, st, ag, src)

-----------------------------------------------------------------------------
(* State commands of an agent's session *)

Ready(a) == a \in live /\ pend[a] = Idle

\* next-card: choose and append under the claims lock.
NextCard(a) ==
    /\ Ready(a)
    /\ \E c \in Offer(a) : AppendRow(c, "claimed", a, "next")
    /\ UNCHANGED <<hyps, accepted, live, pend, rel>>

\* add-hyp, first half: the hypothesis row, under the hypotheses lock.
AddHyp(a, c, h) ==
    /\ Ready(a) /\ hyp[h].st = "none"
    /\ hyp' = [hyp EXCEPT ![h] = [st |-> "open", ag |-> a, card |-> c]]
    /\ pend' = [pend EXCEPT ![a] = [op |-> "adopt", card |-> c]]
    /\ UNCHANGED <<ledger, runs, crashRun, recent, art, unfinished, accepted, live, rel>>

\* Bug: adoption takes the card whoever holds it.
AdoptAlways(a) ==
    /\ a \in live /\ pend[a].op = "adopt"
    /\ AppendRow(pend[a].card, "claimed", a, "adopt")
    /\ pend' = [pend EXCEPT ![a] = Idle]
    /\ UNCHANGED <<hyps, accepted, live, rel>>

\* add-hyp, second half: claim-on-adopt under the claims lock, unless another
\* agent's lease runs or this agent already adopted the card.
Adopt(a) ==
    /\ a \in live /\ pend[a].op = "adopt"
    /\ LET c == pend[a].card
       IN  IF /\ ~ClaimBlocksCard(c) \/ latest[c].ag = a
              /\ ~(OwnLease(a, c) /\ latest[c].src = "adopt")
             THEN AppendRow(c, "claimed", a, "adopt")
             ELSE UNCHANGED ledger
    /\ pend' = [pend EXCEPT ![a] = Idle]
    /\ UNCHANGED <<hyps, accepted, live, rel>>

\* update-hyp to a dry or reopened status, or to the bundle it filed; the
\* latter is refused while the agent owes a crash report.
UpdateHyp(a, h, st) ==
    /\ Ready(a) /\ hyp[h].st # "none" /\ hyp[h].ag = a
    /\ st \in {"open", "dry", "named"} /\ st # hyp[h].st
    /\ st = "named" => art[h] # "none" /\ a \notin unfinished
    /\ hyp' = WithStatus(h, st)
    /\ UNCHANGED <<ledger, runs, crashRun, recent, art, unfinished, accepted, live, pend, rel>>

\* update-hyp ENV-BLOCKED: the hypothesis row first.
EnvBlockHyp(a, h) ==
    /\ Ready(a) /\ hyp[h].st # "none" /\ hyp[h].ag = a /\ hyp[h].st # "env"
    /\ hyp' = WithStatus(h, "env")
    /\ pend' = [pend EXCEPT ![a] = [op |-> "envread", card |-> hyp[h].card]]
    /\ UNCHANGED <<ledger, runs, crashRun, recent, art, unfinished, accepted, live, rel>>

\* _record_env_blocked_card reads the latest row without a lock ...
EnvRead(a) ==
    /\ a \in live /\ pend[a].op = "envread"
    /\ pend' = [pend EXCEPT ![a] =
                  IF latest[pend[a].card].st \in Terminal THEN Idle
                  ELSE [op |-> "envwrite", card |-> pend[a].card]]
    /\ UNCHANGED <<ledger, hyps, accepted, live, rel>>

\* ... and then appends: a broad card is demoted, a concrete one blocked.
EnvWrite(a) ==
    /\ a \in live /\ pend[a].op = "envwrite"
    /\ LET c == pend[a].card
       IN  AppendRow(c, IF c \in Broad THEN "discarded" ELSE "blocked", a, "env")
    /\ pend' = [pend EXCEPT ![a] = Idle]
    /\ UNCHANGED <<hyps, accepted, live, rel>>

\* Agents whose unfinished crash report refuses `crash` for the card.
CrashOwners(a, c) == {a} \cup {hyp[h].ag : h \in HypsOn(c)}

\* Bug: a clean close needs no evidence.
UpdateGateNoEvidence(a, c, st) ==
    st = "crash" => c \in crashRun /\ CrashOwners(a, c) \cap unfinished = {}

\* The evidence gates of update_card_status; blocked asks for a note, find
\* and claimed for nothing.
UpdateGate(a, c, st) ==
    /\ st = "discarded" => EvidenceFloor(c)
    /\ st = "crash" => c \in crashRun /\ CrashOwners(a, c) \cap unfinished = {}

\* update-card: nothing relates the agent to the card's lease.
UpdateCard(a, c, st) ==
    /\ Ready(a) /\ st \in CardStatuses
    /\ UpdateGate(a, c, st)
    /\ st \in Productive => concl[c] < MaxConclusions
    /\ AppendRow(c, st, a, "update")
    /\ UNCHANGED <<hyps, accepted, live, pend, rel>>

\* bin/probe records a run: CLEAN and counted, CLEAN but MISSED, or CRASH,
\* which also files a bundle whose report the agent now owes.
Probe(a, h, verdict) ==
    LET c == hyp[h].card
    IN  /\ Ready(a) /\ hyp[h].st # "none" /\ hyp[h].ag = a
        /\ verdict = "clean" => runs[h] < MaxRuns
        /\ runs' = IF verdict = "clean" THEN [runs EXCEPT ![h] = @ + 1] ELSE runs
        /\ recent' = [recent EXCEPT ![c] = Grace]
        /\ crashRun' = IF verdict = "crash" THEN crashRun \cup {c} ELSE crashRun
        /\ art' = IF verdict = "crash" /\ art[h] = "none"
                    THEN [art EXCEPT ![h] = "filed"] ELSE art
        /\ unfinished' = IF verdict = "crash" /\ art[h] = "none"
                           THEN unfinished \cup {a} ELSE unfinished
        /\ UNCHANGED <<ledger, hyp, accepted, live, pend, rel>>

\* The agent completes its crash report.
FinishReport(a) ==
    /\ Ready(a) /\ a \in unfinished
    /\ unfinished' = unfinished \ {a}
    /\ UNCHANGED <<ledger, hyp, runs, crashRun, recent, art, accepted, live, pend, rel>>

-----------------------------------------------------------------------------
(* The harness: sessions, stale leases, triage, time *)

\* The driver launches sessions and runs the release pass from one thread.
SessionStart(a) ==
    /\ a \notin live /\ rel = {}
    /\ live' = live \cup {a}
    /\ UNCHANGED <<ledger, hyps, accepted, pend, rel>>

\* A session ends or is killed, between the halves of a command too.
SessionEnd(a) ==
    /\ a \in live
    /\ live' = live \ {a}
    /\ pend' = [pend EXCEPT ![a] = Idle]
    /\ view' = [view EXCEPT ![a] = [c \in Cards |-> 0]]
    /\ UNCHANGED <<latest, lastTerm, concl, ownTerm, covered, said, hyps, accepted, rel>>

\* A claim nothing justifies: no session of its agent, no open hypothesis,
\* and, when none was ever opened, no claim or run within the grace.
Stale(c) ==
    /\ latest[c].st = "claimed"
    /\ latest[c].ag \notin live
    /\ OpenOn(c) = {}
    /\ HypsOn(c) = {} => latest[c].fresh = 0 /\ recent[c] = 0

ReleaseRow(c) ==
    [card |-> c, ag |-> latest[c].ag,
     st |-> IF lastTerm[c] = "none" THEN "released" ELSE lastTerm[c]]

\* release_stale_claims decides on one unlocked read of the ledgers ...
ReleaseScan ==
    /\ rel = {}
    /\ rel' = {ReleaseRow(c) : c \in {d \in Cards : Stale(d)}}
    /\ UNCHANGED <<ledger, hyps, accepted, live, pend>>

\* ... and appends each row it decided on.
ReleaseAppend(row) ==
    /\ row \in rel
    /\ AppendRow(row.card, row.st, row.ag, "release")
    /\ rel' = rel \ {row}
    /\ UNCHANGED <<hyps, accepted, live, pend>>

\* Triage accepts a complete bundle and closes the open hypothesis it names.
AcceptReconcile(h) ==
    /\ art[h] = "filed" /\ hyp[h].ag \notin unfinished
    /\ art' = [art EXCEPT ![h] = "accepting"]
    /\ hyp' = IF hyp[h].st = "open" THEN WithStatus(h, "named") ELSE hyp
    /\ UNCHANGED <<ledger, runs, crashRun, recent, unfinished, accepted, live, pend, rel>>

\* record_accepted_artifact_card: one conclusion row per artifact, none when
\* the agent's own conclusion on the card is on record.
AcceptRecord(h) ==
    /\ art[h] = "accepting" /\ concl[hyp[h].card] < MaxConclusions
    /\ art' = [art EXCEPT ![h] = "accepted"]
    /\ IF /\ hyp[h].st = "named" /\ h \notin accepted
          /\ <<hyp[h].ag, "crash">> \notin ownTerm[hyp[h].card]
         THEN /\ AppendRow(hyp[h].card, "crash", hyp[h].ag, "accept")
              /\ accepted' = accepted \cup {h}
         ELSE UNCHANGED <<ledger, accepted>>
    /\ UNCHANGED <<hyp, runs, crashRun, recent, unfinished, live, pend, rel>>

\* record_artifact_rejection: the row naming the bundle is discarded, with a
\* note of the status it had.
RejectArtifact(h) ==
    /\ art[h] \in {"filed", "accepted"}
    /\ art' = [art EXCEPT ![h] = "rejected"]
    /\ hyp' = IF hyp[h].st = "named" THEN WithStatus(h, "rejected") ELSE hyp
    /\ UNCHANGED <<ledger, runs, crashRun, recent, unfinished, accepted, live, pend, rel>>

\* record_artifact_reconsideration: the bundle returns to its lane and a row
\* triage discarded takes the noted status back.
Reconsider(h) ==
    /\ art[h] = "rejected"
    /\ art' = [art EXCEPT ![h] = "filed"]
    /\ hyp' = IF hyp[h].st = "rejected" THEN WithStatus(h, "named") ELSE hyp
    /\ UNCHANGED <<ledger, runs, crashRun, recent, unfinished, accepted, live, pend, rel>>

\* record_artifact_duplicate: filed and still-open rows take the promoted id.
FoldDuplicate(h) ==
    /\ art[h] = "filed" /\ hyp[h].ag \notin unfinished
    /\ art' = [art EXCEPT ![h] = "folded"]
    /\ hyp' = IF hyp[h].st \in {"open", "named"} THEN WithStatus(h, "folded") ELSE hyp
    /\ UNCHANGED <<ledger, runs, crashRun, recent, unfinished, accepted, live, pend, rel>>

Less(n) == IF n > 0 THEN n - 1 ELSE 0

AgedRow(c) ==
    [st |-> latest[c].st, ag |-> latest[c].ag, src |-> latest[c].src,
     left |-> Less(latest[c].left), fresh |-> Less(latest[c].fresh)]

\* One unit of time passes for every lease and every grace.
Tick ==
    /\ latest' = [c \in Cards |-> AgedRow(c)]
    /\ recent' = [c \in Cards |-> Less(recent[c])]
    /\ view' = [a \in Agents |-> [c \in Cards |-> Less(view[a][c])]]
    /\ UNCHANGED <<lastTerm, concl, ownTerm, covered, said, hyp, runs, crashRun, art,
                   unfinished, accepted, live, pend, rel>>

Next ==
    \/ \E a \in Agents :
          \/ NextCard(a) \/ Adopt(a) \/ EnvRead(a) \/ EnvWrite(a)
          \/ FinishReport(a) \/ SessionStart(a) \/ SessionEnd(a)
          \/ \E c \in Cards, h \in Hyps : AddHyp(a, c, h)
          \/ \E h \in Hyps : EnvBlockHyp(a, h)
          \/ \E h \in Hyps, st \in {"open", "dry", "named"} : UpdateHyp(a, h, st)
          \/ \E h \in Hyps, verdict \in {"clean", "missed", "crash"} : Probe(a, h, verdict)
          \/ \E c \in Cards, st \in CardStatuses : UpdateCard(a, c, st)
    \/ ReleaseScan \/ \E row \in rel : ReleaseAppend(row)
    \/ \E h \in Hyps :
          \/ AcceptReconcile(h) \/ AcceptRecord(h) \/ FoldDuplicate(h)
          \/ RejectArtifact(h) \/ Reconsider(h)
    \/ Tick

\* Time passes; a release pass the driver started runs to its end.
Fairness == WF_vars(Tick) /\ WF_vars(\E row \in rel : ReleaseAppend(row))

Spec == Init /\ [][Next]_vars /\ Fairness

-----------------------------------------------------------------------------
(* Properties *)

\* next-card and claim-on-adopt never take a card from an agent whose session
\* counts on its lease: of the rows put over such a lease, none is theirs.
NoStolenLease == \A p \in covered : p[2] \notin {"next", "adopt"}

\* What an agent counts on is what the ledger says: unless some other party's
\* row was put over it, an unexpired grant is the card's latest row.  With
\* NoStolenLease this names every way a lease is lost before its time.
LeaseAgreement ==
    \A a \in Agents, c \in Cards :
        view[a][c] > 0 =>
            \/ \E src \in Sources : <<c, src>> \in covered
            \/ latest[c].st = "claimed" /\ latest[c].ag = a /\ latest[c].left = view[a][c]

\* next-card never has two agents hold different cards of one file.
SurfaceOneHolder ==
    \A c, d \in Cards :
        (/\ c # d /\ Surface[c] = Surface[d]
         /\ ClaimBlocksCard(c) /\ latest[c].src = "next"
         /\ ClaimBlocksCard(d) /\ latest[d].src = "next")
        => latest[c].ag = latest[d].ag

\* No path around update-card's floor: a concrete card whose last conclusion
\* is `discarded` has the runs and the shapes, however often leases on it
\* were claimed, released and preserved since.
DiscardHasEvidence ==
    \A c \in Cards \ Broad : lastTerm[c] = "discarded" => EvidenceFloor(c)

\* Rediscovery counts bugs and not bookkeeping: a card's conclusions are its
\* update-card conclusions and its accepted artifacts, each counted once.
ConclusionsGrounded ==
    \A c \in Cards :
        concl[c] = said[c] + Cardinality({h \in accepted : hyp[h].card = c})

\* A mined site stays mined: next-card does not hand out a concrete card that
\* was concluded more often than it has distinct hypotheses, also when an
\* expired lease hides the conclusion.  (A release row that overtook a
\* conclusion is the exception.)
MinedStaysClosed ==
    [][\A c \in Cards \ Broad :
         (/\ latest'[c].src = "next" /\ latest'[c].left > latest[c].left
          /\ ~ClaimBlocksCard(c) /\ latest[c].st # "released")
           => concl[c] <= DistinctShapes(c)]_vars

\* A killed agent cannot poison the queue: the leases of an agent that never
\* runs again end.
DeadLeaseEnds ==
    \A a \in Agents, c \in Cards :
        <>[](a \notin live) => <>[](~OwnLease(a, c))

\* What closes a card was earned: a discard by its evidence, a conclusion by
\* one report or one accepted artifact.
ConclusionsEarned == DiscardHasEvidence /\ ConclusionsGrounded

-----------------------------------------------------------------------------
(* Instances *)

\* Every card works on a file of its own, every hypothesis has its own angle.
OwnSurface == [c \in Cards |-> c]
OwnShape == [h \in Hyps |-> h]
=============================================================================
