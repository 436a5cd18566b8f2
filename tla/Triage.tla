------------------------------- MODULE Triage -------------------------------
(***************************************************************************)
(* lib/triage.py: one filed artifact, a crash bundle or a finding, on its  *)
(* way through the gates (triage_crash_dirs and validate_find_gate), with  *)
(* the receipts of lib/validation_receipt.py.                              *)
(*                                                                         *)
(* A pass is a barrier (the whole tree: restore passes, routing, ageing)   *)
(* or a background sweep.  It asks for what the report still lacks         *)
(* (quality votes, export, reach fields, source reviews) and then          *)
(* concludes.  Every answer is bound to the content and the policy it was  *)
(* given for: an edit, a policy change or a new decision version leaves it *)
(* stale.  A pass may meet its deadline or be killed after any step.       *)
(***************************************************************************)
EXTENDS Integers, FiniteSets

CONSTANTS
    Filed,          \* what is filed: records [kind, class, proof, pinned]
    Answers,        \* the reviews a source reviewer may return
    Gaps,           \* what a crash bundle may still lack
    Quorum, AcceptQuorum,   \* FIND_GATE_QUORUM, FIND_GATE_ACCEPT_QUORUM
    PendingMax,     \* CRASH_PROMOTION_PENDING_MAX
    FillMax,        \* LLM_FIELD_FILL_MAX_ATTEMPTS
    MaxTrouble,     \* bound: missed answers, expired deadlines and kills
    MaxChanges      \* bound: edits, policy changes and new decision versions

Kinds == {"crash", "finding"}
Reviews == {"first", "second"}
Slots == Reviews \cup {"resolution"}
Review == [v : {"Promote", "Reject", "Uncertain"},
           kind : {"", "disproof", "consequence", "no-added-boundary", "unknown"},
           fit : {"within", "outside", "unclear"}]
None == [v |-> "none", kind |-> "", fit |-> ""]
Stale == [v |-> "stale", kind |-> "", fit |-> ""]
Verdicts == {"contract-flag", "out-of-model", "promote"}
Final == {"reportable", "not-reportable"}

ASSUME TriageAssumption ==
    /\ Filed \subseteq [kind : Kinds, class : {"memory", "discard", "demote", "none"},
                        proof : {"no", "clear", "ambiguous"}, pinned : BOOLEAN]
    /\ Answers \subseteq Review
    /\ Quorum \in Nat \ {0} /\ AcceptQuorum \in Nat \ {0}
    /\ PendingMax \in Nat \ {0} /\ FillMax \in Nat \ {0}
    /\ MaxTrouble \in Nat /\ MaxChanges \in Nat
    /\ "none" \notin Gaps

VARIABLES
    art,       \* [kind, class, proof, pinned, demoted, exported]
    lane, why, \* active or rejected, and the reason rejection.md gives
    gap,       \* what the bundle lacks, or "none"
    fields,    \* evaluate_crash_verdict of the report's reach fields
    fills,     \* answers the field fill has had for this report
    quality,   \* accept and reject votes bound to the present report
    vote,      \* the three review files
    receipt,   \* validation.json: its state, and whether it is current
    pend,      \* .promotion_pending.sig and .count
    pass,      \* the pass at work: its step, barrier?, expired?, rounds tried
    trouble, changes,
    \* history
    barriers   \* barrier passes that met the artifact, up to PendingMax

report == <<fields, fills, quality, vote>>
place == <<art, lane, why>>
bounds == <<trouble, changes>>
vars == <<place, gap, report, receipt, pend, pass, bounds, barriers>>

Idle == [pc |-> "idle", barrier |-> FALSE, expired |-> FALSE, tried |-> {}]

\* The type of every variable, and that the two verdicts of the quality gate
\* exclude each other within AcceptQuorum + Quorum - 1 votes.
TypeOK ==
    /\ art \in [kind : Kinds, class : {"memory", "discard", "demote", "none"},
                proof : {"no", "clear", "ambiguous"}, pinned : BOOLEAN,
                demoted : BOOLEAN, exported : BOOLEAN]
    /\ lane \in {"active", "rejected"}
    /\ why \in {"", "hard", "aged", "quality", "trigger", "publication"}
    /\ gap \in Gaps \cup {"none"}
    /\ fields \in Verdicts \cup {"incomplete"} /\ fills \in 0..(FillMax + 1)
    /\ quality \in [acc : 0..AcceptQuorum, rej : 0..Quorum]
    /\ quality.acc + quality.rej < AcceptQuorum + Quorum
    /\ vote \in [Slots -> Review \cup {None, Stale}]
    /\ receipt \in [state : Final \cup {"none", "pending", "rejected"}, cur : BOOLEAN]
    /\ pend \in [sig : Gaps \cup {"", "bundle", "fields"}, n : 0..PendingMax]
    /\ pass \in [pc : {"idle", "begin", "admit", "quality", "export", "fields", "first", "second",
                       "resolution", "final", "settle", "move"},
                 barrier : BOOLEAN, expired : BOOLEAN, tried : SUBSET Slots]
    /\ trouble \in 0..MaxTrouble /\ changes \in 0..MaxChanges
    /\ barriers \in 0..PendingMax

Init ==
    /\ \E f \in Filed :
          art = [kind |-> f.kind, class |-> f.class, proof |-> f.proof, pinned |-> f.pinned,
                 demoted |-> FALSE, exported |-> FALSE]
    /\ lane = "active" /\ why = ""
    /\ gap \in (IF art.kind = "crash" THEN Gaps ELSE {}) \cup {"none"}
    /\ fields \in Verdicts \cup {"incomplete"} /\ fills = 0
    /\ quality = [acc |-> 0, rej |-> 0]
    /\ vote = [s \in Slots |-> None]
    /\ receipt = [state |-> "none", cur |-> FALSE]
    /\ pend = [sig |-> "", n |-> 0]
    /\ pass = Idle
    /\ trouble = 0 /\ changes = 0 /\ barriers = 0

-----------------------------------------------------------------------------
(* What the review files say *)

\* _cached_trigger_vote: only a review given for this report and policy counts.
Cur(s) == IF vote[s].v \in {"none", "stale"} THEN "none" ELSE vote[s].v

Open(r) == r.v = "Promote" /\ r.fit = "unclear"

\* trigger_resolution_review_names: the reviews a focused resolver must settle.
Sources(v) ==
    LET f == v["first"]
        s == v["second"]
    IN IF f.v = "Uncertain" \/ Open(f) THEN {"first"}
       ELSE IF \/ f.v = "Reject" /\ s.v \in {"Promote", "Uncertain"}
               \/ f.v = "Promote" /\ s.v \in {"Reject", "Uncertain"}
               \/ f.v = "Promote" /\ s.v = "Promote" /\ s.fit # f.fit
            THEN Reviews ELSE {}

Only(S) == CHOOSE x \in S : TRUE

\* _source_review_facts: a rejection kind both reviews name ...
RejectionKind(S) ==
    LET rejects == {s \in S : Cur(s) = "Reject"}
        kinds == {vote[s].kind : s \in rejects}
    IN IF Cardinality(rejects) >= 2 /\ Cardinality(kinds) = 1 THEN Only(kinds) ELSE ""

\* ... and the scope on which the settled reviews agree; when they give none,
\* _unsettled_scope_fact takes the one the uncertain reviews agree on.
Fit(S) ==
    LET of(vs) == {vote[s].fit : s \in {t \in S : Cur(t) \in vs}}
        settled == of({"Promote", "Reject"})
        unsettled == of({"Uncertain"})
    IN IF Cardinality(settled) = 1 THEN Only(settled)
       ELSE IF Cardinality(unsettled) = 1 THEN Only(unsettled) ELSE ""

DispositiveKinds == {"disproof"} \cup (IF art.kind = "finding" THEN {"consequence"} ELSE {})

\* Bug: one disproof is enough.
DispositiveByOne(S) == \E s \in S : Cur(s) = "Reject" /\ vote[s].kind \in DispositiveKinds

\* _trigger_rejection_is_dispositive: two rejects, each of them a disproof.
Dispositive(S) ==
    /\ Cardinality({s \in S : Cur(s) = "Reject"}) >= 2
    /\ \A s \in S : Cur(s) = "Reject" => vote[s].kind \in DispositiveKinds

\* Bug: an uncertain resolution settles nothing.
ResolvedCertain ==
    \/ art.proof # "no"
    \/ Cur("first") = "Promote" /\ (art.kind = "crash" \/ Cur("second") = "Promote")
    \/ Cur("first") = "Reject" /\ Cur("second") = "Reject"
    \/ Cur("resolution") \in {"Promote", "Reject"}

\* _cached_trigger_resolution: no further review will be asked for.
Resolved ==
    LET resolution == Cur("resolution") # "none"
    IN \/ art.proof # "no"
       \/ Cur("first") = "Uncertain" /\ resolution
       \/ /\ Cur("first") = "Promote"
          /\ IF Open(vote["first"]) THEN resolution
             ELSE \/ art.kind = "crash"
                  \/ IF Sources(vote) # {} THEN resolution ELSE Cur("second") = "Promote"
       \/ /\ Cur("first") = "Reject"
          /\ \/ Cur("second") = "Reject"
             \/ Cur("second") \in {"Promote", "Uncertain"} /\ resolution

Disproved(S) ==
    IF RejectionKind(S) = "no-added-boundary" THEN "not-reportable"
    ELSE IF Dispositive(S) THEN "rejected" ELSE "accepted"

\* _finding_trigger_disposition, on the reviews the pass has gathered.
Disposition ==
    LET f == Cur("first")
        s == Cur("second")
        r == Cur("resolution")
        settledBy == IF r = "none" THEN "pending" ELSE "accepted"
    IN IF art.proof # "no" THEN "accepted"
       ELSE IF f = "Reject" THEN
            (IF s = "Reject" THEN Disproved(Reviews)
             ELSE IF s = "none" THEN "pending"
             ELSE IF r = "Reject" THEN Disproved({"first", "resolution"}) ELSE settledBy)
       ELSE IF f = "Promote" /\ ~Open(vote["first"]) THEN
            (IF Sources(vote) = {} THEN "accepted"
             ELSE IF r = "Reject" /\ s = "Reject" THEN Disproved({"second", "resolution"})
             ELSE settledBy)
       ELSE IF f = "none" THEN "pending" ELSE settledBy

\* _crash_trigger_gate.
CrashRejected ==
    /\ art.proof = "no" /\ Cur("first") = "Reject"
    /\ \/ Cur("second") = "Reject" /\ Dispositive(Reviews)
       \/ /\ Cur("second") \in {"Promote", "Uncertain"} /\ Cur("resolution") = "Reject"
          /\ Dispositive({"first", "resolution"})

\* _trigger_publication_evidence: the reviews that settle publication.
Deciding == IF Cur("resolution") # "none" THEN {"resolution"} ELSE Reviews

\* _final_publication_state.
Publication ==
    LET votes == {Cur(s) : s \in Deciding}
        fit == Fit(Deciding)
        undecided == IF Resolved THEN "unsettled" ELSE "pending"
    IN IF fields = "contract-flag" \/ RejectionKind(Deciding) = "no-added-boundary"
       THEN "not-reportable"
       ELSE IF art.proof # "no" THEN "reportable"
       ELSE IF fit = "outside" THEN "not-reportable"
       ELSE IF votes \cap {"Reject", "Uncertain"} # {} THEN undecided
       ELSE IF fit = "within" THEN "reportable"
       ELSE IF votes # {"none"} THEN undecided
       ELSE IF fields = "out-of-model" THEN "not-reportable" ELSE "reportable"

Accepted == quality.acc >= AcceptQuorum
Refused == ~Accepted /\ quality.rej >= Quorum

Published == receipt.cur /\ receipt.state \in Final

-----------------------------------------------------------------------------
(* What a step does to the report, the receipt and the pass *)

Write(st) == receipt' = [state |-> st, cur |-> TRUE]
Outdated == receipt' = [receipt EXCEPT !.cur = FALSE]
To(step) == pass' = [pass EXCEPT !.pc = step]
End == pass' = Idle
Trouble == trouble < MaxTrouble /\ trouble' = trouble + 1

Staled(v) == [s \in Slots |-> IF v[s] = None THEN None ELSE Stale]

\* _materialize_reach_fields_preserving_positive_votes: a review that keeps the
\* artifact crosses the annotation, a Reject does not, and a resolution only
\* while the reviews it settled are still there to settle.
Annotated(v) ==
    LET keep(r) == IF r.v \in {"Promote", "Uncertain", "none"} THEN r ELSE Stale
        carried == [s \in Slots |-> keep(v[s])]
    IN IF Sources(carried) # {} THEN carried
       ELSE [carried EXCEPT !["resolution"] = IF @ = None THEN None ELSE Stale]

\* Conclude with a receipt, here a pending one that counts nothing.
Conclude(st) == Write(st) /\ End /\ UNCHANGED <<place, gap, report>>
HoldPending == Conclude("pending") /\ UNCHANGED pend

\* A deadline met before the conclusion leaves a published verdict alone.
Cut ==
    IF Published THEN End /\ UNCHANGED <<place, gap, report, receipt, pend>>
    ELSE HoldPending

\* _reject, up to the move: rejection.md and a rejected receipt.
Reject(reason) ==
    /\ why' = reason /\ Write("rejected") /\ To("move")
    /\ UNCHANGED <<art, lane, gap, report>>

\* _hold_incomplete and _bump_promotion_pending: only a barrier counts, and
\* only while the same thing is missing.
Hold(sig) ==
    LET n == IF pend.sig = sig THEN pend.n + 1 ELSE 1
    IN IF ~pass.barrier THEN HoldPending
       ELSE IF n < PendingMax
       THEN pend' = [sig |-> sig, n |-> n] /\ Conclude("pending")
       ELSE pend' = [sig |-> "", n |-> 0] /\ Reject("aged")

\* demote_to_finding: the report says so from now on.  A barrier reviews the
\* new finding next; a sweep leaves it to a later pass.
Demote ==
    /\ art' = [art EXCEPT !.kind = "finding", !.demoted = TRUE]
    /\ vote' = Staled(vote) /\ quality' = [acc |-> 0, rej |-> 0] /\ Outdated
    /\ pend' = [sig |-> "", n |-> 0]
    /\ IF pass.barrier THEN pass' = [pass EXCEPT !.pc = "begin", !.tried = {}] ELSE End
    /\ UNCHANGED <<lane, why, gap, fields, fills>>

\* Publish, reject with a publication reason, or hold, as the reviews decide.
Publish ==
    IF Publication \in {"not-reportable", "unsettled"}
    THEN Reject("publication") ELSE Conclude(Publication)

-----------------------------------------------------------------------------
(* Passes *)

\* _restore_stale_trigger_rejections and _refresh_or_restore_quality_rejections:
\* is the evidence behind the rejection no longer good?
RestoreDue ==
    /\ lane = "rejected"
    /\ \/ why = "publication" /\ vote["first"] = Stale
       \/ /\ why = "trigger"
          /\ ~\E other \in {"second", "resolution"} :
                /\ Cur("first") = "Reject" /\ Cur(other) = "Reject"
                /\ Dispositive({"first", other})
       \/ art.kind = "finding" /\ why = "quality" /\ ~Refused

\* route_finding_diagnostics: a finding with a sanitizer report and a testcase
\* goes to the crash lane, unless crash triage sent it here.
Routed == art.kind = "finding" /\ art.class = "memory" /\ ~art.demoted

\* A barrier first restores, or routes, what its tree-wide passes name.
StartBarrier ==
    /\ pass.pc = "idle" /\ (lane = "active" \/ RestoreDue)
    /\ pass' = [Idle EXCEPT !.pc = "begin", !.barrier = TRUE]
    /\ IF lane = "rejected"
       THEN /\ lane' = "active" /\ why' = "" /\ Write("pending")
            /\ vote' = IF why = "publication" THEN [s \in Slots |-> None] ELSE vote
            /\ UNCHANGED <<art, quality>>
       ELSE IF Routed
       THEN /\ art' = [art EXCEPT !.kind = "crash"]
            /\ vote' = Staled(vote) /\ quality' = [acc |-> 0, rej |-> 0] /\ Outdated
            /\ UNCHANGED <<lane, why>>
       ELSE UNCHANGED <<place, vote, quality, receipt>>
    /\ barriers' = IF barriers < PendingMax THEN barriers + 1 ELSE barriers
    /\ UNCHANGED <<gap, fields, fills, pend, bounds>>

StartSweep ==
    /\ pass.pc = "idle" /\ lane = "active"
    /\ pass' = [Idle EXCEPT !.pc = "begin"]
    /\ UNCHANGED <<place, gap, report, receipt, pend, bounds, barriers>>

\* What needs no model call is concluded first; the rest is asked about.
Classify ==
    /\ pass.pc = "begin"
    /\ IF art.kind = "crash"
       THEN /\ IF Published /\ Resolved THEN End ELSE To("export")
            /\ UNCHANGED <<place, gap, report, receipt, pend>>
       ELSE IF ~art.pinned /\ art.class = "discard"    \* reject_availability_only
       THEN Reject("publication") /\ UNCHANGED pend
       ELSE /\ To(IF art.pinned \/ Refused THEN "fields"
                  ELSE IF Accepted /\ fields # "incomplete" /\ Resolved THEN "final"
                  ELSE "admit")
            /\ UNCHANGED <<place, gap, report, receipt, pend>>
    /\ UNCHANGED <<bounds, barriers>>

\* A finding the deadline leaves no time for is held at once.
Admit ==
    /\ pass.pc = "admit"
    /\ IF pass.expired THEN HoldPending
       ELSE To("quality") /\ UNCHANGED <<place, gap, report, receipt, pend>>
    /\ UNCHANGED <<bounds, barriers>>

\* _batch_quality_votes and validate_one_finding up to the trigger stage.
QualityRound ==
    /\ pass.pc = "quality"
    /\ \/ pass.expired /\ Cut /\ UNCHANGED trouble
       \/ /\ Accepted /\ ~pass.expired /\ To("fields")
          /\ UNCHANGED <<place, gap, report, receipt, pend, trouble>>
       \/ Refused /\ ~pass.expired /\ Reject("quality") /\ UNCHANGED <<pend, trouble>>
       \/ /\ ~Accepted /\ ~Refused /\ ~pass.expired
          /\ \/ quality' = [quality EXCEPT !.acc = @ + 1]
             \/ quality' = [quality EXCEPT !.rej = @ + 1]
          /\ Outdated
          /\ UNCHANGED <<place, gap, fields, fills, vote, pend, pass, trouble>>
       \/ ~Accepted /\ ~Refused /\ ~pass.expired /\ Trouble /\ HoldPending
    /\ UNCHANGED <<changes, barriers>>

\* export-repro rewrites the report; a bundle it can never export is demoted.
Export ==
    /\ pass.pc = "export"
    /\ \/ /\ art.class = "memory" /\ gap = "none" /\ ~art.exported /\ ~pass.expired
          /\ \/ /\ art' = [art EXCEPT !.exported = TRUE]
                /\ vote' = Staled(vote) /\ Outdated /\ To("fields")
                /\ UNCHANGED <<lane, why, gap, fields, fills, quality, pend, trouble>>
             \/ Trouble /\ To("fields") /\ UNCHANGED <<place, gap, report, receipt, pend>>
             \/ Trouble /\ Demote
       \/ /\ art.class # "memory" \/ gap # "none" \/ art.exported \/ pass.expired
          /\ To(IF art.class = "memory" THEN "fields" ELSE "final")
          /\ UNCHANGED <<place, gap, report, receipt, pend, trouble>>
    /\ UNCHANGED <<changes, barriers>>

FieldsOwed == fields = "incomplete" /\ fills <= FillMax

\* A finding the cached fast path took asks for no review.
AfterFields == IF art.kind = "finding" /\ (art.pinned \/ Refused) THEN "final" ELSE "first"

\* converge_reach_fields: an answer counts whatever it contains, a missed one
\* does not.  Written fields carry an accepting quality verdict, not a refusal.
Fill ==
    /\ pass.pc = "fields"
    /\ \/ /\ FieldsOwed /\ ~pass.expired
          /\ fills' = fills + 1 /\ vote' = Annotated(vote) /\ Outdated
          /\ fields' \in Verdicts /\ To(AfterFields)
          /\ quality' = IF Accepted THEN quality ELSE [acc |-> 0, rej |-> 0]
          /\ UNCHANGED <<place, gap, pend, trouble>>
       \/ /\ FieldsOwed /\ ~pass.expired
          /\ fills' = fills + 1
          /\ UNCHANGED <<place, gap, fields, quality, vote, receipt, pend, pass, trouble>>
       \/ /\ FieldsOwed /\ ~pass.expired /\ Trouble /\ To(AfterFields)
          /\ UNCHANGED <<place, gap, report, receipt, pend>>
       \/ /\ ~FieldsOwed \/ pass.expired
          /\ To(AfterFields) /\ UNCHANGED <<place, gap, report, receipt, pend, trouble>>
    /\ UNCHANGED <<changes, barriers>>

\* Which reviews this pass asks for.  A crash is machine reproduced: its second
\* review is asked after a Reject only; a finding's after any settled first one.
Wanted(s) ==
    /\ Cur(s) = "none"
    /\ art.kind = "crash" =>
          /\ gap = "none" /\ art.exported
          /\ art.proof = "no" \/ (art.proof = "ambiguous" /\ s = "first")
    /\ s = "second" =>
          \/ Cur("first") = "Reject"
          \/ /\ art.kind = "finding" /\ art.proof = "no"
             /\ Cur("first") = "Promote" /\ ~Open(vote["first"])
    /\ s = "resolution" => Sources(vote) # {}

After(s) ==
    CASE s = "first" -> "second" [] s = "second" -> "resolution"
      [] s = "resolution" -> IF art.kind = "crash" THEN "final" ELSE "settle"

\* _batch_finding_trigger_votes, one round: the stale file goes first, then an
\* answer comes, or none does (after its one retry); or no reviewer could be
\* asked at all, and the round counts as tried under a provider limit only.
Ask(s) ==
    /\ pass.pc = s
    /\ \/ ~Wanted(s) /\ To(After(s)) /\ UNCHANGED <<vote, receipt, trouble>>
       \/ /\ Wanted(s) /\ ~pass.expired
          /\ \E a \in Answers :
                vote' = [vote EXCEPT ![s] = a,
                            !["resolution"] = IF s = "resolution" THEN a
                                              ELSE IF @ = None THEN None ELSE Stale]
          /\ pass' = [pass EXCEPT !.pc = After(s), !.tried = @ \cup {s}]
          /\ Outdated /\ UNCHANGED trouble
       \/ /\ Wanted(s)
          /\ IF pass.expired THEN UNCHANGED trouble ELSE Trouble
          /\ vote' = [vote EXCEPT ![s] = None]
          /\ pass' = [pass EXCEPT !.pc = After(s), !.tried = @ \cup {s}]
          /\ receipt' = [receipt EXCEPT !.cur = @ /\ vote[s] = None]
       \/ /\ Wanted(s) /\ Trouble /\ UNCHANGED <<vote, receipt>>
          /\ \E t \in {{}, {s}} : pass' = [pass EXCEPT !.pc = After(s), !.tried = @ \cup t]
    /\ UNCHANGED <<place, gap, fields, fills, quality, pend, changes, barriers>>

-----------------------------------------------------------------------------
(* Conclusions *)

ClearPend == pend' = [sig |-> "", n |-> 0]

\* triage_one_crash, from its first question to its last.
ConcludeCrash ==
    IF pass.expired THEN Cut
    ELSE IF art.class = "discard" THEN ClearPend /\ Reject("hard")
    ELSE IF gap # "none" THEN Hold(gap)
    ELSE IF art.class = "demote" THEN Demote
    ELSE IF ~art.exported THEN Hold("bundle")
    ELSE IF fields = "incomplete" THEN Hold("fields")
    ELSE /\ ClearPend
         /\ IF \/ art.proof = "no" /\ pass.tried # {} /\ ~Resolved
               \/ art.proof # "clear" /\ ~CrashRejected /\ \A s \in Deciding : Cur(s) = "none"
            THEN Conclude("pending")
            ELSE IF CrashRejected THEN Reject("trigger") ELSE Publish

\* _finalize_accepted_finding.
ConcludeFinding ==
    /\ CASE Disposition = "pending" -> Conclude("pending")
         [] Disposition = "rejected" -> Reject("trigger")
         [] Disposition = "not-reportable" -> Reject("publication")
         [] Disposition = "accepted" /\ fields = "incomplete" ->
               IF fills > FillMax THEN Reject("publication") ELSE Conclude("pending")
         [] OTHER -> Publish
    /\ UNCHANGED pend

\* A person's .keep or .reviewed overrides the reviews, not the fields; a
\* not-reportable verdict whose old severity could not be removed is held.
ConcludePinned ==
    LET st == IF fields = "incomplete" THEN "pending"
              ELSE IF fields = "promote" THEN "reportable" ELSE "not-reportable"
    IN /\ \/ Conclude(st) /\ UNCHANGED trouble
          \/ st = "not-reportable" /\ Trouble /\ Conclude("pending")
       /\ UNCHANGED pend

Finish ==
    /\ pass.pc = "final"
    /\ \/ art.kind = "crash" /\ ConcludeCrash /\ UNCHANGED trouble
       \/ art.kind = "finding" /\ art.pinned /\ ConcludePinned
       \/ /\ art.kind = "finding" /\ ~art.pinned /\ UNCHANGED trouble
          /\ IF pass.expired THEN Cut
             ELSE IF Accepted THEN ConcludeFinding
             ELSE IF Refused THEN Reject("quality") /\ UNCHANGED pend
             ELSE To("quality") /\ UNCHANGED <<place, gap, report, receipt, pend>>
    /\ UNCHANGED <<changes, barriers>>

\* The last lines of a disposition group: a review that was asked for and is
\* not there holds the finding, whatever the others say.
Settle ==
    /\ pass.pc = "settle"
    /\ IF \E s \in pass.tried : Cur(s) = "none" THEN HoldPending ELSE ConcludeFinding
    /\ UNCHANGED <<bounds, barriers>>

\* The move to the rejected lane, which ends _reject.
Move ==
    /\ pass.pc = "move"
    /\ lane' = "rejected" /\ End
    /\ UNCHANGED <<art, why, gap, report, receipt, pend, bounds, barriers>>

-----------------------------------------------------------------------------
(* What happens around a pass *)

Kill ==
    /\ pass.pc # "idle" /\ Trouble /\ End
    /\ UNCHANGED <<place, gap, report, receipt, pend, changes, barriers>>

Expire ==
    /\ pass.pc # "idle" /\ ~pass.expired /\ Trouble
    /\ pass' = [pass EXCEPT !.expired = TRUE]
    /\ UNCHANGED <<place, gap, report, receipt, pend, changes, barriers>>

Change == changes < MaxChanges /\ changes' = changes + 1

\* A session edits the report of an artifact no pass is at work on.
Edit ==
    /\ pass.pc = "idle" /\ lane = "active" /\ Change
    /\ fields' \in Verdicts \cup {"incomplete"} /\ gap' = "none"
    /\ vote' = Staled(vote) /\ quality' = [acc |-> 0, rej |-> 0] /\ Outdated
    /\ UNCHANGED <<place, fills, pend, pass, trouble, barriers>>

\* The attacker controls change: the reviews and the receipt were for others.
PolicyChange ==
    /\ pass.pc = "idle" /\ Change
    /\ vote' = Staled(vote) /\ Outdated
    /\ UNCHANGED <<place, gap, fields, fills, quality, pend, pass, trouble, barriers>>

\* A new trigger decision version: the reviews are stale, the receipt is not.
NewVersion ==
    /\ pass.pc = "idle" /\ Change
    /\ vote' = Staled(vote)
    /\ UNCHANGED <<place, gap, fields, fills, quality, receipt, pend, pass, trouble, barriers>>

PassStep ==
    \/ Classify \/ Admit \/ QualityRound \/ Export \/ Fill
    \/ (\E s \in Slots : Ask(s))
    \/ Finish \/ Settle \/ Move

Next ==
    \/ StartBarrier \/ StartSweep \/ PassStep
    \/ Kill \/ Expire
    \/ Edit \/ PolicyChange \/ NewVersion

\* The campaign keeps holding barriers, and a pass at work goes on.
Spec ==
    /\ Init /\ [][Next]_vars
    /\ WF_vars(PassStep) /\ SF_vars(StartBarrier)

-----------------------------------------------------------------------------
(* Properties *)

Disproofs == {s \in Slots : Cur(s) = "Reject" /\ vote[s].kind \in DispositiveKinds}

\* triage.py 2625-2676: no single review loses an artifact.  One is rejected as
\* unreachable or disproved on two reviews that say so, both given for the
\* report and the policy of that moment.
RejectedByTwo ==
    [][why' = "trigger" /\ why # "trigger" => Cardinality(Disproofs) >= 2]_vars

\* triage.py 1811-1872: what is published reportable has its boundary fields
\* within the contract, and a proof, a person's override or reviews that all
\* keep it and place it within the threat model.
PublishedInScope ==
    [][receipt' = [state |-> "reportable", cur |-> TRUE] /\ receipt # receipt' =>
          /\ fields \in {"promote", "out-of-model"}
          /\ \/ art.proof # "no" \/ art.pinned
             \/ /\ {Cur(s) : s \in Deciding} \ {"none"} = {"Promote"}
                /\ \A s \in Deciding : Cur(s) = "Promote" => vote[s].fit = "within"]_vars

\* triage.py 3020-3026, 4319-4350: a pass over a published artifact whose
\* reviews still settle it comes to the same verdict, unless it changed
\* something, met its deadline or met a failure.
VerdictRepeats ==
    [][Published /\ Resolved /\ ~pass.expired /\ PassStep /\ UNCHANGED <<art, report, trouble>>
          => Published']_vars

\* triage.py 2086-2187: only barriers age a bundle, so background sweeps never
\* reject a crash that sessions are still completing.
AgedAtBarriers == why = "aged" => barriers = PendingMax

\* triage.py 563-616: a rejection that rests on a review which is no longer
\* current is reopened by some later barrier.
StaleRejectionReopened ==
    lane = "rejected" /\ why \in {"trigger", "publication"} /\ vote["first"] = Stale
        ~> lane = "active"

\* triage.py 1124-1142, 2086-2187, 4281-4316: with passes that keep coming and
\* only finitely many failures, every artifact is published or rejected again
\* and again, never held pending for good, nor rejected for good on a stale
\* review.  A pinned finding whose fields no answer could complete waits for a
\* person.
Settled == lane = "rejected" \/ Published \/ (art.pinned /\ fields = "incomplete")
EventuallySettled == []<>Settled /\ StaleRejectionReopened

\* No verdict on one voice, none published out of scope, none that asking again
\* would change; and waiting counts against a bundle at barriers only.
VerdictsKept == []AgedAtBarriers /\ RejectedByTwo /\ PublishedInScope /\ VerdictRepeats

-----------------------------------------------------------------------------
(* A small instance: one artifact of each filing the gates treat differently *)

Crash(class, proof) == [kind |-> "crash", class |-> class, proof |-> proof, pinned |-> FALSE]
Finding(class, proof, pinned) ==
    [kind |-> "finding", class |-> class, proof |-> proof, pinned |-> pinned]

SomeFiled ==
    {Crash("memory", p) : p \in {"no", "clear", "ambiguous"}}
        \cup {Crash("discard", "no"), Crash("demote", "clear")}
        \cup {Finding("none", "no", pinned) : pinned \in BOOLEAN}
        \cup {Finding("discard", "no", FALSE), Finding("memory", "clear", FALSE)}
        \cup {Finding("none", "clear", TRUE)}

Given(v, kind, fit) == [v |-> v, kind |-> kind, fit |-> fit]

\* One review of each kind that some decision tells from the others.
SomeAnswers ==
    {Given("Promote", "", f) : f \in {"within", "unclear"}}
        \cup {Given("Reject", k, "outside") : k \in {"disproof", "no-added-boundary"}}
        \cup {Given("Uncertain", "", "within")}
=============================================================================
