--------------------------- MODULE ProbeEvidence ---------------------------
(***************************************************************************)
(* The evidence of a crash bundle (src/lib/crash_bundle.py): what bin/probe *)
(* writes when a confirmed run is filed or refreshed, the comparison with  *)
(* the primary build, and the copies an agent publishes without the hidden *)
(* files, to which the probe's record is given back.                       *)
(*                                                                         *)
(* After it, the validation receipt of a finding or a crash                *)
(* (src/lib/validation_receipt.py): a review rests on both, and the host   *)
(* reads them apart, so the two run side by side.                          *)
(*                                                                         *)
(* A file is its content: equal digests are equal contents.  A sanitizer   *)
(* text is the run it is of.  Every write is a step of its own, so a kill  *)
(* can come between any two.  The probe holds the build it runs.           *)
(***************************************************************************)
EXTENDS Naturals, FiniteSets

CONSTANTS
    Filed,      \* bundle directories the probe files into
    Copy,       \* the directory an agent publishes its copy in
    Tests,      \* contents of a testcase
    Harnesses,  \* contents of a harness, positive numbers
    Outcomes,   \* how five runs on the primary build may end
    MaxBuilds, MaxProbes, MaxMishaps   \* bounds

VARIABLES
    dir,    \* directory -> its files
    bin,    \* "alt", "primary" -> the installed binary
    config, \* the build the probe selected
    job,    \* what a probe is at
    probes, \* confirmed runs
    mishaps \* edits, kills and changes of build

probeVars == <<dir, bin, config, job, probes, mishaps>>

None == 0
Dirs == Filed \cup {Copy}

\* The copy is no bundle of the probe's; contents are told from their absence.
ASSUME ProbeAssumption ==
    /\ Copy \notin Filed /\ None \notin Tests \cup Harnesses
    /\ MaxBuilds \in Nat /\ MaxProbes \in Nat /\ MaxMishaps \in Nat

Run(t, h, build, out) == [test |-> t, harness |-> h, bin |-> bin[build], build |-> build, out |-> out]
NoRun == [test |-> None, harness |-> None, bin |-> 0, build |-> "none", out |-> "none"]
Scribble == [NoRun EXCEPT !.build = "edited"]
Empty == [test |-> None, harness |-> None, san |-> NoRun, ident |-> {}, ctx |-> {},
          dsan |-> NoRun, diff |-> {}, exported |-> FALSE]
Idle == [at |-> "idle", d |-> Copy, new |-> FALSE, test |-> None, harness |-> None, run |-> NoRun]

AnyTest == Tests \cup {None}
AnyHarness == Harnesses \cup {None}
Configs == {"alt", "primary"}
Runs == [test : AnyTest, harness : AnyHarness, bin : Nat, build : Configs \cup {"none", "edited"},
         out : Outcomes \cup {"crash", "none"}]
Idents == [test : AnyTest, harness : AnyHarness, config : Configs]
Contexts == [ident : Idents, test : AnyTest, harness : AnyHarness, san : Runs, bin : Nat,
             config : Configs, whole : BOOLEAN]
Comparisons == [ident : Idents, test : AnyTest, san : Runs, bin : Nat,
                status : {"reproduced", "not-reproduced", "different-crash", "inconclusive"}]
BundleFiles == [test : AnyTest, harness : AnyHarness, san : Runs, ident : SUBSET Idents,
                ctx : SUBSET Contexts, dsan : Runs, diff : SUBSET Comparisons, exported : BOOLEAN]
Writes == {"ident", "test", "san", "harness", "context", "stamp"}
Jobs == [at : Writes \cup {"idle", "compare", "record", "result", "end"}, d : Dirs, new : BOOLEAN,
         test : AnyTest, harness : AnyHarness, run : Runs]

\* The type of every variable; a probe at work is at a bundle of its own.
ProbeTypeOK ==
    /\ dir \in [Dirs -> BundleFiles] /\ bin \in [Configs -> 1 .. MaxBuilds + 1]
    /\ config \in Configs
    /\ job \in Jobs /\ (job = Idle \/ (job.at # "idle" /\ job.d \in Filed))
    /\ probes \in 0 .. MaxProbes /\ mishaps \in 0 .. MaxMishaps

ProbeInit ==
    /\ dir = [d \in Dirs |-> Empty]
    /\ bin = [b \in Configs |-> 1]
    /\ config \in Configs
    /\ job = Idle /\ probes = 0 /\ mishaps = 0

-----------------------------------------------------------------------------
(* Reading evidence *)

\* _identity, without what does not vary here.
Identity(t, h) == [test |-> t, harness |-> h, config |-> config]

\* Bug: the harness is taken to be the one that ran.
RecordedAnyHarness(b) ==
    {c \in b.ctx : c.whole /\ c.test = b.test /\ c.san = b.san}

\* recorded_evidence_context: every file named is as it was recorded.
Recorded(b) ==
    {c \in b.ctx : /\ c.whole /\ c.test = b.test /\ c.san = b.san
                   /\ c.harness # None => c.harness = b.harness}

\* receipt_artifacts: no record leaves the choice to discovery, a record that
\* does not hold refuses.
ReceiptArtifacts(b) == IF b.ctx = {} THEN "guess" ELSE IF Recorded(b) = {} THEN "refused" ELSE "recorded"

\* verified_probe_context
Verified(b) == {c \in Recorded(b) : c.bin = bin[c.config] /\ b.ident = {c.ident}}

\* verified_primary_differential
Compared(b) ==
    {r \in b.diff : /\ r.san = b.dsan /\ r.bin = bin["primary"]
                    /\ \E c \in Verified(b) : c.config = "alt" /\ c.ident = r.ident /\ c.test = r.test}

-----------------------------------------------------------------------------
(* materialize *)

\* Bound on what comes from outside.
Mishap == mishaps < MaxMishaps /\ mishaps' = mishaps + 1

\* _own_revision: a bundle of this crash whose harness of the same name was
\* edited, not exported yet.
Revisable(b, h) ==
    /\ h # None /\ ~b.exported /\ b.san # NoRun
    /\ \E c \in b.ctx : c.whole /\ c.harness \notin {None, h} /\ c.config = config

\* A confirmed run: a repeated identity is a duplicate, a repeated route is
\* one too, else the bundle is revised or a new one is made.
Confirm(t, h) ==
    /\ job = Idle /\ probes < MaxProbes /\ probes' = probes + 1
    /\ LET twins == {d \in Filed : dir[d].ident = {Identity(t, h)}}
           routes == {d \in Filed : dir[d].san # NoRun /\ \E c \in dir[d].ctx : c.whole /\ c.harness = h /\ c.config = config}
           own == {d \in Filed : Revisable(dir[d], h)}
           free == {d \in Filed : dir[d] = Empty}
           todo(at, d) == [at |-> at, d |-> d, new |-> dir[d] = Empty, test |-> t, harness |-> h, run |-> Run(t, h, config, "crash")]
       IN \/ twins # {} /\ config = "alt" /\ \E d \in twins : job' = todo("compare", d)
          \/ twins = {} /\ routes = {} /\ own # {} /\ \E d \in own : job' = todo("ident", d)
          \/ twins = {} /\ routes = {} /\ own = {} /\ \E d \in free : job' = todo("ident", d)
    /\ UNCHANGED <<dir, bin, config, mishaps>>

Put(f, x, next) ==
    /\ dir' = [dir EXCEPT ![job.d][f] = x]
    /\ job' = [job EXCEPT !.at = next]
    /\ UNCHANGED <<bin, config, probes, mishaps>>

\* _write_probe_context: the file is truncated before it is whole.
Context(whole) ==
    LET b == dir[job.d] IN
    [ident |-> Identity(job.test, job.harness), test |-> b.test, harness |-> job.harness, san |-> b.san,
     bin |-> bin[config], config |-> config, whole |-> whole]

\* The writes of materialize, in their order.
Materialize ==
    \/ job.at = "ident" /\ Put("ident", {Identity(job.test, job.harness)}, "test")
    \/ job.at = "test" /\ Put("test", job.test, "san")
    \/ job.at = "san" /\ Put("san", job.run, IF job.harness = None THEN "context" ELSE "harness")
    \/ job.at = "harness" /\ Put("harness", job.harness, "context")
    \/ job.at = "context" /\ Put("ctx", {Context(FALSE)}, "stamp")
    \/ job.at = "stamp" /\ Put("ctx", {Context(TRUE)}, IF config = "alt" THEN "compare" ELSE "end")

\* A write that fails takes a new bundle along, and leaves a revised one as it is.
Fail ==
    /\ job.at \in Writes /\ Mishap
    /\ dir' = IF job.new THEN [dir EXCEPT ![job.d] = Empty] ELSE dir
    /\ job' = Idle
    /\ UNCHANGED <<bin, config, probes>>

\* materialize returns, or a comparison that is there already is kept.
End ==
    /\ job.at = "end" \/ (job.at = "compare" /\ Compared(dir[job.d]) # {})
    /\ job' = Idle
    /\ UNCHANGED <<dir, bin, config, probes, mishaps>>

-----------------------------------------------------------------------------
(* The comparison with the primary build *)

\* _run_primary_differential: five runs of the same inputs.
Compare(out) ==
    /\ job.at = "compare" /\ Compared(dir[job.d]) = {}
    /\ job' = [job EXCEPT !.at = "record", !.run = Run(job.test, job.harness, "primary", out)]
    /\ UNCHANGED <<dir, bin, config, probes, mishaps>>

Status(out) == CASE out = "crash" -> "reproduced" [] out = "clean" -> "not-reproduced"
                 [] out = "other" -> "different-crash" [] OTHER -> "inconclusive"

\* What record_primary_differential asks of the record and the result.
Recordable(c) == c.config = "alt" /\ job.test = c.test /\ job.run.bin = bin["primary"]

\* record_primary_differential: the text is replaced, then the result.
RecordText ==
    /\ job.at = "record"
    /\ IF \E c \in Verified(dir[job.d]) : Recordable(c)
       THEN dir' = [dir EXCEPT ![job.d].dsan = job.run] /\ job' = [job EXCEPT !.at = "result"]
       ELSE job' = Idle /\ UNCHANGED dir
    /\ UNCHANGED <<bin, config, probes, mishaps>>

RecordResult ==
    /\ job.at = "result"
    /\ \E c \in dir[job.d].ctx :
          dir' = [dir EXCEPT ![job.d].diff = {[ident |-> c.ident, test |-> c.test, san |-> job.run,
                                               bin |-> job.run.bin, status |-> Status(job.run.out)]}]
    /\ job' = Idle
    /\ UNCHANGED <<bin, config, probes, mishaps>>

-----------------------------------------------------------------------------
(* Copies *)

\* restore_probe_context: the one verified record of the same text, for a
\* testcase of the same content.
Source(b) ==
    {c \in UNION {Verified(dir[d]) : d \in {e \in Filed : dir[e].san = b.san}} : b.san # NoRun}

\* _restore_primary_differential: the one comparison there is, if it verifies.
WithComparison(b) ==
    LET found == {d \in Filed : Compared(dir[d]) # {}}
        with(d) == [b EXCEPT !.dsan = dir[d].dsan, !.diff = dir[d].diff]
        none == [b EXCEPT !.dsan = NoRun, !.diff = {}]
    IN IF Cardinality(UNION {Compared(dir[d]) : d \in found}) # 1 THEN b
       ELSE LET d == CHOOSE x \in found : TRUE IN IF Compared(with(d)) = {} THEN none ELSE with(d)

\* The restored record must verify where it is now, or goes again.
Kept(b) == IF Verified(b) # {} THEN WithComparison(b) ELSE [b EXCEPT !.ident = {}, !.ctx = {}]

Restore ==
    /\ job = Idle /\ Verified(dir[Copy]) = {}
    /\ Cardinality(Source(dir[Copy])) = 1
    /\ LET c == CHOOSE x \in Source(dir[Copy]) : TRUE
           b == [dir[Copy] EXCEPT !.ident = {c.ident}, !.ctx = {c}]
       IN /\ b.test = c.test
          /\ dir' = [dir EXCEPT ![Copy] = Kept(b)]
    /\ UNCHANGED <<bin, config, job, probes, mishaps>>

\* A kill between the replacements of restore_probe_context.
RestoreCut ==
    /\ job = Idle /\ Mishap /\ Verified(dir[Copy]) = {} /\ Cardinality(Source(dir[Copy])) = 1
    /\ \E c \in Source(dir[Copy]) : dir[Copy].test = c.test /\ dir' = [dir EXCEPT ![Copy].ident = {c.ident}]
    /\ UNCHANGED <<bin, config, job, probes>>

-----------------------------------------------------------------------------
(* The world around *)

\* An agent publishes what it sees of a bundle, with or without the harness.
Publish(d) ==
    /\ dir[d].san # NoRun /\ dir[d].test # None /\ dir[Copy] = Empty
    /\ \E h \in {None, dir[d].harness} :
          dir' = [dir EXCEPT ![Copy] = [Empty EXCEPT !.test = dir[d].test, !.san = dir[d].san, !.harness = h]]
    /\ UNCHANGED <<bin, config, job, probes, mishaps>>

\* An agent, waiting for no probe, edits its testcase, harness or sanitizer text.
EditBundle(d) ==
    /\ job = Idle /\ Mishap /\ dir[d].test # None
    /\ \/ \E t \in Tests \ {dir[d].test} : dir' = [dir EXCEPT ![d].test = t]
       \/ \E h \in Harnesses \ {dir[d].harness} : dir' = [dir EXCEPT ![d].harness = h]
       \/ dir[d].san # NoRun /\ dir' = [dir EXCEPT ![d].san = Scribble]
    /\ UNCHANGED <<bin, config, job, probes>>

\* bin/export-repro takes the recorded inputs and files the rest under .audit.
Export(d) ==
    /\ job = Idle /\ ReceiptArtifacts(dir[d]) # "refused" /\ dir[d].test # None
    /\ dir' = [dir EXCEPT ![d].exported = TRUE]
    /\ UNCHANGED <<bin, config, job, probes, mishaps>>

\* A rebuild waits for the probe that holds the build.
Rebuild(b) ==
    /\ bin[b] < MaxBuilds /\ Mishap
    /\ job.at \notin {"idle", "record", "result"} => b # config
    /\ bin' = [bin EXCEPT ![b] = @ + 1]
    /\ UNCHANGED <<dir, config, job, probes>>

\* A later session probes on the other build.
Select ==
    /\ job = Idle /\ Mishap
    /\ config' \in Configs \ {config}
    /\ UNCHANGED <<dir, bin, job, probes>>

Kill ==
    /\ job # Idle /\ Mishap
    /\ job' = Idle
    /\ UNCHANGED <<dir, bin, config, probes>>

ProbeNext ==
    \/ \E t \in Tests, h \in Harnesses \cup {None} : Confirm(t, h)
    \/ Materialize \/ Fail \/ End \/ (\E o \in Outcomes : Compare(o)) \/ RecordText \/ RecordResult
    \/ Restore \/ RestoreCut \/ (\E d \in Filed : Publish(d))
    \/ (\E d \in Dirs : EditBundle(d)) \/ (\E d \in Filed : Export(d))
    \/ (\E b \in Configs : Rebuild(b)) \/ Select \/ Kill

-----------------------------------------------------------------------------
(* Properties *)

\* Whatever was refreshed, copied, edited, rebuilt or cut off: evidence that
\* verifies is a run of the very inputs that are there on the installed build.
VerifiedIsRun ==
    \A d \in Dirs : \A c \in Verified(dir[d]) :
        LET b == dir[d] IN
        /\ b.san.test = b.test /\ b.san.bin = bin[b.san.build] /\ b.san.build = c.config
        /\ c.harness # None => b.san.harness = b.harness

\* What export takes from the record is what ran, rebuilt or not.
RecordedRan ==
    \A d \in Dirs : ReceiptArtifacts(dir[d]) = "recorded" =>
        dir[d].san.test = dir[d].test /\ dir[d].san.harness \in {None, dir[d].harness}

\* A verified comparison is a run of the bundle's inputs on the primary build
\* that is installed, and says how it ended.
ComparedOnPrimary ==
    \A d \in Dirs : \A r \in Compared(dir[d]) :
        LET b == dir[d] IN
        /\ b.dsan.test = b.test /\ b.dsan.build = "primary" /\ b.dsan.bin = bin["primary"]
        /\ b.dsan.harness \in {None, b.harness}
        /\ r.status = Status(b.dsan.out)
-----------------------------------------------------------------------------
(***************************************************************************)
(* Receipts: the evidence one was written over, the source a review cited  *)
(* as the host found it, and when it still speaks for what is on disk.     *)
(*                                                                         *)
(* A review that was written cites one line of source: an anchor is the    *)
(* text of that line, and it verifies while the line reads so.  The form   *)
(* of a review file is what a transform may change in it: report digests,  *)
(* local paths.                                                            *)
(***************************************************************************)
CONSTANTS
    Texts,     \* contents of a report, a reproducer and the cited line
    Revs,      \* revisions; "" is an unpinned tree
    MaxEvents, \* bound on edits and changes of the host
    States,    \* verdicts
    MaxTicks   \* bound on votes, verdicts and transforms

VARIABLES
    bundle,     \* the artifact directory
    host,       \* TARGET_ROOT and what it holds, TARGET_REV
    validation, \* validation.json: none, or one record
    seen,       \* receipts snapshot_current_tree holds while a transform runs
    ticks, events,
    judged,     \* history: what the last review that wrote a receipt was of
    raced       \* history: an edit fell between a snapshot and its rewrite

receiptVars == <<bundle, host, validation, seen, ticks, events, judged, raced>>

Unset == "unset"
NoRev == ""
NoText == 0
Resting == [on |-> FALSE, prior |-> {}]

\* The first content is 1, and there is an unpinned tree.
ASSUME ReceiptAssumption ==
    /\ 1 \in Texts /\ NoText \notin Texts /\ NoRev \in Revs /\ Unset \notin Revs
    /\ MaxEvents \in Nat /\ MaxTicks \in Nat

AnyText == Texts \cup {NoText}
Reviews == [vote : {"Promote", "Reject"}, anchor : AnyText, form : {0, 1}]
Locations == {"root", "audit"}
Paths == {"here", "there"}
Claimed == [at : Locations, sha : Reviews, anchor : AnyText]
Sites == ({"root"} \X Paths) \cup ({"revision"} \X Revs)
Evidences == [report : AnyText, files : [proof : AnyText, review : SUBSET Reviews, place : Locations],
              rev : Revs, att : SUBSET Claimed, ctx : SUBSET Sites]
ReceiptRecords == [state : States, ev : Evidences, at : 0 .. MaxTicks]

\* The type of every variable; there is one receipt.
ReceiptTypeOK ==
    /\ bundle \in [report : AnyText, proof : AnyText, review : SUBSET Reviews, place : Locations, probed : Revs]
    /\ host \in [path : Paths, rev : Revs, line : Texts, declared : Revs \cup {Unset}]
    /\ validation \subseteq ReceiptRecords /\ \A p, q \in validation : p = q
    /\ seen \in [on : BOOLEAN, prior : SUBSET ReceiptRecords]
    /\ ticks \in 0 .. MaxTicks /\ events \in 0 .. MaxEvents
    /\ judged \subseteq [state : States, of : [report : AnyText, proof : AnyText,
                                             claims : SUBSET ({"Promote", "Reject"} \X AnyText)]]
    /\ raced \in BOOLEAN

ReceiptInit ==
    /\ \E p \in Revs : bundle = [report |-> 1, proof |-> 1, review |-> {}, place |-> "root", probed |-> p]
    /\ \E r \in Revs, d \in Revs \cup {Unset} :
          host = [path |-> "here", rev |-> r, line |-> 1, declared |-> d]
    /\ validation = {} /\ seen = Resting /\ ticks = 0 /\ events = 0 /\ judged = {} /\ raced = FALSE

-----------------------------------------------------------------------------
(* The source a review is of *)

\* _new_source_context: a revision the checkout is at, else this checkout.
NewContext(rev) ==
    CASE host.declared \notin {Unset, rev} -> {}
      [] rev = NoRev -> {<<"root", host.path>>}
      [] host.rev = rev -> {<<"revision", rev>>}
      [] host.declared = rev /\ host.rev = NoRev -> {<<"root", host.path>>}
      [] OTHER -> {}

\* _stored_source_context_valid
Valid(c, rev) == c[1] = "revision" => c[2] # NoRev /\ c[2] = rev

\* _source_context_matches
Matches(c, rev) == Valid(c, rev) /\ c[2] = IF c[1] = "root" THEN host.path ELSE host.rev

\* _source_attestations: what verify_source_anchors confirms now.
Attest(b) == {[at |-> b.place, sha |-> r, anchor |-> r.anchor] : r \in {x \in b.review : x.anchor = host.line}}

\* _rebind_source_attestations: saved anchors follow their review file, by
\* name; one that is no longer in it makes the whole set fail.
Follows(b, a) == {r \in b.review : r.anchor = a.anchor}
Rebound(b, saved) ==
    {[at |-> b.place, sha |-> CHOOSE r \in Follows(b, a) : TRUE, anchor |-> a.anchor] : a \in saved}

Claims(att) == {a.anchor : a \in att}

-----------------------------------------------------------------------------
(* Evidence *)

Evidence(b, rev, att, ctx) ==
    [report |-> b.report, files |-> [proof |-> b.proof, review |-> b.review, place |-> b.place],
     rev |-> rev, att |-> att, ctx |-> ctx]

\* Pending and rejected artifacts may lack a report.
Whole(b, state) == b.report # NoText \/ state \in {"pending", "rejected"}

\* evidence_record of a new review: source claims only of a checkout that is known.
Fresh(b, rev, state) ==
    LET ctx == NewContext(rev)
        att == IF ctx = {} THEN {} ELSE Attest(b)
    IN IF ~Whole(b, state) THEN {} ELSE {Evidence(b, rev, att, IF att = {} THEN {} ELSE ctx)}

\* evidence_record over saved claims: never a new one, and all of them live
\* where the checkout is the one they describe.
Preserved(b, ev, state) ==
    LET here == \E c \in ev.ctx : Matches(c, ev.rev)
        back == Rebound(b, ev.att)
    IN IF \/ ~Whole(b, state)
          \/ \E c \in ev.ctx : ~Valid(c, ev.rev)
          \/ \E a \in ev.att : Follows(b, a) = {}
          \/ ev.ctx # {} /\ back = {}
          \/ here /\ Claims(back) # Claims(Attest(b))
       THEN {} ELSE {Evidence(b, ev.rev, IF here THEN Attest(b) ELSE back, ev.ctx)}

\* read_current
Current ==
    {p \in validation : /\ host.declared \in {Unset, p.ev.rev}
                     /\ Preserved(bundle, p.ev, p.state) = {p.ev}}

\* Bug: every pass stamps its own clock.
ClockNow(state, ev, kept) == IF kept # {} THEN CHOOSE t \in kept : TRUE ELSE ticks

\* _unchanged_verdict_clock, then the clock handed over, then the time.
ClockOf(state, ev, kept) ==
    LET same == {p \in validation : p.state = state /\ p.ev = ev} IN
    IF same # {} THEN (CHOOSE p \in same : TRUE).at
    ELSE IF kept # {} THEN CHOOSE t \in kept : TRUE ELSE ticks

\* write; evidence that cannot be read leaves the receipt that is there.
Written(state, evs, kept) ==
    IF evs = {} THEN validation ELSE {[state |-> state, ev |-> ev, at |-> ClockOf(state, ev, kept)] : ev \in evs}

-----------------------------------------------------------------------------
(* Reviews and transforms *)

Meaning == [report |-> bundle.report, proof |-> bundle.proof, claims |-> {<<r.vote, r.anchor>> : r \in bundle.review}]

Tick == ticks < MaxTicks /\ ticks' = ticks + 1

\* A reviewer's answer: it cites the line as it reads now, or something else.
Vote ==
    /\ ~seen.on /\ Tick
    /\ \E v \in {"Promote", "Reject"}, a \in {NoText, host.line} :
          bundle' = [bundle EXCEPT !.review = {[vote |-> v, anchor |-> a, form |-> 0]}]
    /\ UNCHANGED <<host, validation, seen, events, judged, raced>>

\* The revision of the environment, else the probe's.
Revision == IF host.declared \in {Unset, NoRev} THEN bundle.probed ELSE host.declared

JudgeArtifact(state) ==
    /\ ~seen.on /\ Tick
    /\ LET evs == Fresh(bundle, Revision, state) IN
       /\ validation' = Written(state, evs, {})
       /\ judged' = IF evs = {} THEN judged ELSE {[state |-> state, of |-> Meaning]}
       /\ raced' = IF evs = {} THEN raced ELSE FALSE
    /\ UNCHANGED <<bundle, host, seen, events>>

\* snapshot_current_tree
Snapshot ==
    /\ ~seen.on
    /\ seen' = [on |-> TRUE, prior |-> Current]
    /\ UNCHANGED <<bundle, host, validation, ticks, events, judged, raced>>

\* Path scrubbing, rate annotation and export, then
\* rewrite_after_equivalent_transform of what was current.
Transformed(move) ==
    [bundle EXCEPT !.place = IF move THEN "audit" ELSE @, !.review = {[r EXCEPT !.form = 1] : r \in @}]

Rewrite(move) ==
    /\ seen.on /\ Tick
    /\ bundle' = Transformed(move)
    /\ validation' = IF seen.prior = {} THEN validation
                  ELSE LET p == CHOOSE q \in seen.prior : TRUE
                       IN Written(p.state, Preserved(bundle', p.ev, p.state), {p.at})
    /\ seen' = Resting
    /\ UNCHANGED <<host, events, judged, raced>>

Event == events < MaxEvents /\ events' = events + 1

\* A kill after the transform, before the receipt was written again.
Cut(move) ==
    /\ seen.on /\ Event
    /\ bundle' = Transformed(move)
    /\ seen' = Resting
    /\ UNCHANGED <<host, validation, ticks, judged, raced>>

\* An agent edits what was judged.
EditJudged ==
    /\ Event
    /\ \E t \in Texts : \/ bundle' = [bundle EXCEPT !.report = t]
                        \/ bundle' = [bundle EXCEPT !.proof = t]
                        \/ bundle' = [bundle EXCEPT !.report = NoText]
    /\ raced' = (raced \/ seen.prior # {})
    /\ UNCHANGED <<host, validation, seen, ticks, judged>>

\* The tree is edited, committed or checked out, moved, or another revision
\* is declared.
Host ==
    /\ Event
    /\ \/ \E t \in Texts \ {host.line} : host' = [host EXCEPT !.line = t]
       \/ \E r \in Revs \ {NoRev, host.rev}, t \in Texts : host.rev # NoRev /\ host' = [host EXCEPT !.rev = r, !.line = t]
       \/ \E t \in Texts : host' = [host EXCEPT !.path = "there", !.line = t]
       \/ \E d \in Revs \cup {Unset} : host' = [host EXCEPT !.declared = d]
    /\ UNCHANGED <<bundle, validation, seen, ticks, judged, raced>>

ReceiptNext ==
    \/ Vote \/ (\E s \in States : JudgeArtifact(s))
    \/ Snapshot \/ (\E m \in BOOLEAN : Rewrite(m) \/ Cut(m))
    \/ EditJudged \/ Host

-----------------------------------------------------------------------------
(* Properties *)

\* A receipt that is current is of what was judged: over transforms, kills,
\* edits and other checkouts, unless an edit fell into a transform.
CurrentIsJudged ==
    \A p \in Current : raced \/ \E j \in judged : j.state = p.state /\ j.of = Meaning

\* Cited source that a current receipt vouches for reads as it was cited,
\* wherever the checkout is the one it was cited from.
AttestedIsLive ==
    \A p \in Current : (\E c \in p.ev.ctx : Matches(c, p.ev.rev)) => \A a \in p.ev.att : a.anchor = host.line

\* A receipt vouches for no source without saying which.
AttestedIsPlaced == \A p \in Current : p.ev.att # {} => p.ev.ctx # {}

\* A transform of a current artifact leaves it current with its state.
TransformKeeps ==
    [][\A p \in Current \cap seen.prior : seen.on /\ ~seen'.on /\ events' = events =>
           \E q \in Current' : q.state = p.state /\ q.at = p.at]_receiptVars

\* The same verdict over the same evidence keeps the time it landed.
ClockKept ==
    [][\A p \in validation, q \in validation' : p.state = q.state /\ p.ev = q.ev => p.at = q.at]_receiptVars
-----------------------------------------------------------------------------
(* The probe's files beside it *)

\* Both sides, each by steps of its own.
EvidenceSpec ==
    /\ ProbeInit /\ [][ProbeNext]_probeVars
    /\ ReceiptInit /\ [][ReceiptNext]_receiptVars

\* Over kills, edits, copies and rebuilds, evidence that verifies is a run of the
\* inputs that are there on the installed build, and a receipt that is current is
\* of what was judged, of source that still reads so, and keeps its time.
EvidenceKept ==
    /\ [](ProbeTypeOK /\ VerifiedIsRun /\ RecordedRan /\ ComparedOnPrimary)
    /\ [](ReceiptTypeOK /\ CurrentIsJudged /\ AttestedIsLive /\ AttestedIsPlaced)
    /\ TransformKeeps
    /\ ClockKept

=============================================================================
