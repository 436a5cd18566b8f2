---------------------------- MODULE FuzzCampaign ----------------------------
(***************************************************************************)
(* lib/fuzz_campaign.py and the run command of bin/fuzz: short campaigns    *)
(* of fuzzing slices over a set of harnesses whose state, corpus and       *)
(* artifacts outlive them.                                                 *)
(*                                                                         *)
(* A campaign reads state.json, takes the one campaign slot of the results *)
(* tree, replays what earlier campaigns left pending through bin/probe,    *)
(* then runs slices until its wall is spent or no harness is left in       *)
(* rotation, saving after each.  Campaigns are killed anywhere.            *)
(* A slice's measurements are abstracted to what classify tells apart; the *)
(* UCB score to a choice among the harnesses that have run.                *)
(***************************************************************************)
EXTENDS Integers

CONSTANTS
    Procs, Harnesses,
    Artifacts,        \* inputs libFuzzer can save, by content
    Wall,             \* a campaign's wall
    Slice, MinSlice,  \* slice_seconds, MIN_SLICE_SECONDS
    Slack,            \* what run_timeout allows a slice over its window
    Reserve,          \* self.reserve: kept in hand for a replay
    MergeReserve,     \* MERGE_RESERVE_SECONDS
    MergeEvery,       \* MERGE_EVERY_SLICES
    SaturationSlices, RepeatSlices, NoiseSlices,
    MaxCorpus, MaxBuilds, MaxKills      \* bounds

Nobody == "nobody"
Unset == ""     \* no quarantine, no verdict, no harness
Revivable == {"saturated", "blocked-on-crash"}
Quarantine == Revivable \cup {"dead", "startup-crash", "noise-flood"}

ASSUME CampaignAssumption ==
    /\ Nobody \notin Procs /\ Unset \notin Harnesses
    /\ Wall \in Nat /\ Slice \in Nat /\ Slack \in Nat /\ MergeReserve \in Nat
    /\ MinSlice \in Nat \ {0} /\ Reserve \in Nat \ {0}
    /\ MergeEvery \in Nat /\ SaturationSlices \in Nat /\ RepeatSlices \in Nat /\ NoiseSlices \in Nat
    /\ MaxCorpus \in Nat \ {0} /\ MaxBuilds \in Nat /\ MaxKills \in Nat

\* What a slice or a merge may run over is covered by what is held back: so with
\* the default slice and any budget of two minutes or more.
OverrunsCovered == Slack <= Reserve /\ Slice + Slack <= MergeReserve + Reserve

Fresh(b) == [bin |-> b, ran |-> FALSE, dry |-> 0, rep |-> 0, noise |-> 0, since |-> 0,
             quar |-> Unset, cq |-> 0, seen |-> {}]

HarnessState ==
    [bin : 0 .. MaxBuilds, ran : BOOLEAN, dry : 0 .. SaturationSlices,
     rep : 0 .. RepeatSlices, noise : 0 .. NoiseSlices, since : 0 .. MergeEvery,
     quar : Quarantine \cup {Unset}, cq : 0 .. MaxCorpus, seen : SUBSET Artifacts]

Unloaded == [h \in Harnesses |-> Fresh(0)]

VARIABLES
    stateFile,    \* state.json
    built,        \* built[h]: the binary the manifest names
    corpus,       \* corpus[h]: how many inputs it holds
    artifacts,    \* artifacts[h]: artifacts/ of the harness
    slot,         \* holder of .campaign.lock
    mem,          \* mem[p]: the states p loaded
    doing,
    untried,      \* harnesses whose pending artifacts the holder has yet to replay
    at,           \* the harness of the slice under way
    route,        \* artifacts being replayed
    verdict,      \* of the slice under way
    left,         \* wall left to the holder
    judged,       \* history: <<harness, binary, artifact>> a probe adjudicated
    killed

tree == <<stateFile, built, corpus, artifacts, judged>>
turn == <<slot, untried, at, route, verdict, left>>
campaignVars == <<tree, turn, mem, doing, killed>>

Stages == {"off", "loaded", "pending", "replay", "select", "route", "settle", "merged"}

\* The type of every variable.
CampaignTypeOK ==
    /\ stateFile \in [Harnesses -> HarnessState]
    /\ built \in [Harnesses -> 0 .. MaxBuilds]
    /\ corpus \in [Harnesses -> 0 .. MaxCorpus]
    /\ artifacts \in [Harnesses -> SUBSET Artifacts]
    /\ slot \in Procs \cup {Nobody}
    /\ mem \in [Procs -> [Harnesses -> HarnessState]]
    /\ doing \in [Procs -> Stages]
    /\ untried \subseteq Harnesses /\ at \in Harnesses \cup {Unset}
    /\ route \subseteq Artifacts
    /\ verdict \in Quarantine \cup {"productive", "dry", Unset}
    /\ left \in Int
    /\ judged \subseteq Harnesses \X (0 .. MaxBuilds) \X Artifacts
    /\ killed \in 0 .. MaxKills

CampaignInit ==
    /\ stateFile = [h \in Harnesses |-> Fresh(0)]
    /\ built = [h \in Harnesses |-> 0]
    /\ corpus = [h \in Harnesses |-> 0]
    /\ artifacts = [h \in Harnesses |-> {}]
    /\ slot = Nobody
    /\ mem = [p \in Procs |-> Unloaded]
    /\ doing = [p \in Procs |-> "off"]
    /\ untried = {} /\ at = Unset /\ route = {} /\ verdict = Unset /\ left = 0
    /\ judged = {} /\ killed = 0

Goto(p, step) == doing' = [doing EXCEPT ![p] = step]
\* The process ends, and its memory with it.
Exit(p) == Goto(p, "off") /\ mem' = [mem EXCEPT ![p] = Unloaded]
Idle == slot' = Nobody /\ untried' = {} /\ at' = Unset /\ route' = {} /\ verdict' = Unset /\ left' = 0
Upto(n, bound) == IF n < bound THEN n ELSE bound

-----------------------------------------------------------------------------
(* Starting *)

\* Campaign.add: a rebuilt harness is a different experiment.
Added(s, b) == IF s.bin = b THEN s ELSE Fresh(b)

\* Campaign(): the states are read before the slot is asked for.
Load(p) ==
    /\ doing[p] = "off"
    /\ mem' = [mem EXCEPT ![p] = [h \in Harnesses |-> Added(stateFile[h], built[h])]]
    /\ Goto(p, "loaded")
    /\ UNCHANGED <<tree, turn, killed>>

\* exclusive(): a campaign that finds the slot taken does not wait for it.
Enter(p) ==
    /\ doing[p] = "loaded"
    /\ IF slot = Nobody
         THEN /\ slot' = p /\ left' = Wall /\ untried' = Harnesses
              /\ Goto(p, "pending") /\ UNCHANGED <<at, route, verdict, mem>>
         ELSE Exit(p) /\ UNCHANGED turn
    /\ UNCHANGED <<tree, killed>>

-----------------------------------------------------------------------------
(* Replays *)

\* unreplayed_artifacts: on disk, and not adjudicated for this binary.
Pending(h, s) == artifacts[h] \ s.seen

\* The next harness's pending artifacts; an empty corpus is seeded.
TakePending(p, h) ==
    /\ doing[p] = "pending" /\ h \in untried
    /\ untried' = untried \ {h} /\ at' = h
    /\ route' = Pending(h, mem[p][h])
    /\ corpus' = [corpus EXCEPT ![h] = IF @ = 0 THEN 1 ELSE @]
    /\ Goto(p, "replay")
    /\ UNCHANGED <<stateFile, built, artifacts, judged, slot, verdict, left, mem, killed>>

\* How long a replay, bounded by the wall left, may take.
ReplayTimes == {1, IF left > Reserve THEN left ELSE Reserve}

\* Bug: an artifact handed to probe is done with.
MarkedAlways(s, a, decided) == [s EXCEPT !.seen = @ \cup {a}]
\* An artifact is seen once probe has adjudicated it.
Marked(s, a, decided) == IF decided THEN [s EXCEPT !.seen = @ \cup {a}] ELSE s

\* route_artifacts: one replay through bin/probe.  One that reaches no verdict
\* ends the round.
Replay(p, a, decided) ==
    /\ doing[p] \in {"replay", "route"} /\ a \in route /\ left >= Reserve
    /\ \E d \in ReplayTimes : left' = left - d
    /\ mem' = [mem EXCEPT ![p][at] = Marked(@, a, decided)]
    /\ route' = IF decided THEN route \ {a} ELSE {}
    /\ judged' = IF decided THEN judged \cup {<<at, mem[p][at].bin, a>>} ELSE judged
    /\ UNCHANGED <<stateFile, built, corpus, artifacts, slot, untried, at, verdict, doing, killed>>

\* revive: a saturated or blocked harness, once its corpus has grown.
Revive(h, s) ==
    IF s.quar \in Revivable /\ corpus[h] > s.cq
      THEN [s EXCEPT !.quar = Unset, !.dry = 0, !.rep = 0] ELSE s

\* The round is over, or out of budget with artifacts left; the harnesses are
\* looked over after the last one.
EndReplay(p) ==
    /\ doing[p] = "replay" /\ (route = {} \/ left < Reserve)
    /\ route' = {} /\ at' = Unset
    /\ IF untried # {}
         THEN Goto(p, "pending") /\ UNCHANGED mem
         ELSE /\ mem' = [mem EXCEPT ![p] = [h \in Harnesses |-> Revive(h, mem[p][h])]]
              /\ Goto(p, "select")
    /\ UNCHANGED <<tree, slot, untried, verdict, left, killed>>

-----------------------------------------------------------------------------
(* Slices *)

\* The wall a replay needs is held back by shrinking the slice.
Window == IF Slice < left - Reserve THEN Slice ELSE left - Reserve

Live(p) == {h \in Harnesses : mem[p][h].quar = Unset}
\* select_next: every harness is tried once before any is tried twice.
Candidates(p) ==
    LET unrun == {h \in Live(p) : ~mem[p][h].ran}
    IN  IF unrun # {} THEN unrun ELSE Live(p)

\* What a slice can show: whether it got past its initial corpus, whether it
\* executed, an artifact, coverage that moved, a non-diagnostic end, and
\* whether the artifact is a seed of the corpus.
Outcomes ==
    {o \in [inited : BOOLEAN, alive : BOOLEAN, art : {{}} \cup {{a} : a \in Artifacts},
            moved : BOOLEAN, noisy : BOOLEAN, seeded : BOOLEAN] :
        /\ o.moved => o.inited
        /\ o.inited => o.alive
        /\ o.noisy => o.alive
        /\ o.seeded => o.art # {} /\ ~o.inited}

\* classify, in its order.
Classify(o, s) ==
    IF o.art # {} /\ ~o.inited THEN "startup-crash"
    ELSE IF ~o.alive /\ ~o.inited THEN "dead"
    ELSE IF o.noisy /\ ~o.moved /\ s.noise + 1 >= NoiseSlices THEN "noise-flood"
    ELSE IF o.moved THEN "productive"
    ELSE IF o.art # {} THEN IF s.rep + 1 >= RepeatSlices THEN "blocked-on-crash" ELSE "productive"
    ELSE IF s.dry + 1 >= SaturationSlices THEN "saturated" ELSE "dry"

\* _record: the streaks, and the corpus a revivable verdict was reached with.
Recorded(s, o, v, size) ==
    [s EXCEPT !.ran = TRUE,
              !.since = Upto(@ + 1, MergeEvery),
              !.dry = IF o.moved THEN 0 ELSE Upto(@ + 1, SaturationSlices),
              !.rep = IF o.art # {} /\ ~o.moved THEN Upto(@ + 1, RepeatSlices) ELSE 0,
              !.noise = IF o.noisy /\ ~o.moved THEN Upto(@ + 1, NoiseSlices) ELSE 0,
              !.cq = IF v \in Revivable THEN size ELSE @]

\* _drop_crashing_seeds: a seed whose bytes are a new artifact's is removed.
Dropped(h, o, s) == o.art \ s.seen # {} /\ o.seeded /\ corpus[h] > 0

\* run_slice, classify, _drop_crashing_seeds and _record; what is new goes to
\* replay.  The corpus grows when coverage moved.
RunSlice(p, h, o) ==
    /\ doing[p] = "select" /\ Window >= MinSlice /\ h \in Candidates(p)
    /\ \E d \in {1, Window + Slack} : left' = left - d
    /\ LET s == mem[p][h]
           drop == Classify(o, s) = "startup-crash" /\ Dropped(h, o, s)
           v == IF drop THEN "productive" ELSE Classify(o, s)
           size == IF drop THEN corpus[h] - 1
                   ELSE IF o.moved THEN Upto(corpus[h] + 1, MaxCorpus) ELSE corpus[h]
       IN  /\ verdict' = v
           /\ corpus' = [corpus EXCEPT ![h] = size]
           /\ mem' = [mem EXCEPT ![p][h] = Recorded(s, o, v, size)]
           /\ route' = o.art \ s.seen
    /\ artifacts' = [artifacts EXCEPT ![h] = @ \cup o.art]
    /\ at' = h
    /\ Goto(p, "route")
    /\ UNCHANGED <<stateFile, built, judged, slot, untried, killed>>

\* The slice's artifacts are routed; a verdict that quarantines is applied.
Settle(p) ==
    /\ doing[p] = "route" /\ (route = {} \/ left < Reserve)
    /\ mem' = IF verdict \in Quarantine
                THEN [mem EXCEPT ![p][at].quar = verdict] ELSE mem
    /\ route' = {}
    /\ Goto(p, "settle")
    /\ UNCHANGED <<tree, slot, untried, at, verdict, left, killed>>

\* _minimise is due, and the wall allows it.
MergeDue(s) == /\ s.since >= MergeEvery /\ corpus[at] >= 2
               /\ left >= MergeReserve + Reserve

\* The merge runs into a directory of its own; the old corpus is removed ...
Merge(p) ==
    /\ doing[p] = "settle" /\ verdict \notin Quarantine /\ MergeDue(mem[p][at])
    /\ \E d \in {1, Slice + Slack} : left' = left - d
    /\ mem' = [mem EXCEPT ![p][at].since = 0]
    /\ \/ corpus' = [corpus EXCEPT ![at] = 0] /\ Goto(p, "merged")
       \/ UNCHANGED corpus /\ doing' = doing      \* a failed merge keeps the corpus
    /\ UNCHANGED <<stateFile, built, artifacts, judged, slot, untried, at, route, verdict, killed>>

\* ... and the merged one renamed into its place.
Rename(p) ==
    /\ doing[p] = "merged"
    /\ corpus' = [corpus EXCEPT ![at] = 1]
    /\ Goto(p, "settle")
    /\ UNCHANGED <<stateFile, built, artifacts, judged, turn, mem, killed>>

\* save_states, and the next slice.
Save(p) ==
    /\ doing[p] = "settle" /\ (verdict \in Quarantine \/ ~MergeDue(mem[p][at]))
    /\ stateFile' = mem[p]
    /\ at' = Unset /\ verdict' = Unset
    /\ Goto(p, "select")
    /\ UNCHANGED <<built, corpus, artifacts, judged, slot, untried, route, left, mem, killed>>

\* The budget is spent, or every harness is quarantined.
EndCampaign(p) ==
    /\ doing[p] = "select" /\ (Window < MinSlice \/ Candidates(p) = {})
    /\ stateFile' = mem[p]
    /\ Idle /\ Exit(p)
    /\ UNCHANGED <<built, corpus, artifacts, judged, killed>>

-----------------------------------------------------------------------------
(* The world *)

\* bin/fuzz build replaces a harness's binary.
Rebuild(h) ==
    /\ built[h] < MaxBuilds
    /\ built' = [built EXCEPT ![h] = @ + 1]
    /\ UNCHANGED <<stateFile, corpus, artifacts, judged, turn, mem, doing, killed>>

\* A campaign is killed; the kernel frees its slot.
KillCampaign(p) ==
    /\ doing[p] # "off" /\ killed < MaxKills /\ killed' = killed + 1
    /\ IF slot = p THEN Idle ELSE UNCHANGED turn
    /\ Exit(p)
    /\ UNCHANGED tree

-----------------------------------------------------------------------------
Step(p) ==
    \/ Load(p) \/ Enter(p)
    \/ \E h \in Harnesses : TakePending(p, h)
    \/ \E a \in Artifacts, decided \in BOOLEAN : Replay(p, a, decided)
    \/ EndReplay(p)
    \/ \E h \in Harnesses, o \in Outcomes : RunSlice(p, h, o)
    \/ Settle(p) \/ Merge(p) \/ Rename(p) \/ Save(p) \/ EndCampaign(p)

CampaignNext ==
    \/ \E p \in Procs : Step(p) \/ KillCampaign(p)
    \/ \E h \in Harnesses : Rebuild(h)

\* Campaigns keep being started; a probe that is asked again and again about
\* one artifact reaches a verdict in the end.
CampaignFairness ==
    /\ \A p \in Procs : WF_campaignVars(Step(p)) /\ SF_campaignVars(Enter(p) /\ slot = Nobody)
    /\ \A p \in Procs, h \in Harnesses, a \in Artifacts :
          SF_campaignVars(at = h /\ Replay(p, a, TRUE))

CampaignSpec == CampaignInit /\ [][CampaignNext]_campaignVars /\ CampaignFairness

-----------------------------------------------------------------------------
(* Properties *)

\* An artifact is dropped from the replay queue only after bin/probe reached a
\* verdict on it under the binary the record is about, whatever campaigns
\* were killed, overlapped or ran out of wall meanwhile.
SeenIsJudged ==
    \A h \in Harnesses :
        /\ \A a \in stateFile[h].seen : <<h, stateFile[h].bin, a>> \in judged
        /\ \A p \in Procs : \A a \in mem[p][h].seen : <<h, mem[p][h].bin, a>> \in judged

\* "The budget is the whole campaign": slices, replays and merges together
\* never outrun the wall the campaign was given.
WallKept == left >= 0

\* A harness set aside returns to rotation in a campaign only with a corpus
\* larger than it was set aside with, and a broken one only rebuilt.
RotationEarned ==
    [][\A p \in Procs, h \in Harnesses :
          mem[p][h].quar # Unset /\ mem'[p][h].quar = Unset /\ doing'[p] # "off" =>
              mem[p][h].quar \in Revivable /\ corpus[h] > mem[p][h].cq]_campaignVars

\* Every artifact a campaign left behind is adjudicated by a later one, under
\* the binary the harness has by then.
PendingAdjudicated ==
    \A h \in Harnesses, a \in Artifacts :
        a \in artifacts[h] ~> <<h, built[h], a>> \in judged

\* A campaign stays within its wall, marks as seen only what a probe judged and
\* brings a harness back only for a grown corpus, over kills and rebuilds.
CampaignKept == [](SeenIsJudged /\ WallKept) /\ RotationEarned
=============================================================================
