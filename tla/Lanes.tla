------------------------------- MODULE Lanes -------------------------------
(***************************************************************************)
(* lib/audit_runner.py: which cards the audit has on its list, which       *)
(* strategy each slot works, and when the run has no work left.            *)
(*                                                                         *)
(* A generation refreshes the list, widens the rank window when every card *)
(* of it has been worked, puts starved slots on another lane, runs         *)
(* sessions, scores them (rotation) and asks whether anything is left.     *)
(* The list is made by external programs, which may fail.                  *)
(*                                                                         *)
(* Mode "free" follows the queue under the continuous scheduler; the       *)
(* pinned modes (prior fixes, S1, which the window bounds; peers' fixes,   *)
(* S6, which it does not; a lane of the ranked window) and "delta" are run *)
(* under the cohort scheduler, whose checks they are.                      *)
(***************************************************************************)
EXTENDS Integers, FiniteSets

CONSTANTS
    Modes,          \* of "free", "own" (S1), "peers" (S6), "ranked" (S2...), "delta"
    Slots,          \* 1 .. num_agents
    Reserved,       \* the slot the campaign may have, 0 when there is none
    Files,          \* numbered in the order a window picks them
    Campaign,       \* is there a campaign card?
    LanesOf,        \* LanesOf[f]: the strategies f's card serves
    Base,           \* RANK_WORK_LIMIT
    Held,           \* Held[w]: files in a ranked window of w; companions may take slots
    Dry, DryS1,     \* STRATEGY_DRY_THRESHOLD, STRATEGY_S1_DRY_THRESHOLD
    ForceExtra,     \* STRATEGY_FORCE_EXTRA
    MaxFails        \* bound: failures of the list's generators

Camp == 0           \* the campaign's card
Limits == 1 .. (Cardinality(Files) + Base)

ASSUME LanesAssumption ==
    /\ Files \subseteq Nat \ {Camp} /\ IsFiniteSet(Files)
    /\ \A f \in Files : LanesOf[f] # {} /\ "S4" \notin LanesOf[f]
    /\ 1 \in Slots /\ 0 \notin Slots /\ Campaign \in BOOLEAN
    /\ Base \in Nat \ {0} /\ MaxFails \in Nat
    /\ Held \in [Limits -> Nat]
    /\ \A v, w \in Limits : Held[v] <= v /\ (v <= w => Held[v] <= Held[w])
    /\ Dry \in Nat /\ DryS1 \in Nat /\ Dry <= DryS1 /\ ForceExtra \in Nat

WorkCards == Files \cup (IF Campaign THEN {Camp} ELSE {})
Lanes == (UNION {LanesOf[f] : f \in Files}) \cup {"S1", "S4"}
Serves(c) == IF c = Camp THEN {"S4"} ELSE LanesOf[c]
Pin == "S2"         \* the strategy of a pinned run
NoWork == -1

VARIABLES
    mode,
    listed,         \* work-cards.jsonl
    limit, core,    \* rank-work-window.json
    clean,          \* the refresh stamp matches the inputs
    bad,            \* s1/s6_source_degraded, delta_refresh_failed
    tried, shut,    \* cards with a hypothesis, open or not; cards closed for the run
    claim,          \* claim[c]: the slot whose lease is on c, or 0
    opened,         \* opened[a]: the card of a's open hypothesis, or NoWork
    lane, streak,   \* state/strategy-a, .agent_strategy_streak_a
    running,        \* slots whose session runs
    acted,          \* slots that did something this generation
    stage, iter, fails

list == <<listed, limit, core, clean, bad, fails>>
slots == <<lane, streak>>
queue == <<tried, shut, claim, opened>>
Pinned == mode \in {"own", "peers", "ranked"}
laneVars == <<mode, list, slots, queue, running, acted, stage, iter>>

Stages == {"refresh", "expand", "assign", "admit", "run", "recheck", "reassign", "last",
           "exhausted", "failed"}

\* The type of every variable; a hypothesis is open on a tried card of its slot's lane.
LanesTypeOK ==
    /\ mode \in Modes
    /\ listed \subseteq WorkCards /\ limit \in Nat \ {0} /\ core \in 0 .. Cardinality(Files)
    /\ clean \in BOOLEAN /\ bad \in BOOLEAN
    /\ tried \subseteq WorkCards /\ shut \subseteq tried
    /\ claim \in [WorkCards -> Slots \cup {0}]
    /\ opened \in [Slots -> WorkCards \cup {NoWork}]
    /\ \A a \in Slots : opened[a] # NoWork => opened[a] \in tried /\ lane[a] \in Serves(opened[a])
    /\ lane \in [Slots -> Lanes \cup {Pin}] /\ streak \in [Slots -> 0 .. (DryS1 + ForceExtra)]
    /\ running \subseteq Slots /\ acted \subseteq Slots
    /\ stage \in Stages
    /\ iter \in 0 .. 2 /\ fails \in 0 .. MaxFails

LanesInit ==
    /\ mode \in Modes
    /\ listed = {} /\ limit = Base /\ core = 0 /\ clean = FALSE /\ bad = FALSE
    /\ tried = {} /\ shut = {} /\ claim = [c \in WorkCards |-> 0]
    /\ opened = [a \in Slots |-> NoWork]
    /\ lane = [a \in Slots |-> IF Pinned THEN Pin ELSE "S1"]
    /\ streak = [a \in Slots |-> 0]
    /\ running = {} /\ acted = {} /\ stage = "refresh" /\ iter = 0 /\ fails = 0

-----------------------------------------------------------------------------
(* The list *)

\* The files a run may list, and what is on no window.
Pool == {f \in Files : Pinned => Pin \in LanesOf[f]}
Unranked == IF mode = "free" /\ Campaign THEN {Camp} ELSE {}

\* The window bounds the list; a peer's fixes and a delta are listed whole.
Grows == mode \notin {"peers", "delta"}

\* Prior fixes are taken one by one; a ranked file's cards of other lanes may
\* take slots of the window, which then has fewer files than asked for.
Room(w) == IF mode = "own" THEN w ELSE Held[w]

\* The first files of the pool, or all of them when there is room.
Windows(w) ==
    {S \in SUBSET Pool :
        /\ \A c \in S : \A d \in Pool : d < c => d \in S
        /\ Cardinality(S) <= Room(w)
        /\ S = Pool \/ Cardinality(S) = Room(w)}

\* What the generators list within a window.
Listings(w) == {S \cup Unranked : S \in IF Grows THEN Windows(w) ELSE {Pool}}

Core(S) == Cardinality(S \ {Camp})

\* refresh_work_cards.  The list is written, and the stamp and the window with
\* it; or patch-cards fails, which leaves those two alone; or the ranker (or
\* the pinned lane's own generator) fails and the stale list is removed.  A
\* delta run keeps its last one.
Refresh(w) ==
    \E S \in Listings(w) :
        \/ /\ listed' = S /\ limit' = w /\ core' = Core(S)
           /\ clean' = TRUE /\ bad' = FALSE /\ UNCHANGED fails
        \/ /\ fails < MaxFails /\ fails' = fails + 1 /\ UNCHANGED <<limit, core, clean>>
           /\ \/ mode = "free" /\ listed' = S /\ UNCHANGED bad
              \/ listed' = (IF mode = "delta" THEN listed ELSE {}) /\ bad' = TRUE

\* card_closed_for_run.
Closed(c) == c \in shut

Open(S) == {c \in S : ~Closed(c)}

\* claim_next_card with claim=False: what the queue would offer slot a.
Offers(a) ==
    {c \in Open(listed) : /\ lane[a] \in Serves(c) /\ claim[c] \in {0, a}
                          /\ \A b \in Slots : opened[b] # c}

Go(next) == stage' = next

\* The start of a generation; an unchanged stamp skips the refresh.
StartGeneration ==
    /\ stage = "refresh" /\ Go("expand")
    /\ iter' = IF iter < 2 THEN iter + 1 ELSE iter
    /\ IF clean THEN UNCHANGED list ELSE Refresh(limit)
    /\ claim' = [c \in WorkCards |-> IF \E a \in Slots : opened[a] = c THEN claim[c] ELSE 0]
    /\ UNCHANGED <<mode, slots, tried, shut, opened, running, acted>>

\* No slot is offered a card nobody has worked.
Spent == \A a \in Slots : Offers(a) \subseteq tried

\* The source filled the window, so it may hold more.
WindowFull == core >= limit

\* expand_work_cards_if_exhausted.
Expand ==
    IF Grows /\ Spent /\ WindowFull
    THEN Refresh(limit + Base) ELSE UNCHANGED list

ExpandStep ==
    /\ stage \in {"expand", "recheck"} /\ Go(IF stage = "expand" THEN "assign" ELSE "reassign")
    /\ Expand
    /\ UNCHANGED <<mode, slots, queue, running, acted, iter>>

-----------------------------------------------------------------------------
(* The lanes *)

\* _eligible_strategy_counts.
Count(l) == Cardinality({c \in Open(listed) : claim[c] = 0 /\ l \in Serves(c)})

\* The lane offers something, or the slot holds a lease or a hypothesis of it
\* (_agent_live_strategies).
Works(a) ==
    \/ Count(lane[a]) > 0
    \/ \E c \in WorkCards : (claim[c] = a \/ opened[a] = c) /\ lane[a] \in Serves(c)

\* initialize_agent_strategies: the reserved slot takes the campaign, the
\* others a supplied lane after the first, and S1 when there is none.
Targets(a) ==
    LET supplied == {l \in Lanes \ {"S1", "S4"} : Count(l) > 0}
    IN IF a = Reserved /\ Count("S4") > 0 THEN {"S4"}
       ELSE IF supplied # {} THEN supplied ELSE {"S1"}

Assign ==
    IF Pinned THEN UNCHANGED lane
    ELSE \E to \in [Slots -> Lanes \cup {Pin}] :
            /\ \A a \in Slots : to[a] \in (IF Works(a) THEN {lane[a]} ELSE Targets(a))
            /\ lane' = to

AssignStep ==
    /\ stage \in {"assign", "reassign"} /\ Go(IF stage = "assign" THEN "admit" ELSE "last")
    /\ Assign
    /\ UNCHANGED <<mode, list, streak, queue, running, acted, iter>>

\* should_skip_launch, without the primary's free pass.
Skips(a) == opened[a] = NoWork /\ Offers(a) = {}

\* Bug: a list that could not be made counts as an empty one.
LaneDoneDegraded == iter > 1

\* An empty list is the generator's answer after one discovery iteration, if
\* the generator ran; a ranked lane's empty list proves nothing.
LaneDone == mode \in {"own", "peers"} /\ ~bad /\ iter > 1

\* _fixed_lane_unavailable: the peers answered, with nothing.
Unavailable == mode = "peers" /\ clean /\ ~bad /\ listed = {}

\* fixed_lane_exhausted.
FixedLaneExhausted ==
    LET supplied == {c \in listed : Pin \in Serves(c)}
        pursued == \E a \in Slots : opened[a] # NoWork /\ (opened[a] \in supplied \/ lane[a] = Pin)
    IN /\ Pinned
       /\ \/ Unavailable
          \/ ~pursued /\ IF supplied = {} THEN LaneDone ELSE \A c \in supplied : Closed(c)

\* delta_queue_exhausted.
DeltaExhausted == mode = "delta" /\ \A a \in Slots : Skips(a)

\* run_iteration and run_continuous: stop, or launch the slots that have work;
\* the first slot always runs.
Admit ==
    /\ stage = "admit"
    /\ IF FixedLaneExhausted THEN Go("exhausted") /\ UNCHANGED running
       ELSE IF mode = "delta" /\ bad THEN Go("failed") /\ UNCHANGED running
       ELSE IF DeltaExhausted THEN Go("exhausted") /\ UNCHANGED running
       ELSE Go("run") /\ running' = {a \in Slots : a = 1 \/ ~Skips(a)}
    /\ acted' = {}
    /\ UNCHANGED <<mode, list, slots, queue, iter>>

-----------------------------------------------------------------------------
(* Sessions *)

\* A session takes a card ...
Claim(a) ==
    /\ a \in running /\ opened[a] = NoWork /\ \A c \in WorkCards : claim[c] # a
    /\ \E c \in Offers(a) : claim' = [claim EXCEPT ![c] = a]
    /\ UNCHANGED <<mode, list, slots, tried, shut, opened, running, acted, stage, iter>>

\* ... opens a hypothesis on it ...
Open1(a) ==
    /\ a \in running /\ opened[a] = NoWork
    /\ \E c \in Offers(a) :
          /\ claim[c] = a
          /\ opened' = [opened EXCEPT ![a] = c]
          /\ tried' = tried \cup {c}
    /\ acted' = acted \cup {a}
    /\ UNCHANGED <<mode, list, slots, shut, claim, running, stage, iter>>

\* ... and concludes it, and the card with it.  Nothing found closes a patch
\* card, and only "blocked" a ranked or the campaign's one; they stay on offer
\* otherwise.
Conclude(a) ==
    /\ a \in running /\ opened[a] # NoWork
    /\ claim' = [claim EXCEPT ![opened[a]] = IF @ = a THEN 0 ELSE @]
    /\ opened' = [opened EXCEPT ![a] = NoWork]
    /\ shut' \in {shut, shut \cup {opened[a]}}
    /\ UNCHANGED <<mode, list, slots, tried, running, acted, stage, iter>>

\* A session ends when it likes.
EndSession(a) ==
    /\ stage = "run" /\ a \in running /\ running' = running \ {a}
    /\ UNCHANGED <<mode, list, slots, queue, acted, stage, iter>>

-----------------------------------------------------------------------------
(* The end of a generation *)

\* Generations a slot has been dry for, this one included.
DryFor(a) ==
    IF a \in acted THEN 0 ELSE IF streak[a] < DryS1 + ForceExtra THEN streak[a] + 1 ELSE streak[a]

Threshold(l) == IF l = "S1" THEN DryS1 ELSE Dry

\* A slot leaves its lane when it has been dry for long and has nothing open.
Rotates(a, complete) ==
    /\ DryFor(a) >= Threshold(lane[a]) /\ opened[a] = NoWork
    /\ complete \/ DryFor(a) >= Threshold(lane[a]) + ForceExtra

\* A supplied lane, the unassigned ones first; any when no other is supplied.
Onto(a) ==
    LET others == {l \in Lanes \ {lane[a]} : Count(l) > 0}
        fresh == {l \in others : \A b \in Slots : lane[b] # l}
    IN IF fresh # {} THEN fresh ELSE IF others # {} THEN others ELSE Lanes

\* update_strategy_rotation.
Rotate ==
    \E complete \in BOOLEAN, pick \in [Slots -> Lanes \cup {Pin}] :
        /\ \A a \in Slots : pick[a] \in IF Rotates(a, complete) THEN Onto(a) ELSE {lane[a]}
        /\ lane' = pick
        /\ streak' = [a \in Slots |-> IF Rotates(a, complete) THEN 0 ELSE DryFor(a)]

Score ==
    /\ stage = "run" /\ running = {}
    /\ IF Pinned THEN UNCHANGED slots ELSE Rotate
    /\ Go(IF mode = "free" /\ \A a \in Slots : opened[a] = NoWork THEN "recheck" ELSE "refresh")
    /\ UNCHANGED <<mode, list, queue, running, acted, iter>>

\* all_work_sources_exhausted.
Recheck ==
    /\ stage = "last"
    /\ Go(IF \A a \in Slots : Skips(a) THEN "exhausted" ELSE "refresh")
    /\ UNCHANGED <<mode, list, slots, queue, running, acted, iter>>

Scheduler == StartGeneration \/ ExpandStep \/ AssignStep \/ Admit \/ Score \/ Recheck
Session(a) == Claim(a) \/ Open1(a) \/ Conclude(a)

LanesNext == Scheduler \/ \E a \in Slots : Session(a) \/ EndSession(a)

LanesSpec == LanesInit /\ [][LanesNext]_laneVars

-----------------------------------------------------------------------------
(* Properties *)

\* audit_runner.py 1444-1452, 1559-1579: whatever starves, refreshes and
\* rotates around it, a slot stays on its lane while a hypothesis of it is open.
LaneHeld == [][\A a \in Slots : opened[a] # NoWork => lane'[a] = lane[a]]_laneVars

\* audit_runner.py 1352-1399, 4595-4604: a free run that stops for want of work
\* has closed every card of its list or left it under an ended session's lease,
\* and the list is all there is, as far as a window with fewer files than asked
\* for says so, unless it could not be made.  The campaign's card counts where a
\* slot is reserved for it: a run of one slot never works it.
Finished ==
    /\ listed = Pool \cup Unranked \/ (Grows /\ ~WindowFull)
    /\ \A c \in listed : (c = Camp => Reserved \in Slots) => Closed(c) \/ claim[c] # 0
StopEarned == stage = "exhausted" /\ (mode = "free" => fails = 0) => Finished

\* audit_runner.py 1388-1393: the window stops growing once the source is in it.
WindowBounded == limit <= Cardinality(Files) + Base

\* The run stops for want of work only when no slot had any left, the ranked
\* batch grows within its bound, and a slot keeps its lane while it works.
LanesKept == [](StopEarned /\ WindowBounded) /\ LaneHeld

=============================================================================
