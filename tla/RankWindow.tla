----------------------------- MODULE RankWindow -----------------------------
(***************************************************************************)
(* How the ranker decides which source files a run may work on             *)
(* (src/lib/workqueue.py): the cards a file is given, the buildability     *)
(* tiers, the rotation of strategies through a bounded window, the floor   *)
(* kept for files no pattern scores, and the model's second opinion with   *)
(* its cache.                                                              *)
(*                                                                         *)
(* A file is described by what its content and the build say of it: the    *)
(* strategies its patterns signal, its score, the buildability tier, its   *)
(* subsystem, whether its callers are receipted (an edge card) and whether *)
(* a prior fix touched it (a patch card).  The selection loops of          *)
(* select_strategy_window take one card per step.                          *)
(***************************************************************************)
EXTENDS Integers, FiniteSets, FiniteSetsExt, SequencesExt

CONSTANTS
    Files,      \* the auditable source files, numbered in name order
    Profiles,   \* what a file may look like
    Limits,     \* the window sizes a caller may ask for
    Pins,       \* the pinned strategy, "" for a mixed queue
    FloorMax,   \* RANK_WORK_DIVERSITY_FLOOR
    Share,      \* the floor is at most limit \div Share files
    TopN,       \* how many leads the model is shown
    MaxEdits    \* bound: how often the source changes

VARIABLES
    tree,       \* Files -> profile
    limit,      \* the window size of this ranking
    pin,        \* the pinned strategy
    delta,      \* TRUE: the ranking covers a commit range, not the tree
    phase,      \* where the ranking stands
    tier,       \* the buildability tier being filled
    last,       \* the strategy that took a card last in this tier
    chosen,     \* the cards taken so far
    window,     \* the cards handed to the run
    src,        \* the signature of the tracked source
    cache,      \* .work-rerank-cache.json: the last answer and what it answered
    used        \* the answer this ranking applied

vars == <<tree, limit, pin, delta, phase, tier, last, chosen, window, src, cache, used>>

(* _STRATEGY_BUCKETS, in precedence order *)
Buckets == <<"S7", "S5", "S2", "S3", "S8">>
Tiers == 0 .. 2
None == [src |-> -1]

Atleast1(n) == IF n < 1 THEN 1 ELSE n

-----------------------------------------------------------------------------
(* The cards of one file *)

(* strategy_for: a security decision makes S3 primary, S7 needs an input route *)
Signals(p) == {s \in p.lanes : s = "S7" => p.route}

Strategy(p) ==
    IF p.rule THEN "S3"
    ELSE LET hit == {i \in DOMAIN Buckets : Buckets[i] \in Signals(p)}
         IN IF hit = {} THEN "S1" ELSE Buckets[Min(hit)]

(* complementary_strategies, in precedence order, S1 last *)
Companions(p) ==
    SelectSeq(Buckets, LAMBDA s : s \in Signals(p) /\ s # Strategy(p))
        \o (IF p.near /\ Strategy(p) # "S1" THEN <<"S1">> ELSE <<>>)

(* annotate_card_buildability: 0 an object was found, 1 unknown or not built, 2 another platform *)
Tier(f) == tree[f].tier

Card(k, f, lane, score, n) ==
    [kind |-> k, file |-> f, lane |-> lane, score |-> score, tier |-> Tier(f), nth |-> n]

Scored(f) == tree[f].score > 0 \/ delta
Score(f) == IF Scored(f) THEN Atleast1(tree[f].score) ELSE 1

(* the strategy the card carries: a file no pattern scores is S1 work *)
Primary(f) == IF tree[f].score > 0 THEN Strategy(tree[f]) ELSE "S1"

(* load_patch_cards: a prior fix's own card stands on the file's S1 surface *)
Patches == {Card("patch", f, "S1", 9, 0) : f \in {g \in Files : tree[g].patched}}
Swallowed(f) == tree[f].patched /\ Primary(f) = "S1"

(* the ranked card and its companions; a surface a patch card holds is not carded twice *)
Ranked(f) ==
    IF Swallowed(f) THEN {}
    ELSE {Card("ranked", f, Primary(f), Score(f), 1)}
         \cup {Card("ranked", f, Companions(tree[f])[i], Atleast1(Score(f) - i), i + 1)
               : i \in {j \in DOMAIN Companions(tree[f]) :
                            ~ (tree[f].patched /\ Companions(tree[f])[j] = "S1")}}

(* call_edge_cards: one second-pass card for a fully receipted file with a primary card *)
Edge(f) ==
    IF tree[f].edge /\ ~ delta THEN {Card("edge", f, "S3", Atleast1(Score(f) - 1), 9)} ELSE {}

(* a file below the scorer gets a floor card, unless its own surface is a patch card's *)
FloorFile(f) == ~ Scored(f) /\ ~ (tree[f].patched /\ Strategy(tree[f]) = "S1")

Matches(c) == pin = "" \/ c.lane = pin

CardsOf ==
    {c \in Patches \cup UNION {Ranked(f) \cup (IF Swallowed(f) THEN {} ELSE Edge(f))
                               : f \in {g \in Files : Scored(g)}} : Matches(c)}

FloorCards ==
    {c \in UNION {{Card("ranked", f, "S1", 1, 1)} \cup Edge(f)
                  : f \in {g \in Files : FloorFile(g)}} : Matches(c)}

-----------------------------------------------------------------------------
(* The order of the queue *)

Lex(a, b) == \E i \in DOMAIN a : a[i] < b[i] /\ \A j \in 1 .. (i - 1) : a[j] = b[j]

(* a pinned lane spends its window on its own evidence first *)
Evidence(c) ==
    \/ pin \in {"", "S1"} \/ c.kind # "ranked"
    \/ IF pin = "S3" THEN tree[c.file].rule ELSE pin \in tree[c.file].lanes

Key(c) == << c.tier, IF Evidence(c) THEN 0 ELSE 1, IF c.kind = "patch" THEN 0 ELSE 1,
             0 - c.score, c.file, c.nth >>

First(S) == CHOOSE c \in S : \A d \in S \ {c} : Lex(Key(c), Key(d))

FilesOf(S) == {c.file : c \in S}
Ours(S) == {c \in S : c.kind # "patch"}
Of(S, t) == {c \in S : c.tier = t}

-----------------------------------------------------------------------------
(* select_diversity_floor: subsystems take turns, a selected file keeps all its cards *)

Reserve == Min({FloorMax, Atleast1(limit \div Share), Cardinality(FloorCards)})

HasFloor ==
    ~ delta /\ FloorMax > 0 /\ FloorCards # {} /\ ~ (Cardinality(CardsOf) >= limit /\ limit <= 1)

(* a file's turn: how many of its subsystem's files come before it *)
Turn(f) == << Cardinality({g \in FilesOf(FloorCards) : tree[g].sub = tree[f].sub /\ g < f}),
              tree[f].sub >>

FloorFiles ==
    {f \in FilesOf(FloorCards) :
        Cardinality({g \in FilesOf(FloorCards) : Lex(Turn(g), Turn(f))}) < Reserve}

FloorPick == IF HasFloor THEN {c \in FloorCards : c.file \in FloorFiles} ELSE {}

MainLimit == limit - Cardinality(FilesOf(FloorPick))

(* dedupe_work_cards: the window's own card on a surface wins *)
SurfaceOf(c) == <<c.file, IF c.kind = "edge" THEN "edge" ELSE c.lane>>
Deduped(S, floor) == S \cup {c \in floor : \A d \in S : SurfaceOf(c) # SurfaceOf(d)}

-----------------------------------------------------------------------------
(* The steps of a ranking *)

Start ==
    /\ phase = "rank"
    /\ chosen' = {} /\ tier' = 0 /\ last' = "" /\ used' = None
    /\ \/ /\ delta \/ Cardinality(CardsOf) <= MainLimit
          /\ window' = Deduped(CardsOf, FloorPick)
          /\ phase' = "selected"
       \/ /\ ~ delta /\ Cardinality(CardsOf) > MainLimit
          /\ window' = {}
          /\ phase' = "tier"
    /\ UNCHANGED <<tree, limit, pin, delta, src, cache>>

Room == MainLimit - Cardinality(chosen)

(* the first n cards of S in queue order *)
Best(S, n) ==
    {c \in S : Cardinality({d \in S : Lex(Key(d), Key(c))}) < n}

(* prior-fix cards of the tier are taken outright, up to the limit *)
EnterTier ==
    /\ phase = "tier" /\ Room > 0 /\ tier \in Tiers
    /\ chosen' = chosen \cup Best({c \in Of(CardsOf, tier) : c.kind = "patch"}, Room)
    /\ last' = ""
    /\ phase' = "rotate"
    /\ UNCHANGED <<tree, limit, pin, delta, tier, window, src, cache, used>>

(* the pools a tier rotates through, by the order their best card appears in *)
Pool(s) == {c \in Ours(Of(CardsOf, tier)) : c.lane = s /\ (c.kind = "edge" \/ s # "S1")}
Lanes == SetToSortSeq({s \in {c.lane : c \in CardsOf} : Pool(s) # {}},
                      LAMBDA a, b : Lex(Key(First(Pool(a))), Key(First(Pool(b)))))

Open(s) == {c \in Pool(s) : c.file \notin FilesOf(chosen)}
Position(s) == IF s = "" THEN 0 ELSE CHOOSE i \in DOMAIN Lanes : Lanes[i] = s
Able == {i \in DOMAIN Lanes : Open(Lanes[i]) # {}}

(* Bug: the first strategy with a file keeps the turn *)
NextLaneFirst == Lanes[Min(Able)]

(* whose turn it is: the next strategy after the last with a file not yet held *)
NextLane ==
    LET later == {i \in Able : i > Position(last)}
    IN Lanes[IF later # {} THEN Min(later) ELSE Min(Able)]

Rotate ==
    /\ phase = "rotate" /\ Room > 0 /\ Able # {}
    /\ last' = NextLane
    /\ chosen' = chosen \cup {First(Open(NextLane))}
    /\ UNCHANGED <<tree, limit, pin, delta, phase, tier, window, src, cache, used>>

(* no strategy has a new file: the rest of the tier, in queue order, edges excepted *)
Leftover == {c \in Of(CardsOf, tier) : c.kind # "edge" /\ c \notin chosen}

Fill ==
    /\ phase = "rotate"
    /\ Room <= 0 \/ Able = {}
    /\ chosen' = chosen \cup Best(Leftover, Room)
    /\ tier' = tier + 1
    /\ last' = ""
    /\ phase' = "tier"
    /\ UNCHANGED <<tree, limit, pin, delta, window, src, cache, used>>

(* every ranked card of a chosen file rides with it *)
Closed == chosen \cup {c \in Ours(CardsOf) : c.file \in FilesOf(Ours(chosen))}

Close ==
    /\ phase = "tier"
    /\ Room <= 0 \/ tier \notin Tiers
    /\ window' = Deduped(Closed, FloorPick)
    /\ phase' = "selected"
    /\ tier' = 0 /\ last' = "" /\ chosen' = {}
    /\ UNCHANGED <<tree, limit, pin, delta, src, cache, used>>

-----------------------------------------------------------------------------
(* llm_rerank_cards *)

(* one lead per file: the file's first card, for the first TopN files *)
LeadOf(f) == First({c \in window : c.file = f})
Leads == Best({LeadOf(f) : f \in FilesOf(window)}, TopN)

Identity == [src |-> src, pin |-> pin, leads |-> {<<c.kind, c.file, c.lane>> : c \in Leads}]

Answer(boosts) == [ident |-> Identity, src |-> src, leads |-> FilesOf(Leads), boosts |-> boosts]

(* the cached answer is used when it answered this very question *)
Hit == cache # None /\ cache.ident = Identity

Rerank ==
    /\ phase = "selected"
    /\ phase' = "done"
    /\ \/ Leads = {} /\ UNCHANGED <<cache, used>>
       \/ Leads # {} /\ Hit /\ used' = cache /\ UNCHANGED cache
       \/ /\ Leads # {} /\ ~ Hit
          /\ \E boosts \in SUBSET FilesOf(Leads) : cache' = Answer(boosts) /\ used' = Answer(boosts)
       \/ Leads # {} /\ ~ Hit /\ UNCHANGED <<cache, used>>   \* the call failed
    /\ UNCHANGED <<tree, limit, pin, delta, tier, last, chosen, window, src>>

(* the cards an answer lifts: those shown and the other cards of the same file *)
Lifted == IF used = None THEN {} ELSE {c \in window : c.file \in used.boosts}

(* the source is edited and the next iteration ranks again *)
Edit ==
    /\ phase = "done" /\ src < MaxEdits
    /\ src' = src + 1
    /\ \E f \in Files, p \in Profiles : tree' = [tree EXCEPT ![f] = p]
    /\ phase' = "rank"
    /\ window' = {} /\ used' = None
    /\ UNCHANGED <<limit, pin, delta, tier, last, chosen, cache>>

Init ==
    /\ tree \in [Files -> Profiles]
    /\ limit \in Limits
    /\ pin \in Pins
    /\ delta \in BOOLEAN
    /\ phase = "rank" /\ tier = 0 /\ last = "" /\ chosen = {} /\ window = {}
    /\ src = 0 /\ cache = None /\ used = None

Next == Start \/ EnterTier \/ Rotate \/ Fill \/ Close \/ Rerank \/ Edit

Spec == Init /\ [][Next]_vars

-----------------------------------------------------------------------------
TypeOK ==
    /\ limit \in Limits /\ pin \in Pins
    /\ phase \in {"rank", "tier", "rotate", "selected", "done"}
    /\ tier \in 0 .. 3 /\ src \in 0 .. MaxEdits
    /\ chosen \subseteq CardsOf
    /\ window \subseteq CardsOf \cup FloorCards
    /\ window # {} => chosen = {}

Selected == phase \in {"selected", "done"}

(* The limit bounds distinct files, floor included, whatever companions and   *)
(* edge cards ride along (select_strategy_window, rank_target).               *)
LimitBoundsFiles == Selected /\ ~ delta => Cardinality(FilesOf(window)) <= limit

(* A file enters the window with every strategy card and edge card it has, so *)
(* clean work of one strategy cannot stand for an untried one.                *)
FileWhole ==
    Selected =>
        \A c \in Ours(CardsOf) : c.file \in FilesOf(Ours(window) \cap CardsOf) => c \in window

(* Rotation never crosses a buildability tier: while a ranked file with       *)
(* compiled work is left out, no file all of whose work is worse is let in.   *)
BuiltBeforeRotated ==
    Selected =>
        \A c \in CardsOf \ window, d \in window \cap CardsOf :
            c.kind = "ranked" /\ d.kind # "patch" =>
                \E e \in CardsOf : e.file = d.file /\ e.tier <= c.tier

(* A window with a slot for each strategy of the first tier leaves each of    *)
(* them a card, unless every file it signals on is already a prior fix's.     *)
FirstTier == Min({c.tier : c \in CardsOf})
FreeLanes ==
    {c.lane : c \in {d \in CardsOf : d.tier = FirstTier /\ d.kind = "ranked" /\ d.lane # "S1"
                                   /\ ~ tree[d.file].patched}}
TierPatches == {c \in CardsOf : c.tier = FirstTier /\ c.kind = "patch"}
LanesServed ==
    Selected /\ CardsOf # {}
        /\ Cardinality(TierPatches)
             + Cardinality({c.lane : c \in Ours(Of(CardsOf, FirstTier))}) <= MainLimit
        => \A s \in FreeLanes : \E c \in window : c.lane = s /\ c.tier = FirstTier

(* The model's order is applied only to the source and the leads it was asked *)
(* about: an answer kept from before an edit is not replayed.                 *)
OrderIsCurrent ==
    phase = "done" /\ used # None =>
        used.src = src /\ FilesOf(Lifted) \subseteq FilesOf(Leads)

=============================================================================
