------------------------------ MODULE MCQueue -------------------------------
(***************************************************************************)
(* The work queue, one question per behaviour: leases on one card ("lease", *)
(* two agents), the strategy lanes and the growing ranked batch ("lanes"), *)
(* how one batch is chosen from the ranked files ("window"), what a resume *)
(* tells an agent ("resume") and what the cards are made of ("history").   *)
(***************************************************************************)
EXTENDS WorkQueue, Lanes, Sequences, TLC
CONSTANTS a1, a2

\* The two agents are interchangeable: these are invariants and steps only.
AgentSymmetry == Permutations({a1, a2})

LanesOfFiles == <<{"S2", "S3"}, {"S2"}, {"S1"}>>

\* A ranked window of three holds two files: a companion takes a slot of it.
HeldFiles == <<1, 2, 2, 4>>

\* What the files of a tree may look like.
Profile(lanes, route, rule, near, score, tier, sub, edge, patched) ==
    [lanes |-> lanes, route |-> route, rule |-> rule, near |-> near, score |-> score,
     tier |-> tier, sub |-> sub, edge |-> edge, patched |-> patched]
Plain == Profile({}, FALSE, FALSE, FALSE, 0, 0, 1, TRUE, FALSE)
SomeProfiles ==
    {Plain,
     Profile({"S7"}, TRUE, FALSE, FALSE, 5, 0, 1, FALSE, FALSE),
     Profile({"S5", "S3"}, FALSE, TRUE, TRUE, 4, 0, 1, TRUE, TRUE),
     Profile({"S7", "S2", "S3"}, TRUE, FALSE, FALSE, 6, 1, 2, TRUE, FALSE),
     Profile({"S7"}, FALSE, FALSE, TRUE, 2, 0, 2, FALSE, FALSE),
     Profile({"S5"}, FALSE, FALSE, FALSE, 0, 1, 2, FALSE, TRUE)}

\* Two workers of one card, and how their runs may come out.
CardHyps == {"h1", "h2"}
Outcome(verdict, class, signals, notFiled) ==
    [verdict |-> verdict, class |-> class, signals |-> signals, notFiled |-> notFiled]
SomeOutcomes ==
    {Outcome("CRASH", "", {}, FALSE), Outcome("CRASH", "", {"crash-signal"}, TRUE),
     Outcome("NO_EXEC", "", {"budget-exhausted"}, FALSE), Outcome("NO_EXEC", "", {}, FALSE),
     Outcome("EXEC_FAIL", "input-rejected", {"format-reject"}, FALSE),
     Outcome("EXEC_FAIL", "loader", {}, FALSE), Outcome("MISSED", "", {"near-miss"}, FALSE),
     Outcome("CLEAN", "", {}, FALSE)}

\* A history with a branch (4) and an old defect (2) under newer commits.
BehindEach == <<{1}, {1, 2}, {1, 2, 3}, {1, 4}, {1, 2, 3, 5}>>
TouchedBy == <<{1}, {1, 2}, {2}, {3}, {4}>>
CallersEach == <<{4}, {1}, {}, {}>>

VARIABLE part    \* the component this behaviour is of

VARIABLES r_tree, r_limit, r_pin, r_delta, r_phase, r_tier, r_last, r_chosen, r_window,
          r_src, r_cache, r_used
Window == INSTANCE RankWindow WITH
    Files <- {1, 2, 3}, Profiles <- SomeProfiles, Limits <- {1, 2, 3}, Pins <- {"", "S3"},
    FloorMax <- 12, Share <- 2, TopN <- 2, MaxEdits <- 1, tree <- r_tree, limit <- r_limit,
    pin <- r_pin, delta <- r_delta, phase <- r_phase, tier <- r_tier, last <- r_last,
    chosen <- r_chosen, window <- r_window, src <- r_src, cache <- r_cache, used <- r_used
WindowVars == <<r_tree, r_limit, r_pin, r_delta, r_phase, r_tier, r_last, r_chosen, r_window, r_src,
    r_cache, r_used>>

VARIABLES t_status, t_order, t_runs, t_repo, t_since, t_head, t_dirty, t_art, t_phase, t_begun,
          t_clean, t_scope, t_rows, t_cards, t_graph, t_sig, t_queue, t_odd, t_moves, t_rounds
Steer == INSTANCE Steering WITH
    Agents <- {"s1", "s2"}, Hyps <- CardHyps, Cards <- {"k1"},
    AgentOf <- [h \in CardHyps |-> IF h = "h1" THEN "s1" ELSE "s2"],
    CardOf <- [h \in CardHyps |-> "k1"],
    Outcomes <- SomeOutcomes, Limit <- 2, StreakMin <- 2, MaxRuns <- 3,
    Repos <- {"full", "shallow", "gitfile", "none"}, Sinces <- {0, 1, 4, 9}, Heads <- {1, 3, 5},
    Commits <- 1 .. 5, Behind <- BehindEach, Touched <- TouchedBy, AllFiles <- 1 .. 4,
    Callers <- CallersEach, Named <- {2, 3}, Chores <- {5}, Releases <- {3}, Dated <- {2, 3, 5}, Boundary <- {1},
    Scanned <- 2, Budget <- 1, Cap <- 1, MaxMoves <- 2, MaxRounds <- 2,
    status <- t_status, order <- t_order, runs <- t_runs, repo <- t_repo, since <- t_since,
    head <- t_head, dirty <- t_dirty, art <- t_art, phase <- t_phase, begun <- t_begun,
    clean <- t_clean, scope <- t_scope, rows <- t_rows, cards <- t_cards, graph <- t_graph,
    sig <- t_sig, queue <- t_queue, odd <- t_odd, moves <- t_moves, rounds <- t_rounds
ResumeVars == <<t_status, t_order, t_runs>>
HistoryVars == <<t_repo, t_since, t_head, t_dirty, t_art, t_phase, t_begun, t_clean, t_scope,
    t_rows, t_cards, t_graph, t_sig, t_queue, t_odd, t_moves, t_rounds>>

-----------------------------------------------------------------------------
\* A component that is not asked about rests in an initial state, or is absent.
BaseRests == Init
RotationRests == LanesInit /\ mode = "free"
WindowAbsent ==
    /\ r_tree = 0 /\ r_limit = 0 /\ r_pin = 0 /\ r_delta = 0 /\ r_phase = 0 /\ r_tier = 0 /\ r_last = 0
    /\ r_chosen = 0 /\ r_window = 0 /\ r_src = 0 /\ r_cache = 0 /\ r_used = 0
ResumeAbsent ==
    /\ t_status = 0 /\ t_order = 0 /\ t_runs = 0
HistoryAbsent ==
    /\ t_repo = 0 /\ t_since = 0 /\ t_head = 0 /\ t_dirty = 0 /\ t_art = 0 /\ t_phase = 0 /\ t_begun = 0
    /\ t_clean = 0 /\ t_scope = 0 /\ t_rows = 0 /\ t_cards = 0 /\ t_graph = 0 /\ t_sig = 0 /\ t_queue = 0
    /\ t_odd = 0 /\ t_moves = 0 /\ t_rounds = 0

MCInit ==
    \/ part = "lease" /\ Init /\ RotationRests /\ WindowAbsent /\ ResumeAbsent /\ HistoryAbsent
    \/ part = "lanes" /\ LanesInit /\ BaseRests /\ WindowAbsent /\ ResumeAbsent /\ HistoryAbsent
    \/ part = "window" /\ Window!Init /\ BaseRests /\ RotationRests /\ ResumeAbsent /\ HistoryAbsent
    \/ part = "resume" /\ Steer!ResumeInit /\ BaseRests /\ RotationRests /\ WindowAbsent /\ HistoryAbsent
    \/ part = "history" /\ Steer!HistoryInit /\ BaseRests /\ RotationRests /\ WindowAbsent /\ ResumeAbsent

MCNext ==
    \/ part = "lease" /\ Next /\ UNCHANGED <<part, laneVars, WindowVars, ResumeVars, HistoryVars>>
    \/ part = "lanes" /\ LanesNext /\ UNCHANGED <<part, vars, WindowVars, ResumeVars, HistoryVars>>
    \/ part = "window" /\ Window!Next /\ UNCHANGED <<part, vars, laneVars, ResumeVars, HistoryVars>>
    \/ part = "resume" /\ Steer!ResumeNext /\ UNCHANGED <<part, vars, laneVars, WindowVars, HistoryVars>>
    \/ part = "history" /\ Steer!HistoryNext /\ UNCHANGED <<part, vars, laneVars, WindowVars, ResumeVars>>

mcVars == <<part, vars, laneVars, WindowVars, ResumeVars, HistoryVars>>

MCSpec ==
    /\ MCInit /\ [][MCNext]_mcVars

\* Bounds: what goes wrong from outside, one or two things at a time.
MCBound ==
    /\ part = "window" => /\ r_src > 0 => r_tree[1] = r_tree[2] /\ r_limit = 2 /\ r_pin = "" /\ ~r_delta
                          /\ r_delta => r_limit = 1 /\ r_pin = ""
    /\ part = "resume" /\ Len(t_runs) = 3 => t_runs[3].verdict \in {"CRASH", "EXEC_FAIL"}
    /\ part = "history" => /\ t_repo # "full" \/ t_since = 9 => t_moves + t_rounds <= 2
                           /\ t_repo = "none" => t_moves + t_rounds <= 1

-----------------------------------------------------------------------------
\* A window holds no more files than asked for, whole ones, buildable before
\* unbuildable, every lane served that has a card, in an order of current ranks.
\* A resume tells an agent of its own unfiled crash, lets no artifact of one worker
\* stand for another's, and sends it to repair its harness only when nothing ran.
\* A delta works on the commits of its range, their files and callers, and on no
\* more; a dormant history is mined, and a card claims its own files.
WorkSteered ==
    /\ part = "window" => Window!LimitBoundsFiles /\ Window!FileWhole /\ Window!BuiltBeforeRotated
                          /\ Window!LanesServed /\ Window!OrderIsCurrent
    /\ part = "resume" => Steer!CandidateShown /\ Steer!NoneStranded /\ Steer!SiblingsOnlyStreak
                          /\ Steer!RepairIsFor
    /\ part = "history" => Steer!DeltaExact /\ Steer!NeverWidens /\ Steer!ClaimsItsFiles
                           /\ Steer!DormantMined /\ Steer!MapIsOfInputs

=============================================================================
