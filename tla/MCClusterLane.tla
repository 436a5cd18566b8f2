--------------------------- MODULE MCClusterLane ----------------------------
(***************************************************************************)
(* What is found and where, one question per behaviour: the expansion of   *)
(* crash bundles into work ("lane", two bundles of one crash state and one *)
(* whose stack does not parse), the setup of the target ("target") and its *)
(* bootstrap ("setup").                                                    *)
(***************************************************************************)
EXTENDS ClusterLane, Sequences
CONSTANTS c1, c2, c3, s1

MCStateOf == [c \in {c1, c2, c3} |-> IF c = c3 THEN NoState ELSE s1]

InstallChain == [npm |-> <<[tool |-> "npm", does |-> "ci", mods |-> {}], [tool |-> "npm", does |-> "install", mods |-> {}]>>,
                 pnpm |-> <<[tool |-> "pnpm", does |-> "install", mods |-> {}]>>]

VARIABLE part    \* the component this behaviour is of

VARIABLES s_kind, s_tracked, s_src, s_tree, s_host, s_recipe, s_stamp, s_job, s_built,
          s_attempts, s_odd
Setup == INSTANCE Bootstrap WITH
    Kinds <- {"js", "perl", "dist", "python", "r", "rust"}, Managers <- <<"pnpm", "npm">>,
    Fallbacks <- <<"npm", "pnpm">>, Chain <- InstallChain, Declared <- "npm",
    Modules <- {"A", "B"}, Needs <- {"A", "B"}, Versions <- {1, 2}, MaxAttempts <- 2,
    MaxOdd <- 1, kind <- s_kind, tracked <- s_tracked, src <- s_src, tree <- s_tree,
    host <- s_host, recipe <- s_recipe, stamp <- s_stamp, job <- s_job, built <- s_built,
    attempts <- s_attempts, odd <- s_odd
SetupVars == <<s_kind, s_tracked, s_src, s_tree, s_host, s_recipe, s_stamp, s_job, s_built,
    s_attempts, s_odd>>

VARIABLES t_kind, t_able, t_head, t_co, t_recipe, t_tree, t_lib, t_tools, t_staged, t_toml,
          t_busy, t_job, t_status, t_runs, t_odd
Target == INSTANCE TargetSetup WITH
    TargetKinds <- {"native", "plain", "package", "language", "browser", "other"},
    Sans <- [k \in {"native", "plain", "package", "language", "browser", "other"} |->
                IF k = "native" THEN <<"asan", "ubsan">> ELSE <<"asan">>],
    Backends <- 2, Systems <- <<1, 2>>,
    OptionSets <- {{"source", "build"}, {"force", "update"}, {"update", "build", "no-llm-config"},
                   {"build", "force", "no-update"}},
    MaxRuns <- 2, MaxOdd <- 1, kind <- t_kind, able <- t_able, head <- t_head, co <- t_co,
    recipe <- t_recipe, tree <- t_tree, lib <- t_lib, tools <- t_tools, staged <- t_staged,
    toml <- t_toml, busy <- t_busy, job <- t_job, status <- t_status, runs <- t_runs, odd <- t_odd
TargetVars == <<t_kind, t_able, t_head, t_co, t_recipe, t_tree, t_lib, t_tools, t_staged, t_toml,
    t_busy, t_job, t_status, t_runs, t_odd>>
ASSUME SetupAssumption == Target!SetupConstants

-----------------------------------------------------------------------------
\* A component that is not asked about rests in an initial state, or is absent.
BaseRests == Init
SetupRests ==
    /\ s_job = Setup!Idle
    /\ s_kind = 0 /\ s_tracked = 0 /\ s_src = 0 /\ s_tree = 0 /\ s_host = 0
    /\ s_recipe = 0 /\ s_stamp = 0 /\ s_built = 0 /\ s_attempts = 0 /\ s_odd = 0
TargetAbsent ==
    /\ t_kind = 0 /\ t_able = 0 /\ t_head = 0 /\ t_co = 0 /\ t_recipe = 0 /\ t_tree = 0 /\ t_lib = 0
    /\ t_tools = 0 /\ t_staged = 0 /\ t_toml = 0 /\ t_busy = 0 /\ t_job = 0 /\ t_status = 0
    /\ t_runs = 0 /\ t_odd = 0

MCInit ==
    \/ part = "lane" /\ Init /\ SetupRests /\ TargetAbsent
    \/ part = "setup" /\ Setup!Init /\ BaseRests /\ TargetAbsent
    \/ part = "target" /\ Target!SetupInit /\ BaseRests /\ SetupRests

MCNext ==
    \/ part = "lane" /\ Next /\ UNCHANGED <<part, SetupVars, TargetVars>>
    \/ part = "setup" /\ Setup!Next /\ UNCHANGED <<part, vars, TargetVars>>
    \/ part = "target" /\ Target!SetupNext /\ UNCHANGED <<part, vars, SetupVars>>

mcVars == <<part, vars, SetupVars, TargetVars>>

MCSpec ==
    /\ MCInit /\ [][MCNext]_mcVars
    /\ WF_vars(part = "lane" /\ Watch) /\ WF_vars(part = "lane" /\ Done)
    /\ WF_vars(part = "lane" /\ ExpandScan) /\ WF_vars(part = "lane" /\ ExpandDecide)
    /\ \A c \in Crashes : WF_vars(part = "lane" /\ ExpandMint(c))
    /\ WF_vars(part = "lane" /\ SweepHandOver) /\ WF_vars(part = "lane" /\ BarrierHandOver)
    /\ WF_vars(part = "lane" /\ DrainReturn)
    /\ WF_SetupVars(part = "setup" /\ s_job # Setup!Idle /\ Setup!Steps)

-----------------------------------------------------------------------------
\* A recipe is of an attempt that ran to its end and runs again, a failed attempt
\* leaves what it found, the tracked manager comes first, a stamp is of the source
\* that was set up, and every attempt ends.  A setup keeps what an operator
\* curated and edited, replaces recipes and trees only by proved ones that nobody
\* uses, builds one checkout, names what it built, and has a route if it succeeds.
BootstrapKept ==
    /\ [](part = "setup" => Setup!TrackedManagerFirst)
    /\ [][part = "setup" => /\ Setup!RecipeReplays /\ Setup!RecipeIsWhole
                            /\ Setup!FailureLeavesNothing /\ Setup!StampIsOfSource]_SetupVars
    /\ [](part = "target" => Target!SetupTypeOK /\ Target!ToolsAreWhole)
    /\ [][part = "target" => /\ Target!CuratedKept /\ Target!RecipesAreProved /\ Target!InUseIsKept
                             /\ Target!OneCheckout /\ Target!EditsKept /\ Target!BuiltIsNamed
                             /\ Target!SuccessIsUsable]_TargetVars
    /\ ((part = "setup") => Setup!AttemptEnds)

=============================================================================
