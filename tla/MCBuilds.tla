------------------------------ MODULE MCBuilds ------------------------------
(***************************************************************************)
(* The build of a target, one question per behaviour: the lease when a kill *)
(* takes the recipe along and removals succeed ("lease", three processes), *)
(* the lease with neither ("hard", two processes), build freshness with    *)
(* the preflight ("fresh"), and fuzz harnesses ("harness").                *)
(***************************************************************************)
EXTENDS BuildLease
CONSTANTS p1, p2, p3

VARIABLE part    \* the component this behaviour is of

VARIABLES h_sh, h_ex, h_pending, h_pc, h_lease, h_tree, h_backup, h_orphans, h_astray,
          h_newest
Hard == INSTANCE BuildLease WITH
    Procs <- {p1, p2}, MaxBuilds <- 2, CleanupFails <- TRUE, RecipeSurvives <- TRUE,
    sh <- h_sh, ex <- h_ex, pending <- h_pending, pc <- h_pc, lease <- h_lease,
    tree <- h_tree, backup <- h_backup, orphans <- h_orphans, astray <- h_astray,
    newest <- h_newest
HardVars == <<h_sh, h_ex, h_pending, h_pc, h_lease, h_tree, h_backup, h_orphans, h_astray, h_newest>>

VARIABLES f_src, f_recipe, f_host, f_vcs, f_tree, f_job, f_marker, f_mode, f_at, f_held,
          f_pin, f_measured, f_fed, f_gens, f_changes, f_kills
Preflight == INSTANCE BuildFresh WITH
    Kinds <- {"audit", "bench"}, Owned <- TRUE, MaxBuilds <- 3, MaxChanges <- 3,
    MaxKills <- 1, src <- f_src, recipe <- f_recipe, host <- f_host, vcs <- f_vcs,
    tree <- f_tree, job <- f_job, marker <- f_marker, mode <- f_mode, at <- f_at,
    held <- f_held, pin <- f_pin, measured <- f_measured, fed <- f_fed, gens <- f_gens,
    changes <- f_changes, kills <- f_kills
PreflightVars == <<f_src, f_recipe, f_host, f_vcs, f_tree, f_job, f_marker, f_mode, f_at, f_held, f_pin,
    f_measured, f_fed, f_gens, f_changes, f_kills>>


\* Two widths of one function, methods that share a name, one in a nested
\* namespace, a global function, a reserved name, and one that takes no input.
Names == {"f_16", "f_8", "zA", "zB", "zG", "zN", "_hide", "draw"}
WidthBase == [s \in Names |-> IF s \in {"f_16", "f_8"} THEN "f" ELSE ""]
Demangled ==
    [s \in Names |-> CASE s = "zA" -> <<"A", "parse">> [] s = "zB" -> <<"B", "parse">> [] s = "zG" -> <<"load">>
                       [] s = "zN" -> <<"N", "A", "read">> [] OTHER -> <<>>]
Spelled == {"f", "parse", "load", "read", "_hide", "draw"}
Library(runtime, hooks, exports) == [runtime |-> runtime, hooks |-> hooks, exports |-> exports]
CallsOf == [t \in {"t1", "t2", "forged"} |-> IF t = "t2" THEN {<<"A", "parse">>, <<"load">>} ELSE {<<"f">>}]

CONSTANTS b1, b2
VARIABLES k_lib, k_text, k_job, k_bins, k_mans, k_order, k_told, k_odd, k_was, k_events
Harness == INSTANCE FuzzHarness WITH
    Symbols <- <<"_hide", "draw", "f_16", "f_8", "zA", "zB", "zG", "zN">>, Base <- WidthBase,
    Qualified <- Demangled, Headers <- Spelled,
    ShapesOf <- [d \in Spelled |-> IF d = "draw" THEN {"handle"} ELSE {"buffer"}], Supplied <- {"buffer"},
    Reserved <- {"_hide"}, Texts <- {"t1", "t2", "forged"}, Calls <- CallsOf, Unfaithful <- {"forged"},
    OwnCalls <- {<<"A", "read">>}, Builders <- {b1, b2},
    Libraries <- {Library("shared", {}, {"f_8", "zA", "zG", "zN", "_hide"}),
                  Library("own", {"counters"}, {"f_8", "f_16", "zA", "zB", "draw"}),
                  Library("shared", {"guards"}, {"zG", "zB"})},
    Revs <- {1, 2}, MaxVersion <- 3, MaxEvents <- 4,
    lib <- k_lib, text <- k_text, job <- k_job, bins <- k_bins, mans <- k_mans, order <- k_order,
    told <- k_told, odd <- k_odd, was <- k_was, events <- k_events
HarnessVars == <<k_lib, k_text, k_job, k_bins, k_mans, k_order, k_told, k_odd, k_was, k_events>>

-----------------------------------------------------------------------------
\* A component that is not asked about rests in an initial state, or is absent.
BaseRests == Init /\ tree = Absent
HardRests == Hard!Init /\ h_tree = Absent
PreflightRests == Preflight!FreshInit /\ f_mode = "audit"
HarnessStarts == Harness!HarnessInit /\ k_text = "t1" /\ k_lib["plain"].sig = 1
HarnessRests ==
    /\ k_lib = 0 /\ k_text = 0 /\ k_job = 0 /\ k_bins = 0 /\ k_mans = 0
    /\ k_order = 0 /\ k_told = 0 /\ k_odd = 0 /\ k_was = 0 /\ k_events = 0

MCInit ==
    \/ part = "lease" /\ Init /\ HardRests /\ PreflightRests /\ HarnessRests
    \/ part = "hard" /\ Hard!Init /\ BaseRests /\ PreflightRests /\ HarnessRests
    \/ part = "fresh" /\ Preflight!FreshInit /\ BaseRests /\ HardRests /\ HarnessRests
    \/ part = "harness" /\ HarnessStarts /\ BaseRests /\ HardRests /\ PreflightRests

MCNext ==
    \/ part = "lease" /\ Next /\ UNCHANGED <<part, HardVars, PreflightVars, HarnessVars>>
    \/ part = "hard" /\ Hard!Next /\ UNCHANGED <<part, vars, PreflightVars, HarnessVars>>
    \/ part = "fresh" /\ Preflight!FreshNext /\ UNCHANGED <<part, vars, HardVars, HarnessVars>>
    \/ part = "harness" /\ Harness!HarnessNext /\ UNCHANGED <<part, vars, HardVars, PreflightVars>>

mcVars == <<part, vars, HardVars, PreflightVars, HarnessVars>>

MCSpec ==
    /\ MCInit /\ [][MCNext]_mcVars
    /\ \A p \in {p1, p2} : /\ WF_HardVars(part = "hard" /\ (Hard!Defer(p) \/ Hard!DeferExpires(p)))
                          /\ WF_HardVars(part = "hard" /\ (Hard!GrantSh(p) \/ Hard!GiveUpSh(p)))
    /\ WF_PreflightVars(part = "fresh" /\ Preflight!Steps)

-----------------------------------------------------------------------------
\* A consumer that defers to an announced rebuild uses the tree in the end,
\* also when the rebuilder was killed and its marker stayed.
ConsumerAlwaysProceeds ==
    /\ [](part = "hard" => Hard!TypeOK)
    /\ Hard!ConsumerProceeds

\* Between builds: what is offered depends on the source and the library only.
NoneAtWork == \A p \in {b1, b2} : k_job[p].pc = "off"

\* A tree reported fresh is of the current source, recipe and host; a benchmark
\* measures one generation; coverage comes from a sibling of the same source; and
\* the preflight comes to an answer.
PreflightSound ==
    /\ [](part = "fresh" => Preflight!FreshIsCurrent /\ Preflight!OneGeneration /\ Preflight!SiblingMatches)
    /\ Preflight!PreflightEnds
    /\ [](part = "harness" =>
           /\ Harness!GivenIsSound
           /\ Harness!RevertIsGiven
           /\ Harness!AnswerIsListed
           /\ Harness!GivenIsOfLibrary
           /\ (NoneAtWork => Harness!OfferedOnce /\ Harness!RouteAgrees))

=============================================================================
