----------------------------- MODULE BuildFresh -----------------------------
(***************************************************************************)
(* Which binary a run executes: the stamp a sanitizer build is given, the  *)
(* freshness it is read back as (src/lib/target_config.py), the preflight  *)
(* that converges, holds and verifies the builds before an audit or a      *)
(* benchmark starts (src/lib/build_preflight.py), the coverage sibling     *)
(* built beside the primary (src/lib/coverage_build.py) and the pin a      *)
(* benchmark checks before every cell.                                     *)
(*                                                                         *)
(* Source, recipe and host are versions that change and change back.  A    *)
(* tree remembers what it was made from, which the code cannot see, beside *)
(* what its stamp says, which is all the code can see.  Leases are reduced *)
(* to who may replace a tree; BuildLease models them.                      *)
(***************************************************************************)
EXTENDS Integers, FiniteSets

CONSTANTS
    Kinds,       \* subset of {"audit", "bench"}: the runs to look at
    Owned,       \* the target lies under targets/, so setup may build it
    MaxBuilds,   \* bound: build generations
    MaxChanges,  \* bound: changes of source, recipe, host or VCS
    MaxKills     \* bound: kills of the run

VARIABLES
    src, recipe, host,  \* versions of the source, the recipe and the host's libraries
    vcs,         \* TRUE: the VCS answers
    tree,        \* "asan" and its sibling "cov"
    job,         \* the build under way
    marker,      \* the inputs a failed sibling build is remembered for
    mode, at,    \* the run and where it stands
    held,        \* TRUE: the run holds its leases
    pin,         \* the generation a benchmark recorded
    measured,    \* the generations its cells were measured on
    fed,         \* TRUE once coverage of another source than the primary's was used, both stamped
    gens, changes, kills

env == <<src, recipe, host, vcs, changes>>
run == <<mode, at, held, pin, measured, fed, kills>>
freshVars == <<src, recipe, host, vcs, tree, job, marker, mode, at, held, pin, measured, fed,
          gens, changes, kills>>

Trees == {"asan", "cov"}
Versions == 0 .. 1
Nothing == -1
NoJob == [who |-> "", of |-> ""]

(* made, rec, lib: what the tree was compiled from; sig, srec, gen: its stamp *)
Absent == [here |-> FALSE, made |-> Nothing, rec |-> Nothing, lib |-> Nothing,
           sig |-> Nothing, srec |-> Nothing, gen |-> Nothing, raced |-> FALSE]

-----------------------------------------------------------------------------
(* target_config: signatures, stamps and freshness *)

(* the source's content identity; "cannot tell" is not an identity *)
Signature == IF vcs THEN src ELSE Nothing

(* build_write_stamp: the source and recipe as they are when the build ends *)
Stamped(j) ==
    [here |-> TRUE, made |-> j.made, rec |-> j.rec, lib |-> j.lib,
     sig |-> Signature, srec |-> recipe, gen |-> gens + 1,
     raced |-> j.made # src \/ j.rec # recipe]

(* build_freshness *)
Freshness(t) ==
    IF ~ tree[t].here THEN "missing"
    ELSE IF tree[t].sig = Nothing \/ tree[t].srec # recipe THEN "stale"
    ELSE IF Signature # Nothing /\ Signature = tree[t].sig THEN "fresh" ELSE "stale"

(* probe_startup: the binary still reaches main on this host *)
Starts(t) == tree[t].here /\ tree[t].lib = host

(* Bug: the pin records bytes and no generation *)
IdentityBytes(t) == [gen |-> 0, bytes |-> <<tree[t].made, tree[t].rec, tree[t].lib>>]

(* build_identity and pinned_build_problems: the stamp's generation and the bytes *)
IdentityOf(t) == [gen |-> tree[t].gen, bytes |-> <<tree[t].made, tree[t].rec, tree[t].lib>>]
Pinned == tree["asan"].here /\ pin = IdentityOf("asan")

(* the sibling's remembered failure is for these inputs *)
Inputs == <<Signature, recipe>>

(* stale_reason: the sibling was stamped from the primary's source *)
SiblingUsable ==
    /\ tree["asan"].here /\ tree["cov"].here
    /\ \/ tree["asan"].sig = Nothing \/ tree["cov"].sig = Nothing
       \/ tree["asan"].sig = tree["cov"].sig

-----------------------------------------------------------------------------
(* build_materialize: one build at a time, the old tree kept aside *)

Start(who, t) ==
    /\ job = NoJob /\ gens < MaxBuilds
    /\ job' = [who |-> who, of |-> t, made |-> src, rec |-> recipe, lib |-> host,
               aside |-> tree[t]]
    /\ tree' = [tree EXCEPT ![t] = [Absent EXCEPT !.here = TRUE]]

(* the recipe succeeded and the artifact starts *)
Succeeds ==
    /\ job # NoJob /\ job.lib = host
    /\ tree' = [tree EXCEPT ![job.of] = Stamped(job)]
    /\ gens' = gens + 1
    /\ job' = NoJob

(* the recipe failed, or left nothing that starts: the old tree comes back *)
Fails ==
    /\ job # NoJob
    /\ tree' = [tree EXCEPT ![job.of] = job.aside]
    /\ job' = NoJob
    /\ UNCHANGED gens

(* another run, or an operator forcing a rebuild *)
PeerBuilds ==
    /\ ~ held
    /\ Start("peer", "asan")
    /\ UNCHANGED <<env, marker, run, gens>>

PeerEnds ==
    /\ job.who = "peer"
    /\ Succeeds \/ Fails
    /\ UNCHANGED <<env, marker, run>>

-----------------------------------------------------------------------------
(* The preflight of a run *)

Go(p) == at' = p
Stay == UNCHANGED <<env, gens, mode, pin, measured, fed, kills>>

(* runner_preflight.validate and the canary: the configured route reaches the tree *)
Validate ==
    /\ at = "validate"
    /\ Go(IF mode = "bench" /\ pin # NoJob THEN "hold" ELSE "probe")
    /\ Stay /\ UNCHANGED <<tree, job, marker, held>>

ValidateFails ==
    /\ at = "validate"
    /\ Go("refused")
    /\ Stay /\ UNCHANGED <<tree, job, marker, held>>

(* _stamped_but_unlaunchable: a fresh stamp on a binary that no longer starts is pending *)
Pending == Freshness("asan") # "fresh" \/ ~ Starts("asan")

(* _converge *)
Probe ==
    /\ at = "probe"
    /\ Go(IF ~ Pending THEN "coverage" ELSE IF Owned THEN "setup" ELSE "hold")
    /\ Stay /\ UNCHANGED <<tree, job, marker, held>>

(* setup-target --build *)
Setup ==
    /\ at = "setup"
    /\ Start("run", "asan")
    /\ Go("building")
    /\ Stay /\ UNCHANGED <<marker, held>>

(* the lease is a peer's, or the host cannot build this sanitizer: the tree stays *)
SetupDeclined ==
    /\ at = "setup"
    /\ Go("after")
    /\ Stay /\ UNCHANGED <<tree, job, marker, held>>

SetupEnds ==
    /\ at = "building" /\ job.who = "run"
    /\ Succeeds \/ Fails
    /\ Go("after")
    /\ UNCHANGED <<env, marker, held, mode, pin, measured, fed, kills>>

(* the freshness probe after the build decides whether siblings are worth building *)
After ==
    /\ at = "after"
    /\ Go(IF Freshness("asan") = "fresh" THEN "coverage" ELSE "hold")
    /\ Stay /\ UNCHANGED <<tree, job, marker, held>>

(* coverage_build.materialize *)
WantsSibling == Owned /\ Freshness("asan") = "fresh" /\ marker # Inputs /\ Freshness("cov") # "fresh"

Coverage ==
    /\ at = "coverage" /\ WantsSibling
    /\ Start("run", "cov")
    /\ Go("sibling")
    /\ Stay /\ UNCHANGED <<marker, held>>

CoverageSkipped ==
    /\ at = "coverage"
    /\ ~ WantsSibling \/ job # NoJob \/ gens >= MaxBuilds
    /\ Go("hold")
    /\ Stay /\ UNCHANGED <<tree, job, marker, held>>

SiblingEnds ==
    /\ at = "sibling" /\ job.who = "run"
    /\ \/ Succeeds /\ marker' = <<>>
       \/ Fails /\ marker' = Inputs
    /\ Go("hold")
    /\ UNCHANGED <<env, held, mode, pin, measured, fed, kills>>

(* hold_builds: a tree a writer has cannot be leased; an audit goes on without, *)
(* a benchmark refuses *)
Hold ==
    /\ at = "hold"
    /\ held' = (job = NoJob)
    /\ Go(IF job = NoJob \/ mode = "audit" THEN "verify" ELSE "refused")
    /\ Stay /\ UNCHANGED <<tree, job, marker>>

(* build_problems, or the recorded pin of a resumed benchmark; an audit verifies nothing *)
Problems == IF pin # NoJob THEN ~ Pinned ELSE Freshness("asan") # "fresh"

Verify ==
    /\ at = "verify"
    /\ Go(IF mode = "bench" /\ Problems THEN "refused" ELSE "running")
    /\ pin' = IF mode = "bench" /\ pin = NoJob /\ ~ Problems THEN IdentityOf("asan") ELSE pin
    /\ held' = (held /\ at' # "refused")
    /\ UNCHANGED <<env, gens, tree, job, marker, mode, measured, fed, kills>>

(* a cell verifies the pin and never builds *)
Cell ==
    /\ at = "running" /\ mode = "bench" /\ Pinned
    /\ measured' = measured \cup {tree["asan"].gen}
    /\ UNCHANGED <<env, gens, tree, job, marker, mode, at, held, pin, fed, kills>>

(* a session reads coverage from the sibling *)
UseCoverage ==
    /\ at = "running" /\ SiblingUsable
    /\ fed' = (fed \/ /\ tree["cov"].made # tree["asan"].made
                       /\ \A t \in Trees : tree[t].sig # Nothing /\ ~ tree[t].raced)
    /\ UNCHANGED <<env, gens, tree, job, marker, mode, at, held, pin, measured, kills>>

(* a kill drops the leases and leaves a half-made tree where the old one was *)
Kill ==
    /\ kills < MaxKills /\ at \notin {"validate", "refused"}
    /\ kills' = kills + 1
    /\ Go("validate")
    /\ held' = FALSE
    /\ job' = IF job.who = "run" THEN NoJob ELSE job
    /\ UNCHANGED <<env, tree, marker, gens, mode, pin, measured, fed>>

-----------------------------------------------------------------------------
(* The world around the run *)

Change ==
    /\ changes < MaxChanges
    /\ changes' = changes + 1
    /\ \/ src' = 1 - src /\ UNCHANGED <<recipe, host, vcs>>
       \/ recipe' = 1 - recipe /\ UNCHANGED <<src, host, vcs>>
       \/ host' = 1 - host /\ UNCHANGED <<src, recipe, vcs>>
       \/ vcs' = ~ vcs /\ UNCHANGED <<src, recipe, host>>
    /\ UNCHANGED <<tree, job, marker, run, gens>>

FreshInit ==
    /\ src = 0 /\ recipe = 0 /\ host = 0 /\ vcs = TRUE
    /\ tree = [t \in Trees |-> Absent]
    /\ job = NoJob /\ marker = <<>>
    /\ mode \in Kinds /\ at = "validate"
    /\ held = FALSE /\ pin = NoJob /\ measured = {} /\ fed = FALSE
    /\ gens = 0 /\ changes = 0 /\ kills = 0

Steps ==
    \/ Validate \/ ValidateFails \/ Probe \/ Setup \/ SetupDeclined \/ SetupEnds \/ After
    \/ Coverage \/ CoverageSkipped \/ SiblingEnds \/ Hold \/ Verify

FreshNext == Steps \/ Cell \/ UseCoverage \/ Kill \/ PeerBuilds \/ PeerEnds \/ Change

(* the run's own process is scheduled and a recipe ends *)
FreshSpec == FreshInit /\ [][FreshNext]_freshVars /\ WF_freshVars(Steps)

-----------------------------------------------------------------------------
Known == Versions \cup {Nothing}
TreeStates == [here : BOOLEAN, made : Known, rec : Known, lib : Known, sig : Known, srec : Known,
               gen : Nat \cup {Nothing}, raced : BOOLEAN]
BuildJobs == [who : {"run", "peer"}, of : Trees, made : Versions, rec : Versions, lib : Versions,
              aside : TreeStates]

FreshTypeOK ==
    /\ src \in Versions /\ recipe \in Versions /\ host \in Versions /\ vcs \in BOOLEAN
    /\ tree \in [Trees -> TreeStates]
    /\ job = NoJob \/ job \in BuildJobs
    /\ at \in {"validate", "probe", "setup", "building", "after", "coverage", "sibling",
               "hold", "verify", "running", "refused"}
    /\ held \in BOOLEAN /\ fed \in BOOLEAN /\ mode \in Kinds /\ gens \in Nat

(* A tree read as fresh was compiled from the source and the recipe as they   *)
(* are now, whatever edits, reverts and VCS failures came between; the one    *)
(* exception is an edit that landed while the recipe ran.                     *)
FreshIsCurrent ==
    \A t \in Trees :
        Freshness(t) = "fresh" /\ ~ tree[t].raced => tree[t].made = src /\ tree[t].rec = recipe

(* Every cell of a benchmark, across kills and resumptions, is measured on    *)
(* one build generation: a rebuild from identical inputs is another one.      *)
OneGeneration == Cardinality(measured) <= 1

(* Coverage a session reads comes from the primary's source, not from a       *)
(* sibling the last edit left behind.                                         *)
SiblingMatches == ~ fed

(* The preflight always ends, in a run or in a refusal, whatever the builds   *)
(* and the peers do.                                                          *)
PreflightEnds == at = "probe" ~> at \in {"running", "refused", "validate"}

=============================================================================
