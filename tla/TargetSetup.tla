---------------------------- MODULE TargetSetup -----------------------------
(***************************************************************************)
(* bin/setup-target: the checkout it prepares or updates, the target.toml  *)
(* it seeds and what of it an operator curated, the helpers that ask model *)
(* backends for the rest, the sanitizer builds with their recipes and      *)
(* repairs, and the route it must have found in the end.                   *)
(*                                                                         *)
(* A subprocess is one step.  The language bootstrap is Bootstrap in one   *)
(* step, a build is one of BuildLease and BuildFresh.  The coverage        *)
(* siblings (BuildFresh), the alternate builds, which never fail a setup,  *)
(* and the browser switch of a reviewed file are left out.                 *)
(***************************************************************************)
EXTENDS Naturals, Sequences, FiniteSets, SequencesExt

CONSTANTS
    TargetKinds,      \* "native" and "plain" (C, cloned or linked), "package" (a Python
                \* package with a native build), "language" (one with a snapshot),
                \* "browser" (gclient), "other" (no build system is known)
    Sans,       \* kind -> the enabled sanitizers, in the order they are built
    Backends,   \* how many model backends there are to ask, at least one
    Systems,    \* revision -> the build system found in it, positive numbers
    OptionSets, \* the option sets setups are called with
    MaxRuns, MaxOdd  \* bounds on setups; on kills, edits and the like

VARIABLES
    kind, able,  \* the target; the sanitizers this host's compiler supports
    head,        \* newest revision of the project
    co,          \* checkout: what it is, its revision, its submodules', local edits
    recipe,      \* .audit/build*.sh
    tree,        \* build-<san>
    lib,         \* what the language bootstrap was last run on
    tools,       \* .audit/build-tools: whole, and the revision its stamp names
    staged,      \* the Python stage and its launcher are whole
    toml,        \* target.toml
    busy,        \* what other runs execute: sanitizers, "runner"
    job,         \* the setup at hand
    status,      \* how the last one ended
    runs, odd

setupVars == <<kind, able, head, co, recipe, tree, lib, tools, staged, toml, busy, job, status, runs, odd>>

Enabled == Sans[kind]
All == UNION {Range(Sans[k]) : k \in TargetKinds}

\* The least a target needs: a sanitizer for every kind of it, and a revision; every
\* revision has a build system.
SetupConstants ==
    /\ \A k \in TargetKinds : Sans[k] \in Seq(All) /\ Sans[k] # <<>>
    /\ Systems \in Seq(Nat \ {0}) /\ Systems # <<>>

NoSetup == [at |-> "idle"]
NoTree == [src |-> {}]
NoRecipe == [by |-> "none", sys |-> 0]
Blank(text) == [text |-> text, sys |-> 0, threat |-> "default", peers |-> "none", runner |-> "none",
                bins |-> {}, inputs |-> {}]

\* Whatever is compiled: the revision, its submodules, what was edited.
Source == [rev |-> co.rev, subs |-> co.subs, edits |-> co.edits]

SetupInit ==
    /\ kind \in TargetKinds
    /\ able \in {Range(Enabled), {Enabled[1]}}
    /\ head = 1 /\ co = [is |-> "none", rev |-> 0, subs |-> 0, edits |-> FALSE]
    /\ \E own \in (IF kind \in {"plain", "language"} THEN BOOLEAN ELSE {FALSE}) :
          recipe = [s \in All |-> IF own /\ s = Enabled[1] THEN [by |-> "own", sys |-> 0] ELSE NoRecipe]
    /\ tree = [s \in All |-> NoTree]
    /\ lib = {} /\ tools = [whole |-> FALSE, of |-> 0] /\ staged = FALSE
    /\ toml = Blank("missing") /\ busy = {} /\ job = NoSetup /\ status = "none" /\ runs = 0 /\ odd = 0

Begin(o) ==
    /\ job = NoSetup /\ runs < MaxRuns
    /\ runs' = runs + 1 /\ status' = "none"
    /\ job' = [at |-> "source", opt |-> o, full |-> FALSE, asked |-> 0, todo |-> Enabled,
               rec |-> NoRecipe, errors |-> {}, made |-> {}, shared |-> {}, kept |-> {}, forced |-> FALSE,
               mixed |-> co.subs # co.rev, odd |-> odd]
    /\ UNCHANGED <<kind, able, head, co, recipe, tree, lib, tools, staged, toml, busy, odd>>

With(o) == o \in job.opt
Go(p) == job' = [job EXCEPT !.at = p] /\ UNCHANGED status
Ends(s) == job' = NoSetup /\ status' = s
Fail == Ends("failed")

At(p) == job # NoSetup /\ job.at = p

-----------------------------------------------------------------------------
(* The source *)

SameButSource == UNCHANGED <<kind, able, head, recipe, tree, lib, tools, staged, toml, busy, runs, odd>>

\* A checkout is updated only when it is asked for, and never over tracked edits.
Updates == ~With("no-update") /\ (With("source") \/ With("update")) /\ ~co.edits

\* sync_git, sync_hg: an update that fails may have moved the checkout.
Sync ==
    \/ co' = [co EXCEPT !.rev = head] /\ Go("subs")
    \/ co' \in {co, [co EXCEPT !.rev = head]} /\ Fail

\* link_target, clone
Obtain ==
    \/ kind = "plain" /\ co' = [co EXCEPT !.is = "plain", !.rev = head, !.subs = head] /\ Go("subs")
    \/ kind # "plain" /\ co' = [co EXCEPT !.is = "git", !.rev = head] /\ Go("subs")
    \/ kind # "plain" /\ UNCHANGED co /\ Fail

PrepareSource ==
    /\ At("source") /\ kind # "browser"
    /\ \/ co.is = "git" /\ Updates /\ Sync
       \/ ~(co.is = "git" /\ Updates) /\ co.is # "none" /\ UNCHANGED co /\ Go("subs")
       \/ co.is = "none" /\ With("source") /\ Obtain
       \/ co.is = "none" /\ ~With("source") /\ UNCHANGED co /\ Fail
    /\ SameButSource

\* sync_gclient
Gclient(c) == [c EXCEPT !.is = "git", !.rev = head, !.subs = head]

\* prepare_gclient_source: what an interrupted fetch left is resumed if it has its
\* metadata ("half"), and refused if not ("junk"); a sync that fails leaves the
\* dependencies of what was there before, or none.
PrepareGclient ==
    /\ At("source") /\ kind = "browser"
    /\ \/ (With("source") \/ co.is = "junk" \/ (co.is = "half" /\ With("no-update"))) /\ UNCHANGED co /\ Fail
       \/ co.is = "git" /\ ~With("source") /\ ~Updates /\ UNCHANGED co /\ Go("subs")
       \/ co.is = "git" /\ ~With("source") /\ Updates
             /\ \/ co' = Gclient(co) /\ Go("subs")
                \/ co' \in {co, [co EXCEPT !.rev = head]} /\ Fail
       \/ co.is \in {"none", "half"} /\ ~With("source") /\ ~(co.is = "half" /\ With("no-update"))
             /\ \/ co' = Gclient(co) /\ Go("subs")
                \/ /\ co' \in {co, [co EXCEPT !.is = "git", !.rev = head]}
                              \cup {[co EXCEPT !.is = x] : x \in {"half"} \cup (IF co.is = "half" THEN {} ELSE {"junk"})}
                   /\ Fail
    /\ SameButSource

\* sync_git_submodules
SyncSubmodules ==
    /\ At("subs")
    /\ IF With("build") /\ kind # "browser" /\ co.is = "git"
       THEN \/ co' = [co EXCEPT !.subs = co.rev] /\ Go("overlay")
            \/ co' \in {co, [co EXCEPT !.subs = co.rev]} /\ Fail
       ELSE UNCHANGED co /\ Go("overlay")
    /\ SameButSource

\* seed_profile_build_recipe
SeedRecipe ==
    /\ At("overlay")
    /\ recipe' = IF kind = "browser" /\ (recipe[Enabled[1]] = NoRecipe \/ With("force"))
                 THEN [recipe EXCEPT ![Enabled[1]] = [by |-> "overlay", sys |-> 0]] ELSE recipe
    /\ Go("config")
    /\ UNCHANGED <<kind, able, head, co, tree, lib, tools, staged, toml, busy, runs, odd>>

-----------------------------------------------------------------------------
(* The configuration *)

SameButToml == UNCHANGED <<kind, able, head, co, recipe, tree, lib, tools, staged, busy, runs, odd>>

\* _detect_build_system
Detected == Systems[co.rev]

\* detect_sanitizer_build_artifacts: the extension of a Python package is no program.
Artifacts == IF kind = "package" THEN {} ELSE {s \in All : tree[s] # NoTree}

\* What a seed carries over: the curated sections, a runner and artifacts that are named.
Carried == [threat |-> toml.threat, peers |-> toml.peers, runner |-> toml.runner, bins |-> toml.bins]

\* The registry's runner is for a file that names no route of its own.
SeededRunner(old) ==
    IF old.runner = "none" /\ old.bins = {} /\ kind \in {"language", "browser"} THEN "driver" ELSE old.runner

\* seed_toml
Seeded ==
    [text |-> "ok", sys |-> Detected, threat |-> Carried.threat, peers |-> Carried.peers,
      runner |-> SeededRunner(Carried),
      bins |-> Carried.bins \cup (IF kind = "language" THEN {} ELSE Artifacts), inputs |-> {}]

HasPlaceholder == toml.text = "placeholders"

Reason ==
    IF toml.text \in {"missing", "invalid"} THEN toml.text
    ELSE IF With("build") /\ Detected # toml.sys /\ toml.runner = "none" /\ toml.bins = {} THEN "stale-detection"
    ELSE IF With("force") THEN "requested"
    ELSE IF HasPlaceholder THEN "placeholders" ELSE ""

SeedConfig ==
    /\ At("config")
    /\ CASE Reason = "" \/ (Reason = "placeholders" /\ With("build")) -> UNCHANGED toml /\ Go("tools")
         [] Reason = "placeholders" /\ ~With("build") -> toml' = Seeded /\ Go("tools")
         [] OTHER -> /\ toml' = Seeded
                     /\ job' = [job EXCEPT !.full = TRUE, !.at = IF With("no-llm-config") THEN "tools" ELSE "threat"]
                     /\ UNCHANGED status
    /\ SameButToml

\* backend_candidates: there is another one to ask.  That the one that answered
\* before goes first tells nothing apart here.
MoreBackends == job.asked + 1 < Backends

AfterHelper == CASE job.at = "threat" -> "peers" [] job.at = "peers" -> "tools" [] OTHER -> "reach"

\* What each helper makes of the file; {} where it keeps the section that is there.
SuggestThreatModel == {[toml EXCEPT !.threat = "model"]}
SuggestPeers == IF toml.peers # "none" /\ ~With("force") THEN {} ELSE {[toml EXCEPT !.peers = "model"]}
SuggestRunner == IF toml.runner \in {"own", "model"} /\ ~With("force") THEN {} ELSE {[toml EXCEPT !.runner = "model"]}

Suggested ==
    CASE job.at = "threat" -> SuggestThreatModel
      [] job.at = "peers" -> SuggestPeers
      [] OTHER -> SuggestRunner

Helping == job # NoSetup /\ job.at \in {"threat", "peers", "runner"}

HelperAnswers ==
    /\ Helping
    /\ toml' \in Suggested
    /\ job' = [job EXCEPT !.at = AfterHelper, !.asked = 0]
    /\ UNCHANGED status /\ SameButToml

\* The section is kept, or the target itself is the problem: nobody else is asked.
HelperDeclines ==
    /\ Helping
    /\ job' = [job EXCEPT !.at = AfterHelper, !.asked = 0]
    /\ UNCHANGED <<status, toml>> /\ SameButToml

\* A backend that failed or whose answer did not validate: the next one.
HelperUnavailable ==
    /\ Helping
    /\ job' = IF MoreBackends THEN [job EXCEPT !.asked = @ + 1] ELSE [job EXCEPT !.at = AfterHelper, !.asked = 0]
    /\ UNCHANGED <<status, toml>> /\ SameButToml

-----------------------------------------------------------------------------
(* Tools and languages *)

\* prepare_native_python_build_tools: what is there is removed first, the stamp is last.
InstallTools ==
    /\ At("tools")
    /\ IF kind # "package" \/ ~With("build") \/ (tools.of = co.rev /\ tools.whole)
       THEN UNCHANGED tools /\ Go("language")
       ELSE \/ tools' = [whole |-> TRUE, of |-> 0] /\ Go("stamp")
            \/ tools' = [whole |-> FALSE, of |-> 0] /\ Fail
    /\ UNCHANGED <<kind, able, head, co, recipe, tree, lib, staged, toml, busy, runs, odd>>

StampTools ==
    /\ At("stamp")
    /\ tools' = [tools EXCEPT !.of = co.rev]
    /\ Go("language")
    /\ UNCHANGED <<kind, able, head, co, recipe, tree, lib, staged, toml, busy, runs, odd>>

\* language_build: a snapshot of other source than this forces the build, a runner
\* that is in use is left alone, and a Java target is seeded again.
LanguageBuild ==
    /\ At("language")
    /\ LET forced == kind = "language" /\ ~With("build") /\ lib # {Source}
           opt == job.opt \cup (IF forced THEN {"build"} ELSE {})
       IN \/ /\ kind # "language" \/ "build" \notin opt
             /\ Go("recipe") /\ UNCHANGED <<lib, toml>>
          \/ /\ kind = "language" /\ "build" \in opt
             /\ ~(toml.runner = "driver" /\ "runner" \in busy)
             /\ lib' = {Source} /\ toml' \in {toml} \cup (IF job.full THEN {Seeded} ELSE {})
             /\ job' = [job EXCEPT !.opt = opt, !.forced = forced, !.at = "recipe"] /\ UNCHANGED status
          \/ kind = "language" /\ "build" \in opt /\ UNCHANGED <<lib, toml>> /\ Fail
    /\ UNCHANGED <<kind, able, head, co, recipe, tree, tools, staged, busy, runs, odd>>

-----------------------------------------------------------------------------
(* The sanitizer builds *)

\* recipe_applies_to_build_system
Applies(r) == r.by \in {"own", "overlay"} \/ (r # NoRecipe /\ r.sys = toml.sys)

\* A language target has builds only with a recipe of its own.
Builds == kind \notin {"language", "other"} \/ \E s \in All : Applies(recipe[s])

\* build_freshness
Fresh(s) == tree[s] # NoTree /\ tree[s].src = {Source} /\ tree[s].rec = recipe[s]

Next1(j) == [j EXCEPT !.todo = Tail(@), !.at = IF Len(j.todo) = 1 THEN "fields" ELSE "recipe", !.asked = 0]
Later(j) == job' = Next1(j) /\ UNCHANGED status
Erred(j) == [j EXCEPT !.errors = @ \cup {Head(j.todo)}]
SameButBuilds == UNCHANGED <<kind, able, head, co, lib, tools, staged, toml, busy, runs, odd>>

\* The recipe for the next sanitizer: the one that is there, or a generated candidate.
ChooseRecipe ==
    /\ At("recipe")
    /\ IF ~Builds THEN Go("stage")
       ELSE IF ~With("build") THEN Go("fields")
       ELSE LET s == Head(job.todo) IN
            \/ Applies(recipe[s]) /\ job' = [job EXCEPT !.rec = recipe[s], !.at = "build"] /\ UNCHANGED status
            \/ /\ ~Applies(recipe[s]) /\ kind \notin {"language", "other"}
               /\ job' = [job EXCEPT !.rec = [by |-> "made", sys |-> toml.sys], !.at = "build"] /\ UNCHANGED status
            \/ ~Applies(recipe[s]) /\ Later(Erred(job))
    /\ UNCHANGED <<recipe, tree>> /\ SameButBuilds

\* build_materialize.materialize: a tree in use is not touched, the old one comes
\* back after a failure, and a candidate becomes the recipe with its tree.
Held(s) == s \in busy
Whole(s) == ~With("force") /\ Fresh(s) /\ tree[s].runs
Built(s, r) ==
    /\ ~Held(s) /\ ~Whole(s)
    /\ tree' = [tree EXCEPT ![s] = [src |-> {Source}, rec |-> r, runs |-> TRUE]]
    /\ recipe' = [recipe EXCEPT ![s] = r]

\* A candidate never replaces a tree that is fresh with a recipe for another build
\* system, which nobody starts then; and a host that cannot run the sanitizer is no fault of the recipe.
Build ==
    /\ At("build")
    /\ LET s == Head(job.todo)
           old == Applies(recipe[s])
       IN \/ Fresh(s) /\ ~With("force") /\ ~old /\ Later([job EXCEPT !.kept = @ \cup {s}]) /\ UNCHANGED <<recipe, tree>>
          \/ (~Fresh(s) \/ With("force")) /\ s \notin able /\ Later(Erred(job)) /\ UNCHANGED <<recipe, tree>>
          \/ /\ (Fresh(s) /\ ~With("force") /\ old) \/ ((~Fresh(s) \/ With("force")) /\ s \in able)
             /\ \/ Held(s) /\ Later([job EXCEPT !.shared = @ \cup {s}]) /\ UNCHANGED <<recipe, tree>>
                \/ ~Held(s) /\ Whole(s) /\ Later(job) /\ UNCHANGED <<recipe, tree>>
                \/ Built(s, job.rec) /\ Later([job EXCEPT !.made = @ \cup {s}])
                \/ ~Held(s) /\ ~Whole(s) /\ UNCHANGED <<recipe, tree>>
                      /\ IF With("no-llm-config") THEN Later(Erred(job)) ELSE Go("repair")
    /\ SameButBuilds

\* A repair is asked of one backend after the other until a recipe builds, and of
\* none when the host lacks a prerequisite.
Repair ==
    /\ At("repair")
    /\ LET s == Head(job.todo) IN
       \/ Built(s, [by |-> "mended", sys |-> toml.sys]) /\ Later([job EXCEPT !.made = @ \cup {s}])
       \/ Later(Erred(job)) /\ UNCHANGED <<recipe, tree>>
       \/ MoreBackends /\ job' = [job EXCEPT !.asked = @ + 1] /\ UNCHANGED <<status, recipe, tree>>
    /\ SameButBuilds

\* Bug: a failed build ends the setup before the others are written down.
RefreshFieldsLast ==
    /\ At("fields")
    /\ IF With("build") /\ job.errors # {} THEN Fail /\ UNCHANGED toml
       ELSE toml' = [toml EXCEPT !.bins = Artifacts] /\ Go("stage")
    /\ SameButToml

\* refresh_detected_build_fields, then the errors are reported.
RefreshFields ==
    /\ At("fields")
    /\ toml' = [toml EXCEPT !.bins = Artifacts]
    /\ IF With("build") /\ job.errors # {} THEN Fail ELSE Go("stage")
    /\ SameButToml

-----------------------------------------------------------------------------
(* The route *)

\* Only a package that was built, has no program and no other runner is staged.
NeedsStage ==
    /\ With("build") /\ kind = "package" /\ toml.runner \in {"none", "staged", "own", "model"}
    /\ toml.bins = {} /\ tree[Enabled[1]] # NoTree

\* A runner that is there stays; the headers the package was built with are merged.
WithStagedRunner == [toml EXCEPT !.runner = IF @ = "none" THEN "staged" ELSE @, !.inputs = @ \cup {"includes"}]

\* configure_native_python_runner: the stage is removed first, and the runner named
\* after its canary.
StageRunner ==
    /\ At("stage")
    /\ IF NeedsStage
       THEN \/ staged' = TRUE /\ toml' = WithStagedRunner /\ Go("includes")
            \/ staged' = FALSE /\ UNCHANGED toml /\ Fail
       ELSE UNCHANGED <<staged, toml>> /\ Go("includes")
    /\ UNCHANGED <<kind, able, head, co, recipe, tree, lib, tools, busy, runs, odd>>

\* runner_bootstrap
AsksForRunner ==
    /\ ~With("no-llm-config") /\ kind \in {"native", "plain", "package"} /\ toml.bins # {}
    /\ toml.runner \notin {"driver", "staged"}
    /\ toml.runner \in {"own", "model"} => With("force") /\ ~With("build")

\* refresh_installed_harness_includes, refresh_harness_link_libs: what the build
\* publishes is merged.
RefreshInputs ==
    /\ At("includes")
    /\ \/ UNCHANGED toml
       \/ /\ kind # "browser" /\ toml.bins # {}
          /\ toml' = [toml EXCEPT !.inputs = @ \cup {"includes"}]
    /\ Go(IF AsksForRunner THEN "runner" ELSE "reach")
    /\ SameButToml

\* require_reachable_runner: the registry's driver must reach the target; a staged
\* runner has passed its canary.
Reach ==
    /\ At("reach")
    /\ Go("inputs") \/ (With("build") /\ kind = "language" /\ toml.runner = "driver" /\ Fail)
    /\ UNCHANGED toml /\ SameButToml

\* report_harness_input_mismatch
RepairInputs ==
    /\ At("inputs")
    /\ \/ UNCHANGED toml
       \/ kind # "browser" /\ toml.bins # {} /\ toml' = [toml EXCEPT !.inputs = @ \cup {"includes"}]
    /\ Go("route")
    /\ SameButToml

\* require_audit_route: asked only of a build of a file this setup seeded.
RequireRoute ==
    /\ At("route")
    /\ IF With("build") /\ job.full /\ toml.runner = "none" /\ toml.bins = {} THEN Fail ELSE Ends("ok")
    /\ UNCHANGED toml /\ SameButToml

SetupSteps ==
    \/ PrepareSource \/ PrepareGclient \/ SyncSubmodules \/ SeedRecipe \/ SeedConfig
    \/ HelperAnswers \/ HelperDeclines \/ HelperUnavailable
    \/ InstallTools \/ StampTools \/ LanguageBuild \/ ChooseRecipe \/ Build \/ Repair \/ RefreshFields
    \/ StageRunner \/ RefreshInputs \/ Reach \/ RepairInputs \/ RequireRoute

-----------------------------------------------------------------------------
(* From outside *)

Odd == odd < MaxOdd /\ odd' = odd + 1

\* A kill: a file or a tree that was being replaced is not whole.  The helper that
\* names a runner replaces the file at once.
CutOff ==
    /\ job # NoSetup /\ Odd
    /\ toml' \in {toml} \cup (IF job.at \in {"config", "threat", "peers", "language", "fields", "stage", "includes", "inputs"}
                               THEN {Blank("invalid")} ELSE {})
    /\ tree' \in {tree} \cup (IF job.at \in {"build", "repair"} /\ Head(job.todo) \notin busy
                               THEN {[tree EXCEPT ![Head(job.todo)] = NoTree]} ELSE {})
    /\ staged' \in {staged} \cup (IF job.at = "stage" THEN {FALSE} ELSE {})
    /\ tools' = IF job.at = "tools" THEN [whole |-> FALSE, of |-> 0] ELSE tools
    /\ job' = NoSetup /\ status' = "killed"
    /\ UNCHANGED <<kind, able, head, co, recipe, lib, busy, runs>>

Push ==
    /\ job = NoSetup /\ head + 1 \in DOMAIN Systems /\ head' = head + 1
    /\ UNCHANGED <<kind, able, co, recipe, tree, lib, tools, staged, toml, busy, job, status, runs, odd>>

EditSource ==
    /\ Odd /\ co.is \in {"git", "plain"} /\ ~co.edits /\ co' = [co EXCEPT !.edits = TRUE]
    /\ UNCHANGED <<kind, able, head, recipe, tree, lib, tools, staged, toml, busy, job, status, runs>>

\* An operator reviews the file: the model and the peers, or the arguments; or
\* leaves a placeholder in it.
Curate ==
    /\ Odd /\ job = NoSetup /\ toml.text \in {"ok", "placeholders"}
    /\ \/ toml' = [toml EXCEPT !.threat = "own", !.peers = "own"]
       \/ toml.text = "ok" /\ toml' = [toml EXCEPT !.text = "placeholders"]
       \/ toml.runner # "driver" /\ toml' = [toml EXCEPT !.runner = "own"]
    /\ UNCHANGED <<kind, able, head, co, recipe, tree, lib, tools, staged, busy, job, status, runs>>

\* A build stops starting: a library of the host is gone.
Break(s) ==
    /\ Odd /\ tree[s] # NoTree /\ tree[s].runs /\ tree' = [tree EXCEPT ![s].runs = FALSE]
    /\ UNCHANGED <<kind, able, head, co, recipe, lib, tools, staged, toml, busy, job, status, runs>>

Use(x) ==
    /\ Odd /\ x \notin busy /\ (IF x = "runner" THEN lib # {} ELSE tree[x] # NoTree) /\ busy' = busy \cup {x}
    /\ UNCHANGED <<kind, able, head, co, recipe, tree, lib, tools, staged, toml, job, status, runs>>

Leave(x) ==
    /\ x \in busy /\ busy' = busy \ {x}
    /\ UNCHANGED <<kind, able, head, co, recipe, tree, lib, tools, staged, toml, job, status, runs, odd>>

Outside ==
    \/ CutOff \/ Push \/ EditSource \/ Curate
    \/ (\E s \in All : Break(s))
    \/ \E x \in All \cup {"runner"} : Use(x) \/ Leave(x)

SetupNext == (\E o \in OptionSets : Begin(o)) \/ SetupSteps \/ Outside

SetupSpec == SetupInit /\ [][SetupNext]_setupVars

-----------------------------------------------------------------------------
(* Properties: of every step, but for SetupTypeOK and ToolsAreWhole *)

Stages == {"source", "subs", "overlay", "config", "threat", "peers", "tools", "stamp", "language", "recipe",
           "build", "repair", "fields", "stage", "includes", "runner", "reach", "inputs", "route"}
SourceStates == [rev : Nat, subs : Nat, edits : BOOLEAN]
Recipes == [by : {"none", "own", "overlay", "made", "mended"}, sys : Nat]
Trees == [src : SUBSET SourceStates, rec : Recipes, runs : BOOLEAN]
Jobs == [at : Stages, opt : SUBSET ((UNION OptionSets) \cup {"build"}), full : BOOLEAN, asked : Nat,
         todo : Seq(All), rec : Recipes, errors : SUBSET All, made : SUBSET All, shared : SUBSET All,
         kept : SUBSET All, forced : BOOLEAN, mixed : BOOLEAN, odd : Nat]
TomlFiles == [text : {"missing", "invalid", "placeholders", "ok"}, sys : Nat, threat : {"default", "model", "own"},
          peers : {"none", "model", "own"}, runner : {"none", "driver", "staged", "model", "own"},
          bins : SUBSET All, inputs : SUBSET {"includes"}]

\* The types; past the source there is a checkout, of a revision there is.
SetupTypeOK ==
    /\ kind \in TargetKinds /\ able \subseteq All /\ head \in DOMAIN Systems
    /\ co \in [is : {"none", "git", "plain", "half", "junk"}, rev : Nat, subs : Nat, edits : BOOLEAN]
    /\ co.is \in {"git", "plain"} => co.rev \in DOMAIN Systems
    /\ job # NoSetup /\ job.at # "source" => co.is \in {"git", "plain"}
    /\ recipe \in [All -> Recipes] /\ tree \in [All -> Trees \cup {NoTree}]
    /\ lib \in SUBSET SourceStates
    /\ tools \in [whole : BOOLEAN, of : Nat] /\ staged \in BOOLEAN
    /\ toml \in TomlFiles /\ busy \subseteq All \cup {"runner"}
    /\ job \in Jobs \cup {NoSetup} /\ status \in {"none", "ok", "failed", "killed"} /\ odd \in Nat

Killed == status' = "killed" /\ odd' > odd

\* What an operator reviewed outlives every setup that is not cut off, unless the
\* helper that was called to derive it anew answered: the threat model's is on every
\* full seed, the peers' and the argument's only with --force.
CuratedKept ==
    ~Killed =>
     /\ toml.threat = "own" /\ toml'.threat # "own" => job.at = "threat" /\ job.full /\ ~With("no-llm-config")
     /\ toml.peers = "own" /\ toml'.peers # "own" => job.at = "peers" /\ With("force")
     /\ toml.runner = "own" /\ toml'.runner # "own" => job.at = "runner" /\ With("force") /\ ~With("build")

\* A recipe is replaced only together with the tree it has just built, or by the
\* overlay where there was none or --force asked for it.
RecipesAreProved ==
    \A s \in All : recipe'[s] # recipe[s] =>
        \/ tree'[s] # NoTree /\ tree'[s].rec = recipe'[s] /\ tree'[s].runs /\ tree'[s].src = {Source}
        \/ recipe'[s].by = "overlay" /\ (recipe[s] = NoRecipe \/ With("force"))

\* Nothing another run executes is replaced, and a tree is only given up for one
\* that starts.
InUseIsKept ==
    /\ \A s \in All : tree'[s] # tree[s] /\ (tree'[s] = NoTree \/ tree'[s].runs) =>
           s \notin busy /\ (tree'[s] = NoTree => Killed)
    /\ lib' # lib /\ toml.runner = "driver" => "runner" \notin busy

\* A build is of one checkout: submodules are those of the revision.  A build the
\* language snapshot forced comes too late to synchronise them, and after a gclient
\* sync that failed no setup does that is not asked to update.
OneCheckout ==
    \A s \in All :
        tree'[s].src # tree[s].src /\ ~job.forced /\ ~(kind = "browser" /\ job.mixed) =>
            \A x \in tree'[s].src : x.subs = x.rev

\* Local edits of tracked files are never updated over.
EditsKept == co.edits => co'.rev = co.rev /\ co'.edits

\* What a setup built is named in the file even if another sanitizer failed.
BuiltIsNamed ==
    job # NoSetup /\ job' = NoSetup /\ ~Killed /\ kind \notin {"package"} => job.made \subseteq toml'.bins

\* A build that succeeds, in a setup nobody interfered with, leaves every sanitizer
\* a tree of this source that starts, unless another run held it; one whose recipe
\* is for another build system is not started.  A file that was seeded in full then
\* has a route.
SuccessIsUsable ==
    job # NoSetup /\ status' = "ok" /\ job' = NoSetup /\ With("build") /\ job.odd = odd =>
        /\ Builds => \A s \in Range(Enabled) \ job.shared : tree[s].src = {Source} /\ (tree[s].runs \/ s \in job.kept)
        /\ kind = "language" => lib = {Source}
        /\ job.full => toml.runner # "none" \/ toml.bins # {}

\* Tools whose stamp names a revision are whole.
ToolsAreWhole == tools.of # 0 => tools.whole
=============================================================================
