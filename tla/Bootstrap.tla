----------------------------- MODULE Bootstrap -----------------------------
(***************************************************************************)
(* The language bootstrap of a target (src/lib/languages.py): which        *)
(* commands a checkout calls for, how they are run with retries, repairs   *)
(* and alternatives, what a failed attempt leaves behind, the recipe that  *)
(* reproduces a successful one, and when the next setup must repeat it.    *)
(*                                                                         *)
(* A command is a record: the tool, what it does and the modules it asks   *)
(* for.  A lock file is a version: 0 is absent, 1 the project's own.  A    *)
(* subprocess is one step; a kill leaves what it had done so far.          *)
(***************************************************************************)
EXTENDS Naturals, Sequences, FiniteSets, SequencesExt

CONSTANTS
    Kinds,       \* "js", "perl", "dist", "python", "r", "rust"
    Managers,    \* package managers in the order their lock files count
    Fallbacks,   \* the same, in the order they are tried after the chosen one
    Chain,       \* manager -> its install commands
    Declared,    \* what package.json asks for where there is no lock file
    Modules,     \* Perl modules
    Needs,       \* those Makefile.PL cannot run without
    Versions,    \* interpreter versions of a host, positive numbers
    MaxAttempts, \* bound on attempts
    MaxOdd       \* bound on kills, edits and upgrades

VARIABLES
    kind, tracked, \* the target: its language, the lock files Git tracks
    src,           \* its source
    tree,          \* what installs change in it
    host,          \* versions of the interpreter that are installed
    recipe,        \* .audit/bootstrap.sh: {} or {its lines}
    stamp,         \* .audit/bootstrap.stamp
    job,           \* the attempt at hand
    built,         \* history: sources a bootstrap that was not disturbed was of
    attempts, odd

vars == <<kind, tracked, src, tree, host, recipe, stamp, job, built, attempts, odd>>

Cmd(tool, does, mods) == [tool |-> tool, does |-> does, mods |-> mods]
Plain(tool, does) == Cmd(tool, does, {})
Idle == [at |-> "idle"]

Init ==
    /\ kind \in Kinds
    /\ tracked \in {{}, {Managers[1]}, {Managers[Len(Managers)]}}
    /\ src = 1
    /\ tree = [locks |-> [m \in Range(Managers) |-> IF m \in tracked THEN 1 ELSE 0],
               mods |-> "none", libs |-> [v \in Versions |-> {}], made |-> FALSE, exts |-> {}]
    /\ host \in {{v} : v \in Versions}
    /\ recipe = {} /\ stamp = 0 /\ job = Idle /\ built = {} /\ attempts = 0 /\ odd = 0

-----------------------------------------------------------------------------
(* The plan *)

\* _js_package_manager: of several lock files the one Git tracks, then the
\* first by name, then what package.json says.
Manager ==
    LET there == SelectSeq(Managers, LAMBDA m : tree.locks[m] > 0)
        chosen == SelectSeq(there, LAMBDA m : m \in tracked)
    IN IF Len(there) > 1 /\ Len(chosen) = 1 THEN chosen[1]
       ELSE IF there # <<>> THEN there[1] ELSE Declared

\* _js_bootstrap_chain: the detected manager first, the others after it.
JsChain ==
    FlattenSeq(<<Chain[Manager]>> \o
               LET rest == SelectSeq(Fallbacks, LAMBDA m : m # Manager)
               IN [i \in DOMAIN rest |-> Chain[rest[i]]])

\* preferred_perl_toolchain: the newest that runs.
Newest == CHOOSE v \in host : \A w \in host : w <= v

\* bootstrap_plan_for_target
Plan ==
    LET none == [cmds |-> <<>>, alts |-> <<>>, query |-> FALSE, post |-> <<>>, first |-> <<>>] IN
    CASE kind = "js" ->
           [none EXCEPT !.cmds = <<JsChain[1]>>, !.alts = Tail(JsChain),
                        !.post = <<Plain(Manager, "build")>>]
      [] kind = "perl" ->
           [none EXCEPT !.cmds = (IF tree.made THEN <<Plain("make", "realclean")>> ELSE <<>>)
                                 \o <<Plain("cpanm", "deps"), Plain("perl", "configure"), Plain("make", "install")>>]
      [] kind = "dist" ->
           [none EXCEPT !.cmds = <<Plain("cpanm", "dzil")>>, !.query = TRUE, !.first = <<Plain("rm", "dist")>>,
                        !.post = <<Plain("dzil", "build"), Plain("cpanm", "dist")>>]
      [] kind = "python" -> [none EXCEPT !.cmds = <<Plain("python", "venv"), Plain("pip", "install")>>]
      [] kind = "r" -> [none EXCEPT !.cmds = <<Plain("Rscript", "install")>>]
      [] OTHER -> [none EXCEPT !.cmds = <<Plain("cargo", "fetch"), Plain("cargo", "locked")>>,
                               !.alts = <<Plain("cargo", "build")>>]

\* stale_python_extensions: none of the files of the module loads.
StaleExtensions == tree.exts # {} /\ Newest \notin tree.exts

\* bootstrap_snapshot_stale
SnapshotStale == stamp # src

Forced == (kind = "python" /\ StaleExtensions) \/ (kind = "r" /\ SnapshotStale)

\* setup-target, with --build or forced.  An older recipe goes first.
Start(build) ==
    /\ job = Idle /\ attempts < MaxAttempts /\ (build \/ Forced)
    /\ attempts' = attempts + 1
    /\ recipe' = {}
    /\ job' = [at |-> "cmd", i |-> 1, again |-> FALSE, asked |-> {}, todo |-> {}, plan |-> Plan,
               lines |-> Plan.first, begin |-> tree, perl |-> Newest, src |-> src]
    /\ UNCHANGED <<kind, tracked, src, tree, host, stamp, built, odd>>

-----------------------------------------------------------------------------
(* One command *)

Command ==
    CASE job.at = "cmd" -> job.plan.cmds[job.i]
      [] job.at = "alt" -> job.plan.alts[job.i]
      [] job.at = "post" -> job.plan.post[job.i]
      [] OTHER -> Cmd("cpanm", "install", job.todo)

Running == job.at \in {"cmd", "alt", "post", "repair", "modules"}
LastCommand == job.at = "cmd" /\ job.i = Len(job.plan.cmds)

\* What a command that succeeded has done to the tree.  A module cpanm installed
\* may be one Makefile.PL still does not find.
Done(c) ==
    CASE c.tool \in Range(Managers) /\ c.does # "build" ->
           {[tree EXCEPT !.locks[c.tool] = x, !.mods = "whole"] : x \in {1, 2}}
      [] c.tool = "cpanm" -> {[tree EXCEPT !.libs[job.perl] = @ \cup s] : s \in SUBSET c.mods}
      [] c.does = "configure" -> {[tree EXCEPT !.made = TRUE]}
      [] c.does = "realclean" -> {[tree EXCEPT !.made = FALSE]}
      [] c.tool = "pip" -> {[tree EXCEPT !.exts = @ \cup {job.perl}]}
      [] OTHER -> {tree}

\* What one that did not may have left.
Left(c) ==
    IF c.tool \in Range(Managers) /\ c.does # "build"
    THEN {tree} \cup {[tree EXCEPT !.locks[c.tool] = x, !.mods = "partial"] : x \in {tree.locks[c.tool], 2}}
    ELSE IF c.tool = "cpanm" THEN {[tree EXCEPT !.libs[job.perl] = @ \cup s] : s \in SUBSET c.mods}
    ELSE {tree}

\* restore_js_metadata: lock files as they were, node_modules gone if it was not there.
Restored(t, was) ==
    IF kind # "js" THEN t
    ELSE [t EXCEPT !.locks = was.locks, !.mods = IF was.mods = "none" THEN "none" ELSE @]

\* Bug: a failed install is not undone before the next manager runs.
AfterFailureKept(t) == t

\* run(clean_failed_js_install): only the last command and the alternatives.
AfterFailure(t) == IF LastCommand \/ job.at = "alt" THEN Restored(t, tree) ELSE t

Posts(j) == IF j.plan.post = <<>> THEN [j EXCEPT !.at = "write"] ELSE [j EXCEPT !.at = "post", !.i = 1]
Queries(j) == IF j.plan.query THEN [j EXCEPT !.at = "query"] ELSE Posts(j)

\* Where an attempt goes on after a command that succeeded.
Onward(j) ==
    CASE j.at = "cmd" /\ j.i < Len(j.plan.cmds) -> [j EXCEPT !.i = @ + 1, !.asked = {}]
      [] j.at \in {"cmd", "alt"} -> Queries(j)
      [] j.at = "repair" -> [j EXCEPT !.at = "cmd"]
      [] j.at = "modules" -> Posts(j)
      [] j.at = "post" /\ j.i < Len(j.plan.post) -> [j EXCEPT !.i = @ + 1]
      [] OTHER -> [j EXCEPT !.at = "write"]

Rest == UNCHANGED <<kind, tracked, src, host, recipe, stamp, built, attempts, odd>>

Succeeds ==
    /\ Running
    /\ Command.does = "deps" => Needs \subseteq tree.libs[job.perl]
    /\ tree' \in Done(Command)
    /\ job' = Onward([job EXCEPT !.lines = Append(@, Command), !.again = FALSE])
    /\ Rest

\* run_with_cpanm_retry: a reported transfer failure is tried once more.
Retries ==
    /\ Running /\ Command.tool = "cpanm" /\ ~job.again
    /\ tree' \in Left(Command)
    /\ job' = [job EXCEPT !.again = TRUE]
    /\ Rest

\* cpanm_prerequisite_repair
Wanted(reported) == reported \ job.asked

\* cpanm says what it misses: that is installed, and the command run again.
Repairs(reported) ==
    /\ job.at = "cmd" /\ Command.does = "deps" /\ Wanted(reported) # {}
    /\ job' = [job EXCEPT !.at = "repair", !.again = FALSE, !.todo = Wanted(reported), !.asked = @ \cup Wanted(reported)]
    /\ UNCHANGED tree
    /\ Rest

\* Anything else is a failure: an alternative is tried, or the attempt ends
\* with the metadata it began with.
Fails ==
    /\ Running
    /\ \E t \in Left(Command) :
          LET u == AfterFailure(t)
              alts == job.plan.alts
              next == IF job.at = "alt" THEN job.i + 1 ELSE 1
              more == (job.at = "alt" \/ (job.at \in {"cmd", "repair"} /\ job.i = Len(job.plan.cmds))) /\ next <= Len(alts)
          IN IF more THEN tree' = u /\ job' = [job EXCEPT !.at = "alt", !.i = next, !.again = FALSE]
             ELSE tree' = Restored(u, job.begin) /\ job' = Idle
    /\ Rest

\* A module query: it fails or names something that is no module, nothing is
\* missing, or some modules are.
Query ==
    /\ job.at = "query"
    /\ \/ job' = Idle
       \/ job' = Posts(job)
       \/ \E s \in SUBSET Modules \ {{}} : job' = [job EXCEPT !.at = "modules", !.todo = s]
    /\ UNCHANGED tree
    /\ Rest

\* The recipe is replaced whole.
Write ==
    /\ job.at = "write"
    /\ recipe' = {job.lines} /\ job' = [job EXCEPT !.at = "stamp"]
    /\ UNCHANGED <<kind, tracked, src, tree, host, stamp, built, attempts, odd>>

\* write_bootstrap_stamp, of the source as it is then.
Stamp ==
    /\ job.at = "stamp"
    /\ stamp' = src
    /\ built' = IF src = job.src THEN built \cup {src} ELSE built
    /\ job' = Idle
    /\ UNCHANGED <<kind, tracked, src, tree, host, recipe, attempts, odd>>

Steps == Succeeds \/ Retries \/ (\E r \in SUBSET (Needs \ tree.libs[job.perl]) : Repairs(r)) \/ Fails \/ Query \/ Write \/ Stamp

-----------------------------------------------------------------------------
(* From outside *)

Odd == odd < MaxOdd /\ odd' = odd + 1

\* A kill during a command, or between the removal of a lock file and its return.
Kill ==
    /\ job # Idle /\ Odd
    /\ \/ tree' \in IF Running THEN Left(Command) ELSE {tree}
       \/ /\ kind = "js" /\ Running
          /\ \E m \in Range(Managers) : tree' = [tree EXCEPT !.locks[m] = 0]
    /\ job' = Idle
    /\ UNCHANGED <<kind, tracked, src, host, recipe, stamp, built, attempts>>

EditSource ==
    /\ Odd /\ src' = src + 1
    /\ UNCHANGED <<kind, tracked, tree, host, recipe, stamp, job, built, attempts>>

Upgrade(v) ==
    /\ Odd /\ job = Idle /\ v \notin host /\ host' = host \cup {v}
    /\ UNCHANGED <<kind, tracked, src, tree, recipe, stamp, job, built, attempts>>

Next ==
    \/ \E b \in BOOLEAN : Start(b)
    \/ (job # Idle /\ Steps)
    \/ Kill \/ EditSource \/ (\E v \in Versions : Upgrade(v))

-----------------------------------------------------------------------------
(* Properties: of every step, but for TrackedManagerFirst and AttemptEnds *)

\* The modules lines 1 .. n of a recipe install.
Provided(lines, n) == UNION {lines[k].mods : k \in 1 .. n}

\* A recipe runs again: what its dependency discovery needs was installed for
\* this interpreter by an earlier line, or before the attempt.
RecipeReplays ==
    \A r \in recipe' \ recipe : \A n \in DOMAIN r :
        r[n].does = "deps" => Needs \subseteq Provided(r, n) \cup job.begin.libs[job.perl]

\* There is a recipe only of an attempt that ran to its end: of the commands
\* with an alternative one, and every later command, in order.
RecipeIsWhole ==
    \A r \in recipe' \ recipe :
        LET p == job.plan
            own == SelectSeq(r, LAMBDA c : c.does # "install" \/ c.tool # "cpanm")
            end == {p.cmds} \cup {Front(p.cmds) \o <<p.alts[k]>> : k \in DOMAIN p.alts}
        IN \E c \in end : own = p.first \o c \o p.post

\* An attempt that failed leaves no recipe, the lock files it found, and no
\* node_modules where there was none; every alternative starts from there too.
FailureLeavesNothing ==
    /\ job # Idle /\ job' = Idle /\ odd' = odd /\ job.at # "stamp" =>
           /\ recipe' = {}
           /\ kind = "js" => tree'.locks = job.begin.locks /\ (job.begin.mods = "none" => tree'.mods = "none")
    /\ kind = "js" /\ job # Idle /\ job'.at = "alt" =>
           tree'.locks = job.begin.locks /\ (job.begin.mods = "none" => tree'.mods = "none")

\* The manager whose lock file the project tracks comes first, whatever an
\* attempt that was cut off left beside it.
TrackedManagerFirst ==
    \A m \in tracked : kind = "js" /\ tree.locks[m] > 0 => Manager = m

\* A stamp that agrees with the source is of a bootstrap of that source, or the
\* source was edited while it ran; after it setup forces no other.
StampIsOfSource ==
    stamp' # stamp => /\ job.src = src => src \in built'
                      /\ job.src = src /\ job.perl = Newest => ~Forced'

\* Retries, repairs and alternatives come to an end.
AttemptEnds == job # Idle ~> job = Idle
=============================================================================
