---------------------------- MODULE ProcessTree ----------------------------
(***************************************************************************)
(* lib/process_tree.py, kill_marked: how the benchmark runner ends what a  *)
(* launch left running.  Every process of the launch inherits a marker in  *)
(* its environment; the host may withhold a process's environment.  The    *)
(* process table is read several times per round while processes fork,     *)
(* exit and are reparented.                                                *)
(***************************************************************************)
EXTENDS Naturals, FiniteSets

CONSTANTS
    Kids,           \* processes the launch may start
    Rounds          \* _REAP_ROUNDS

Cell == "cell"      \* the process the runner launched, in the runner's group
Shell == "shell"    \* an operator's shell, its environment withheld
Job == "job"        \* what it runs from the launch's own directory
Adopter == "adopter"    \* the readable process orphans are given to
Runner == "runner"  \* this process

Launch == Kids \cup {Cell}
Others == {Shell, Job, Adopter}
Procs == Launch \cup Others

(* The launch's processes are its own. *)
ASSUME LaunchAssumption ==
    /\ Kids \cap {Cell, Shell, Job, Adopter, Runner} = {}
    /\ Rounds \in Nat

VARIABLES
    alive, unborn,
    parent, group,  \* of every process
    opaque,         \* processes whose environment the host withholds
    inside,         \* processes whose program is under the launch's directory
    blind,          \* no environment can be read here
    pc, round,
    listed,         \* /proc, as listed; then the pids whose marker was read
    anchored,       \* _pids_under_path
    pids,           \* owned()
    reaped,
    young,          \* processes forked since the last listing
    left,           \* processes of the launch alive when kill_marked returned
    outcome

host == <<alive, unborn, parent, group, opaque, inside>>
reaper == <<pc, round, listed, anchored, pids, reaped, left, outcome>>
reapVars == <<host, blind, young, reaper>>

\* The type of every variable; only the living have children in the table.
ReapTypeOK ==
    /\ alive \subseteq Procs /\ unborn \subseteq Kids /\ alive \cap unborn = {}
    /\ parent \in [Procs -> Procs \cup {Runner}] /\ group \in [Procs -> Procs \cup {Runner}]
    /\ \A p \in alive : parent[p] \in alive \cup {Runner, Adopter}
    /\ opaque \subseteq Procs /\ inside \subseteq Procs /\ blind \in BOOLEAN
    /\ pc \in {"list", "read", "path", "widen", "decide", "kill", "done"}
    /\ round \in 0 .. Rounds
    /\ listed \subseteq Procs /\ anchored \subseteq Procs /\ pids \subseteq Procs
    /\ reaped \subseteq Procs /\ young \subseteq Kids /\ left \subseteq Launch
    /\ outcome \in {"none", "clean", "leak", "blind"}

ReapInit ==
    /\ alive \in {{Cell, Shell, Adopter} \cup j : j \in SUBSET {Job}} /\ unborn = Kids
    /\ parent = [p \in Procs |-> CASE p = Cell -> Runner [] p = Job -> Shell [] OTHER -> Adopter]
    /\ group = [p \in Procs |-> IF p = Cell THEN Runner ELSE p]
    /\ opaque = {Shell} /\ inside = {Job} /\ blind \in BOOLEAN
    /\ pc = "list" /\ round = 0 /\ listed = {} /\ anchored = {} /\ pids = {} /\ reaped = {}
    /\ young = {} /\ left = {} /\ outcome = "none"

-----------------------------------------------------------------------------
(* The host *)

\* A process of the launch starts another: in its group or in a session of its
\* own, readable or not, from the launch's directory or not.
Fork(p, k) ==
    /\ p \in alive \cap Launch /\ k \in unborn
    /\ alive' = alive \cup {k} /\ unborn' = unborn \ {k} /\ young' = young \cup {k}
    /\ parent' = [parent EXCEPT ![k] = p]
    /\ \E g \in {group[p], k} : group' = [group EXCEPT ![k] = g]
    /\ \E o, i \in SUBSET {k} : opaque' = opaque \cup o /\ inside' = inside \cup i
    /\ UNCHANGED <<blind, reaper>>

\* S end; what they had is given to the adopter.
End(S) ==
    /\ alive' = alive \ S
    /\ parent' = [p \in Procs |-> IF parent[p] \in S THEN Adopter ELSE parent[p]]
    /\ UNCHANGED <<unborn, group, opaque, inside>>

Exit(p) == p \in alive \cap Launch /\ End({p}) /\ UNCHANGED <<blind, young, reaper>>

-----------------------------------------------------------------------------
(* Who is owned *)

\* _pids_with_token_env: /proc is listed, then each environment read.
List ==
    /\ pc = "list" /\ pc' = "read" /\ listed' = alive /\ young' = {}
    /\ UNCHANGED <<host, blind, round, anchored, pids, reaped, left, outcome>>

Read ==
    /\ pc = "read" /\ pc' = "path"
    /\ listed' = IF blind THEN {} ELSE {p \in listed \cap alive \cap Launch : p \notin opaque}
    /\ UNCHANGED <<host, blind, young, round, anchored, pids, reaped, left, outcome>>

\* _pids_under_path.
Path ==
    /\ pc = "path" /\ pc' = "widen" /\ anchored' = (inside \cap alive) \ listed
    /\ UNCHANGED <<host, blind, young, round, listed, pids, reaped, left, outcome>>

Children(S) == {p \in alive : parent[p] \in S}
GroupMates(S) == {p \in alive : group[p] # Runner /\ \E q \in S \cap alive : group[p] = group[q]}
Parents(S) == {parent[p] : p \in S \cap alive} \ {Runner}

\* One pass of _widen_ownership over the claimed; a parent only when its
\* environment is withheld.
Wider(S) ==
    LET near == S \cup GroupMates(S) \cup Children(S)
    IN near \cup {p \in Parents(S) : p \in opaque \/ blind}

\* The least set that holds S and is closed under a widening.
Least(S, Step(_)) ==
    {p \in Procs : \A T \in SUBSET Procs : S \subseteq T /\ Step(T) \subseteq T => p \in T}

\* Bug: what a path claims is widened like what carries the marker.
OwnedAll == Least(listed \cup anchored, Wider)

\* A path claims a process and what it started, never who started it.
Owned == Least(listed, Wider) \cup Least(anchored, Children)

Widen ==
    /\ pc = "widen" /\ pc' = "decide" /\ pids' = Owned
    /\ UNCHANGED <<host, blind, young, round, listed, anchored, reaped, left, outcome>>

-----------------------------------------------------------------------------
(* kill_marked *)

\* Bug: the last round is believed to have ended everything.
VerdictLast == IF pids = {} \/ round = Rounds THEN "clean" ELSE "none"

\* Nothing owned is clean, unless nothing was ever found and this process
\* cannot find itself either; something after the last round is a leak.
Verdict ==
    IF pids = {} /\ reaped = {} /\ blind /\ round < Rounds THEN "blind"
    ELSE IF pids = {} THEN "clean"
    ELSE IF round = Rounds THEN "leak" ELSE "none"

Decide ==
    /\ pc = "decide" /\ outcome' = Verdict
    /\ IF Verdict = "none"
       THEN pc' = "kill" /\ reaped' = reaped \cup pids /\ UNCHANGED left
       ELSE pc' = "done" /\ left' = alive \cap Launch /\ UNCHANGED reaped
    /\ UNCHANGED <<host, blind, young, round, listed, anchored, pids>>

\* TERM, a grace in which the rest of the host goes on, then KILL.
Kill ==
    /\ pc = "kill" /\ pc' = "list" /\ round' = round + 1 /\ End(pids)
    /\ UNCHANGED <<blind, young, listed, anchored, pids, reaped, left, outcome>>

Reaper == List \/ Read \/ Path \/ Widen \/ Decide \/ Kill

ReapNext ==
    \/ pc # "done" /\ (\E p \in Launch : Exit(p) \/ \E k \in Kids : Fork(p, k))
    \/ Reaper

ReapSpec == ReapInit /\ [][ReapNext]_reapVars

-----------------------------------------------------------------------------
(* Properties *)

\* process_tree.py 253-274: whatever orphans, sessions and withheld
\* environments make of the tree, no process that merely adopted or started one
\* of the owned is ended.
BystandersSpared == {Shell, Adopter} \subseteq alive

\* process_tree.py 472-477: when the sweep says it is clean, a process of the
\* launch that still runs was started behind its back, after the last listing,
\* or its environment is withheld.
CleanIsSwept == outcome = "clean" /\ ~blind => left \subseteq young \cup opaque

\* Reaping a launch ends none but its own processes, and a sweep reported clean
\* on a host that shows environments left none of them.
ReaperKept == BystandersSpared /\ CleanIsSwept
=============================================================================
