------------------------------ MODULE AuditRun ------------------------------
(***************************************************************************)
(* A launch of bin/audit, from its arguments to its exit status            *)
(* (src/lib/audit_runner.py): every backend's results tree is prepared,    *)
(* its instance lock is taken, its model and the build are tried, and      *)
(* several backends take turns until the iterations are spent.             *)
(*                                                                         *)
(* Two launches may name the same trees.  The lock is a directory with a   *)
(* pid in it: making it, reading it, removing a dead one and writing the   *)
(* pid are steps of their own.  What one turn does is module SlotPool's;   *)
(* here it is the status it returns.                                       *)
(***************************************************************************)
EXTENDS Integers, FiniteSets

CONSTANTS
    Launches,      \* processes, by their ids
    Backends,      \* the installed backends, numbered in their order
    Codex,         \* one of them
    Scopes,        \* what --since selects; "whole" without it
    MaxIterations, \* --max-iterations
    Attempts,      \* AUDIT_MODEL_PREFLIGHT_ATTEMPTS
    TransientMax   \* TRANSIENT_RETRY_MAX

VARIABLES
    step,    \* launch -> where it is
    scope,   \* launch -> the scope it asks for
    use,     \* launch -> its backends
    now,     \* launch -> the one of them it is at
    tries,   \* launch -> failed answers to the preflight prompt
    own,     \* launch -> the locks that carry its id
    due,     \* its ensemble: the backends of this round yet to have a turn,
    total,   \* the turns so far,
    ran, stopped, failed, spent,  \* who had one, stopped, failed, has no pause budget left,
    streak,  \* and how often in a row each met a transient failure
    locks,   \* backend -> .instance.lock.d
    config,  \* backend -> the scope run-config.json records
    mark,    \* backends with .backend-unavailable
    begun,   \* backends with .housekeeping_secs: a wall was started
    raced,   \* history: backends whose lock two launches took over at once
    mixed    \* history: backends two launches prepared at once

ensemble == <<due, total, ran, stopped, failed, spent, streak>>
files == <<locks, config, mark, begun, raced, mixed>>
launchVars == <<step, scope, use, now, tries, own, ensemble, files>>

Unrecorded == "fresh"
Dead == 0            \* the id of a process that is gone
Ownerless == -1      \* no id written yet

ASSUME LaunchAssumption ==
    /\ Launches \subseteq Nat \ {Dead}
    /\ Backends \subseteq Nat /\ IsFiniteSet(Backends) /\ Codex \in Backends
    /\ Unrecorded \notin Scopes
    /\ MaxIterations \in Nat /\ Attempts \in Nat /\ TransientMax \in Nat

NoLock == [dir |-> FALSE, pid |-> Ownerless, old |-> FALSE]

Ended == {"done", "fatal", "signalled"}
Alive(p) == p \in Launches /\ step[p] \notin Ended \cup {"off", "killed"}
Fix(p, s) == step' = [step EXCEPT ![p] = s]
To(p, s) == Fix(p, s) /\ UNCHANGED <<scope, use, now, tries, own, ensemble>>
First(b, S) == b \in S /\ \A c \in S : b <= c

\* p goes on to the next backend of a pass over all, or to the first one of the
\* next pass.
Onward(p, here, after) ==
    LET later == {b \in use[p] : b > now[p]} IN
    /\ Fix(p, IF later # {} THEN here ELSE after)
    /\ \E b \in use[p] : First(b, IF later # {} THEN later ELSE use[p]) /\ now' = [now EXCEPT ![p] = b]
    /\ UNCHANGED <<scope, use, ensemble>>

\* A tree not audited before, or as an earlier launch of these backends left it.
LaunchInit ==
    /\ step = [p \in Launches |-> "off"] /\ scope = [p \in Launches |-> Unrecorded]
    /\ use = [p \in Launches |-> {}] /\ now = [p \in Launches |-> Codex]
    /\ tries = [p \in Launches |-> 0] /\ own = [p \in Launches |-> {}]
    /\ due = [p \in Launches |-> {}] /\ total = [p \in Launches |-> 0]
    /\ ran = [p \in Launches |-> {}] /\ stopped = [p \in Launches |-> {}]
    /\ failed = [p \in Launches |-> {}] /\ spent = [p \in Launches |-> {}]
    /\ streak = [p \in Launches |-> [b \in Backends |-> 0]]
    /\ raced = {} /\ mixed = {}
    /\ \/ /\ locks = [b \in Backends |-> NoLock] /\ config = [b \in Backends |-> Unrecorded]
          /\ mark = {} /\ begun = {}
       \/ /\ \E l \in {NoLock, [NoLock EXCEPT !.dir = TRUE, !.pid = Dead], [NoLock EXCEPT !.dir = TRUE, !.old = TRUE]} :
                locks = [b \in Backends |-> l]
          /\ \E c \in Scopes : config = [b \in Backends |-> c]
          /\ mark \in {{}, Backends} /\ begun \in {{}, Backends}

-----------------------------------------------------------------------------
(* Arguments and preparation *)

\* The backends the security profile allows, no more of them than there are
\* iterations: the first ones.
Chosen(some, secure) ==
    IF MaxIterations = 0 \/ Cardinality(secure) <= MaxIterations THEN some = secure
    ELSE Cardinality(some) = MaxIterations /\ \A b \in some, c \in secure \ some : b < c

Main(p, w, secure) ==
    /\ step[p] = "off"
    /\ IF secure = {} THEN To(p, "fatal")
       ELSE /\ Fix(p, "check")
            /\ scope' = [scope EXCEPT ![p] = w]
            /\ \E some \in SUBSET secure : /\ Chosen(some, secure)
                                          /\ use' = [use EXCEPT ![p] = some]
                                          /\ \E b \in some : First(b, some) /\ now' = [now EXCEPT ![p] = b]
            /\ UNCHANGED <<tries, own, ensemble>>
    /\ UNCHANGED files

\* _refuse_changed_delta
Refuses(p) == config[now[p]] \notin {Unrecorded, scope[p]}

Check(p) ==
    /\ step[p] = "check"
    /\ To(p, IF Refuses(p) THEN "fatal" ELSE "write")
    /\ mixed' = IF ~Refuses(p) /\ \E q \in Launches \ {p} : step[q] = "write" /\ now[q] = now[p]
                THEN mixed \cup {now[p]} ELSE mixed
    /\ UNCHANGED <<locks, config, mark, begun, raced>>

\* The rest of prepare_runtime: the tree's files now name this launch.
Write(p) ==
    /\ step[p] = "write"
    /\ config' = [config EXCEPT ![now[p]] = scope[p]]
    /\ Onward(p, "check", "lock")
    /\ UNCHANGED <<tries, own, locks, mark, begun, raced, mixed>>

-----------------------------------------------------------------------------
(* instance_lock *)

\* What leaving the with-blocks gives back: the locks that carry this pid.
Released(p) == [b \in Backends |-> IF b \in own[p] /\ locks[b].pid = p THEN NoLock ELSE locks[b]]

Quit(p, s) ==
    /\ Fix(p, s) /\ own' = [own EXCEPT ![p] = {}] /\ locks' = Released(p)
    /\ UNCHANGED <<scope, use, now, tries, ensemble>>
Fail(p) == Quit(p, "fatal")

\* Bug: a directory without a pid is taken for a dead launch's at once.
StaleEarly(l) == l.pid = Ownerless \/ ~Alive(l.pid)

\* Ownerless for 30 seconds, or of a process that is gone.
Stale(l) == IF l.pid = Ownerless THEN l.old ELSE ~Alive(l.pid)

Taking(b) == {q \in Launches : step[q] \in {"remove", "remake"} /\ now[q] = b}

Mkdir(p) ==
    /\ step[p] = "lock"
    /\ LET b == now[p] IN
       \/ /\ ~locks[b].dir
          /\ locks' = [locks EXCEPT ![b] = [NoLock EXCEPT !.dir = TRUE]]
          /\ To(p, "pid") /\ UNCHANGED raced
       \/ /\ locks[b].dir /\ Stale(locks[b])
          /\ To(p, "remove")
          /\ raced' = IF Taking(b) # {} THEN raced \cup {b} ELSE raced
          /\ UNCHANGED locks
       \/ locks[b].dir /\ ~Stale(locks[b]) /\ Fail(p) /\ UNCHANGED raced
    /\ UNCHANGED <<config, mark, begun, mixed>>

\* rmtree of what is there by now; nothing there is an error.
Remove(p) ==
    /\ step[p] = "remove"
    /\ IF locks[now[p]].dir
       THEN locks' = [locks EXCEPT ![now[p]] = NoLock] /\ To(p, "remake")
       ELSE Fail(p)
    /\ UNCHANGED <<config, mark, begun, raced, mixed>>

Remake(p) ==
    /\ step[p] = "remake"
    /\ IF locks[now[p]].dir THEN Fail(p)
       ELSE locks' = [locks EXCEPT ![now[p]] = [NoLock EXCEPT !.dir = TRUE]] /\ To(p, "pid")
    /\ UNCHANGED <<config, mark, begun, raced, mixed>>

WritePid(p) ==
    /\ step[p] = "pid"
    /\ IF locks[now[p]].dir
       THEN /\ locks' = [locks EXCEPT ![now[p]].pid = p]
            /\ own' = [own EXCEPT ![p] = @ \cup {now[p]}]
            /\ Onward(p, "lock", "model") /\ UNCHANGED tries
       ELSE Fail(p)
    /\ UNCHANGED <<config, mark, begun, raced, mixed>>

\* Half a minute passes over a directory whose maker has not written its pid.
Age(b) ==
    /\ locks[b].dir /\ locks[b].pid = Ownerless /\ ~locks[b].old
    /\ locks' = [locks EXCEPT ![b].old = TRUE]
    /\ raced' = IF \E p \in Launches : step[p] = "pid" /\ now[p] = b THEN raced \cup {b} ELSE raced
    /\ UNCHANGED <<step, scope, use, now, tries, own, ensemble, config, mark, begun, mixed>>

\* The handler of _terminate_on_signal gives up the locks whose pid was
\* written; before the first one the default action ends the launch.
Signal(p) ==
    /\ Alive(p)
    /\ Quit(p, "signalled")
    /\ UNCHANGED <<config, mark, begun, raced, mixed>>

KillLaunch(p) ==
    /\ Alive(p)
    /\ To(p, "killed")
    /\ UNCHANGED files

-----------------------------------------------------------------------------
(* Preflights *)

\* An answer to the preflight prompt: "acted" ran its command, "substituted"
\* ran it under another model, "rejected" was refused, "unsafe" ignored the
\* harness's policies, "failed" is the rest (a codex that must be newer and
\* is found on the PATH too).
Model(p, answer) ==
    /\ step[p] = "model"
    /\ CASE answer = "acted" ->
              /\ tries' = [tries EXCEPT ![p] = 0]
              /\ Onward(p, "model", "build")
              /\ mark' = IF now[p] \in begun THEN mark ELSE mark \ {now[p]}
              /\ UNCHANGED <<own, locks>>
         [] answer \in {"substituted", "rejected"} -> Fail(p) /\ mark' = mark \cup {now[p]}
         [] answer = "unsafe" -> Fail(p) /\ UNCHANGED mark
         [] OTHER ->
              IF tries[p] + 1 < Attempts
              THEN /\ tries' = [tries EXCEPT ![p] = @ + 1]
                   /\ UNCHANGED <<step, scope, use, now, own, ensemble, locks, mark>>
              ELSE Fail(p) /\ UNCHANGED mark
    /\ UNCHANGED <<config, begun, raced, mixed>>

\* No newer codex is on the PATH: the attempts left are not made.
Outdated(p) ==
    /\ step[p] = "model" /\ now[p] = Codex
    /\ Fail(p)
    /\ UNCHANGED <<config, mark, begun, raced, mixed>>

\* preflight_build, then initialize_backend for each backend.
Build(p) ==
    /\ step[p] = "build"
    /\ \/ Fail(p) /\ UNCHANGED begun
       \/ /\ To(p, IF Cardinality(use[p]) = 1 THEN "drive" ELSE "round")
          /\ begun' = begun \cup use[p]
          /\ UNCHANGED locks
    /\ UNCHANGED <<config, mark, raced, mixed>>

-----------------------------------------------------------------------------
(* The run *)

Leave(p) == Quit(p, "done")

\* run_backend: one backend, driven to its end.
Drive(p) ==
    /\ step[p] = "drive"
    /\ Leave(p)
    /\ mark' \in {mark, mark \cup {now[p]}}
    /\ UNCHANGED <<config, begun, raced, mixed>>

\* run_ensemble: the backends not stopped, each to have a turn.
Round(p) ==
    /\ step[p] = "round"
    /\ LET left == use[p] \ stopped[p] IN
       IF left = {} \/ (MaxIterations > 0 /\ total[p] >= MaxIterations) THEN Leave(p)
       ELSE /\ Fix(p, "turn") /\ due' = [due EXCEPT ![p] = left]
            /\ UNCHANGED <<scope, use, now, tries, own, total, ran, stopped, failed, spent, streak, locks>>
    /\ UNCHANGED <<config, mark, begun, raced, mixed>>

More(p) == due[p] # {} /\ (MaxIterations > 0 => total[p] < MaxIterations)

EndRound(p) ==
    /\ step[p] = "turn" /\ ~More(p)
    /\ To(p, "round")
    /\ UNCHANGED files

\* It is b's turn, and the last one it has in this round.
Turn(p, b) ==
    /\ step[p] = "turn" /\ More(p) /\ First(b, due[p])
    /\ due' = [due EXCEPT ![p] = @ \ {b}]

\* What a turn of b leaves: whether b stops, fails, keeps its transient count,
\* and whether its pause budget is gone.
Took(p, b, stop, fail, n, gone) ==
    /\ total' = [total EXCEPT ![p] = @ + 1] /\ ran' = [ran EXCEPT ![p] = @ \cup {b}]
    /\ stopped' = IF stop THEN [stopped EXCEPT ![p] = @ \cup {b}] ELSE stopped
    /\ failed' = IF fail THEN [failed EXCEPT ![p] = @ \cup {b}] ELSE failed
    /\ streak' = [streak EXCEPT ![p][b] = n]
    /\ spent' = IF gone THEN [spent EXCEPT ![p] = @ \cup {b}] ELSE spent
Rest == <<step, scope, use, now, tries, own, locks, config, begun, raced, mixed>>

\* It worked; it has nothing left or its wall is over; or no turn was begun.
Ran(p, b) ==
    /\ Turn(p, b)
    /\ \/ Took(p, b, FALSE, FALSE, 0, FALSE)
       \/ Took(p, b, TRUE, FALSE, streak[p][b], FALSE)
       \/ /\ stopped' = [stopped EXCEPT ![p] = @ \cup {b}]
          /\ UNCHANGED <<total, ran, failed, spent, streak>>
    /\ mark' = mark /\ UNCHANGED Rest

Rejected(p, b) ==
    /\ Turn(p, b)
    /\ Took(p, b, TRUE, TRUE, 0, FALSE)
    /\ mark' = mark \cup {b} /\ UNCHANGED Rest

Alternatives(p, b) == use[p] \ (stopped[p] \cup {b})

\* Out of capacity: left out while others can go on, else waited for within
\* its pause budget.
Capacity(p, b) ==
    /\ Turn(p, b)
    /\ \/ /\ Alternatives(p, b) # {} \/ b \in spent[p]
          /\ Took(p, b, TRUE, TRUE, 0, FALSE) /\ mark' = mark \cup {b}
       \/ /\ Alternatives(p, b) = {} /\ b \notin spent[p]
          /\ \E gone \in BOOLEAN : Took(p, b, FALSE, FALSE, 0, gone)
          /\ mark' = mark \ {b}
    /\ UNCHANGED Rest

Transient(p, b) ==
    /\ Turn(p, b)
    /\ LET n == streak[p][b] + 1
           over == n > TransientMax \/ (MaxIterations > 0 /\ total[p] + 1 >= MaxIterations)
       IN /\ Took(p, b, over, over, n, FALSE)
          /\ mark' = IF over THEN mark \cup {b} ELSE mark
    /\ UNCHANGED Rest

Steps(p) ==
    \/ Check(p) \/ Write(p) \/ Mkdir(p) \/ Remove(p) \/ Remake(p) \/ WritePid(p)
    \/ \E a \in {"acted", "substituted", "rejected", "unsafe", "failed"} : Model(p, a)
    \/ Outdated(p) \/ Build(p) \/ Drive(p) \/ Round(p) \/ EndRound(p)
    \/ \E b \in due[p] : Ran(p, b) \/ Rejected(p, b) \/ Capacity(p, b) \/ Transient(p, b)

Over == \A p \in Launches : ~Alive(p) /\ step[p] # "off"

LaunchNext ==
    \/ \E p \in Launches : \/ \E w \in Scopes, s \in SUBSET Backends : Main(p, w, s)
                           \/ Steps(p) \/ Signal(p) \/ KillLaunch(p)
    \/ \E b \in Backends : Age(b)
    \/ Over /\ UNCHANGED launchVars

LaunchSpec == LaunchInit /\ [][LaunchNext]_launchVars

-----------------------------------------------------------------------------
(* Properties *)

Pcs == {"off", "check", "write", "lock", "remove", "remake", "pid", "model", "build", "drive",
        "round", "turn", "killed"} \cup Ended
Wants == Scopes \cup {Unrecorded}
Picks == SUBSET Backends
Streaks == [Backends -> Nat]
InstanceLock == [dir : BOOLEAN, pid : Launches \cup {Dead, Ownerless}, old : BOOLEAN]

\* The type of every variable.
LaunchTypeOK ==
    /\ step \in [Launches -> Pcs] /\ scope \in [Launches -> Wants] /\ now \in [Launches -> Backends]
    /\ tries \in [Launches -> Nat] /\ total \in [Launches -> Nat] /\ streak \in [Launches -> Streaks]
    /\ use \in [Launches -> Picks] /\ own \in [Launches -> Picks] /\ due \in [Launches -> Picks]
    /\ ran \in [Launches -> Picks] /\ stopped \in [Launches -> Picks]
    /\ failed \in [Launches -> Picks] /\ spent \in [Launches -> Picks]
    /\ locks \in [Backends -> InstanceLock]
    /\ config \in [Backends -> Wants]
    /\ mark \subseteq Backends /\ begun \subseteq Backends
    /\ raced \subseteq Backends /\ mixed \subseteq Backends

\* Two launches work on one backend's tree only if both took over the same
\* dead lock at once, or one was half a minute between its mkdir and its pid.
OneInstance ==
    \A p, q \in Launches, b \in Backends :
        p # q /\ Alive(p) /\ Alive(q) /\ b \in own[p] \cap own[q] => b \in raced

\* A launch that ended, by an error, a signal or itself, leaves no lock that
\* would refuse the next one for its pid.
LocksFreed == \A p \in Launches, b \in Backends : step[p] \in Ended => locks[b].pid # p

\* A backend that the ensemble left out is marked unavailable.
LeftOutMarked ==
    \A p \in Launches : \A b \in failed[p] : Alive(p) /\ b \notin raced => b \in mark

\* A bounded ensemble that ends has given every backend a turn.
EveryBackendTried == \A p \in Launches : step[p] = "done" /\ Cardinality(use[p]) > 1 =>
                         use[p] = ran[p] \cup stopped[p]

\* A recorded scope changes only when two launches prepared one fresh tree at once.
ScopeKept == [][\A b \in Backends : config[b] \in {Unrecorded, config'[b]} \/ b \in mixed]_launchVars

\* Two launches of one tree overlap only where a dead lock was taken over twice
\* at once; one that ended leaves no lock; a backend left out is marked and every
\* other had a turn; and a recorded scope stays.
LaunchKept ==
    [](OneInstance /\ LocksFreed /\ LeftOutMarked /\ EveryBackendTried) /\ ScopeKept
=============================================================================
