----------------------------- MODULE BuildLease -----------------------------
(***************************************************************************)
(* lib/build_lease.py with its users: runs and sanitizer runners hold a    *)
(* build tree shared (hold_shared, behind sanitizer.hold_build and         *)
(* build_preflight.hold_builds); build_materialize.materialize replaces it *)
(* in place under the exclusive lease.                                     *)
(*                                                                         *)
(* The lock is the kernel's flock: a process that ends or is killed drops  *)
(* what it holds, and nothing else of it: the writer's pending marker, the *)
(* half-written tree and the backup stay, and so does the recipe, a child  *)
(* process, when the kill did not take the whole process group.  Waits are *)
(* bounded by deadlines; a deadline may pass at any moment of the wait it  *)
(* bounds.                                                                 *)
(***************************************************************************)
EXTENDS Integers, FiniteSets

CONSTANTS
    Procs,       \* process ids; a killed process's id may be used again
    RecipeSurvives, \* whether a killed builder's recipe may go on running
    CleanupFails,   \* whether removing a directory tree may fail half-way
    MaxBuilds    \* bound: builds that succeed

ASSUME LeaseAssumption ==
    MaxBuilds \in Nat /\ RecipeSurvives \in BOOLEAN /\ CleanupFails \in BOOLEAN

Absent == -1
Partial == 0
\* What the tree's path holds: nothing, a half-written tree (0), or build n.
Contents == {Absent} \cup Nat

VARIABLES
    sh, ex,      \* the lock file's shared and exclusive holders
    pending,     \* processes with a pending marker on disk
    pc,
    lease,       \* what hold_shared told its caller
    tree,
    backup,      \* backup[p]: the tree p moved aside
    orphans,     \* backups nobody will move back
    astray,      \* a recipe runs whose builder was killed
    newest       \* history: the last build reported, or left stamped by a kill

lock == <<sh, ex, pending>>
vars == <<lock, pc, lease, tree, backup, orphans, astray, newest>>

Consumer == {"defer", "waitSh", "using"}
Waiting == {"peers", "probe", "probing", "announce", "waitEx"}
Building == {"locked", "moved", "building", "stamped", "raised", "failed", "unlock"}

\* The type of every variable, and the lock's meaning: the exclusive holder
\* is alone, and who holds the lock is at a step that does.
TypeOK ==
    /\ sh \subseteq Procs /\ ex \subseteq Procs /\ pending \subseteq Procs
    /\ pc \in [Procs -> {"idle", "clear", "dead"} \cup Consumer \cup Waiting \cup Building]
    /\ lease \in [Procs -> {"none", "held", "open", "skipped"}]
    /\ tree \in Contents /\ backup \in [Procs -> Contents] /\ orphans \subseteq Contents
    /\ newest \in Nat
    /\ astray \in BOOLEAN
    /\ ex # {} => sh = {}
    /\ \A p, q \in ex : p = q
    /\ \A p \in Procs : /\ p \in ex <=> pc[p] \in Building \cup {"probing"}
                        /\ p \in sh <=> lease[p] = "held"
                        /\ lease[p] # "none" <=> pc[p] = "using"

\* A first build may exist.
Init ==
    /\ sh = {} /\ ex = {} /\ pending = {}
    /\ pc = [p \in Procs |-> "idle"]
    /\ lease = [p \in Procs |-> "none"]
    /\ tree \in {Absent, 1}
    /\ backup = [p \in Procs |-> Absent]
    /\ orphans = {} /\ astray = FALSE
    /\ newest = IF tree = 1 THEN 1 ELSE 0

Goto(p, step) == pc' = [pc EXCEPT ![p] = step]

-----------------------------------------------------------------------------
(* Consumers *)

\* sanitizer.hold_build, build_preflight.hold_builds: a tree that is no
\* directory is not held, and not reported as unheld.
StartRun(p) ==
    /\ pc[p] = "idle"
    /\ IF tree = Absent
         THEN Goto(p, "using") /\ lease' = [lease EXCEPT ![p] = "skipped"]
         ELSE Goto(p, "defer") /\ UNCHANGED lease
    /\ UNCHANGED <<lock, tree, backup, orphans, astray, newest>>

\* Markers of other live processes.
LivePending(p) == {q \in pending \ {p} : pc[q] # "dead"}

\* _pending_writer_alive finds none, and reaps what killed writers left.
Defer(p) ==
    /\ pc[p] = "defer" /\ LivePending(p) = {}
    /\ pending' = pending \cap {p}
    /\ Goto(p, "waitSh")
    /\ UNCHANGED <<sh, ex, lease, tree, backup, orphans, astray, newest>>

\* Bug: a consumer defers as long as a writer is announced.
DeferForever(p) ==
    /\ pc[p] = "defer" /\ pending \ {p} = {}
    /\ Goto(p, "waitSh")
    /\ UNCHANGED <<lock, lease, tree, backup, orphans, astray, newest>>

\* PENDING_DEFER_SECONDS are over.
DeferExpires(p) ==
    /\ pc[p] = "defer"
    /\ Goto(p, "waitSh")
    /\ UNCHANGED <<lock, lease, tree, backup, orphans, astray, newest>>

GrantSh(p) ==
    /\ pc[p] = "waitSh" /\ ex = {}
    /\ sh' = sh \cup {p}
    /\ Goto(p, "using") /\ lease' = [lease EXCEPT ![p] = "held"]
    /\ UNCHANGED <<ex, pending, tree, backup, orphans, astray, newest>>

\* The lease stayed contended past the deadline, or the lock file cannot be
\* written: the consumer goes on without it, with a warning.
GiveUpSh(p) ==
    /\ pc[p] = "waitSh"
    /\ Goto(p, "using") /\ lease' = [lease EXCEPT ![p] = "open"]
    /\ UNCHANGED <<lock, tree, backup, orphans, astray, newest>>

\* The consumer's process ends.
Finish(p) ==
    /\ pc[p] = "using"
    /\ sh' = sh \ {p}
    /\ Goto(p, "idle") /\ lease' = [lease EXCEPT ![p] = "none"]
    /\ UNCHANGED <<ex, pending, tree, backup, orphans, astray, newest>>

-----------------------------------------------------------------------------
(* materialize *)

\* writer_pending: with a peer announced, its build is waited for; without
\* one, consumers_active is asked.
AskPeers(p) ==
    /\ pc[p] = "idle"
    /\ Goto(p, IF LivePending(p) = {} THEN "probe" ELSE "announce")
    /\ pending' = pending \cap (LivePending(p) \cup {p})
    /\ UNCHANGED <<sh, ex, lease, tree, backup, orphans, astray, newest>>

\* consumers_active tries the exclusive lock: taken, and dropped in the next
\* step, or refused, and then the builder reports "held".
Probe(p) ==
    /\ pc[p] = "probe"
    /\ IF sh = {} /\ ex = {}
         THEN /\ ex' = {p} /\ Goto(p, "probing")
         ELSE /\ Goto(p, "idle")
              /\ UNCHANGED ex
    /\ UNCHANGED <<sh, pending, lease, tree, backup, orphans, astray, newest>>

ProbeDone(p) ==
    /\ pc[p] = "probing"
    /\ ex' = {}
    /\ Goto(p, "announce")
    /\ UNCHANGED <<sh, pending, lease, tree, backup, orphans, astray, newest>>

Announce(p) ==
    /\ pc[p] = "announce"
    /\ pending' = pending \cup {p}
    /\ Goto(p, "waitEx")
    /\ UNCHANGED <<sh, ex, lease, tree, backup, orphans, astray, newest>>

GrantEx(p) ==
    /\ pc[p] = "waitEx" /\ sh = {} /\ ex = {}
    /\ ex' = {p}
    /\ Goto(p, "locked")
    /\ UNCHANGED <<sh, pending, lease, tree, backup, orphans, astray, newest>>

\* Bug: a builder that cannot get the lease goes on without it.
GiveUpExOpen(p) ==
    /\ pc[p] = "waitEx"
    /\ ex' = ex \cup {p} /\ Goto(p, "locked")
    /\ UNCHANGED <<sh, pending, lease, tree, backup, orphans, astray, newest>>

\* No lease within the deadline: "held", nothing touched.
GiveUpEx(p) ==
    /\ pc[p] = "waitEx"
    /\ Goto(p, "clear")
    /\ UNCHANGED <<lock, lease, tree, backup, orphans, astray, newest>>

\* A stamped tree that still verifies is left alone, and so is one that
\* cannot be moved.
Fresh(p) ==
    /\ pc[p] = "locked" /\ tree # Absent
    /\ Goto(p, "unlock")
    /\ UNCHANGED <<lock, lease, tree, backup, orphans, astray, newest>>

MoveAside(p) ==
    /\ pc[p] = "locked"
    /\ backup' = [backup EXCEPT ![p] = tree]
    /\ tree' = Absent
    /\ Goto(p, "moved")
    /\ UNCHANGED <<lock, lease, orphans, astray, newest>>

RunRecipe(p) ==
    /\ pc[p] = "moved"
    /\ tree' = Partial
    /\ Goto(p, "building")
    /\ UNCHANGED <<lock, lease, backup, orphans, astray, newest>>

\* The build verifies and is stamped.
Stamp(p) ==
    /\ pc[p] = "building" /\ newest <= MaxBuilds
    /\ tree' = newest + 1
    /\ Goto(p, "stamped")
    /\ UNCHANGED <<lock, lease, backup, orphans, astray, newest>>

\* The backup is removed and the build reported.
BuildOk(p) ==
    /\ pc[p] = "stamped"
    /\ newest' = newest + 1
    /\ backup' = [backup EXCEPT ![p] = Absent]
    /\ Goto(p, "unlock")
    /\ UNCHANGED <<lock, lease, tree, orphans, astray>>

\* Removing the backup fails, half-way perhaps, and the build is a failed one.
CleanupRaises(p) ==
    /\ CleanupFails /\ pc[p] = "stamped"
    /\ \E left \in {backup[p], Partial} :
          /\ backup[p] = Absent => left = Absent
          /\ backup' = [backup EXCEPT ![p] = left]
    /\ Goto(p, "raised")
    /\ UNCHANGED <<lock, lease, tree, orphans, astray, newest>>

\* The build failed, its verification or its cleanup: the tree is moved out ...
BuildFail(p) ==
    /\ pc[p] \in {"building", "raised"}
    /\ tree' = Absent
    /\ Goto(p, "failed")
    /\ UNCHANGED <<lock, lease, backup, orphans, astray, newest>>

\* ... or can be neither moved nor removed: materialize raises.
DiscardFails(p) ==
    /\ pc[p] \in {"building", "raised"}
    /\ orphans' = orphans \cup {backup[p]}
    /\ backup' = [backup EXCEPT ![p] = Absent]
    /\ Goto(p, "unlock")
    /\ UNCHANGED <<lock, lease, tree, astray, newest>>

\* Bug: the backup is dropped with the failed tree.
RestoreNothing(p) ==
    /\ pc[p] = "failed"
    /\ tree' = Absent
    /\ backup' = [backup EXCEPT ![p] = Absent]
    /\ Goto(p, "unlock")
    /\ UNCHANGED <<lock, lease, orphans, astray, newest>>

\* ... and the old one, if there was one, moved back.
Restore(p) ==
    /\ pc[p] = "failed"
    /\ tree' = backup[p]
    /\ backup' = [backup EXCEPT ![p] = Absent]
    /\ Goto(p, "unlock")
    /\ UNCHANGED <<lock, lease, orphans, astray, newest>>

\* The move back fails: the old tree stays in the backup the result names.
RestoreFails(p) ==
    /\ pc[p] = "failed"
    /\ orphans' = orphans \cup {backup[p]}
    /\ backup' = [backup EXCEPT ![p] = Absent]
    /\ Goto(p, "unlock")
    /\ UNCHANGED <<lock, lease, tree, astray, newest>>

\* The lease is released, then the marker removed.
Unlock(p) ==
    /\ pc[p] = "unlock"
    /\ ex' = {}
    /\ Goto(p, "clear")
    /\ UNCHANGED <<sh, pending, lease, tree, backup, orphans, astray, newest>>

ClearPending(p) ==
    /\ pc[p] = "clear"
    /\ pending' = pending \ {p}
    /\ Goto(p, "idle")
    /\ UNCHANGED <<sh, ex, lease, tree, backup, orphans, astray, newest>>

\* SIGKILL, anywhere.
Kill(p) ==
    /\ pc[p] \notin {"idle", "dead"}
    /\ sh' = sh \ {p} /\ ex' = ex \ {p}
    /\ Goto(p, "dead") /\ lease' = [lease EXCEPT ![p] = "none"]
    /\ orphans' = orphans \cup {backup[p]}
    /\ backup' = [backup EXCEPT ![p] = Absent]
    /\ astray' \in {astray, astray \/ (RecipeSurvives /\ pc[p] = "building")}
    /\ newest' = IF pc[p] = "stamped" THEN newest + 1 ELSE newest
    /\ UNCHANGED <<pending, tree>>

\* A recipe whose builder is gone writes where it was told to: the tree's path.
AstrayWrites ==
    /\ astray
    /\ tree # Absent
    /\ tree' = Partial
    /\ UNCHANGED <<lock, pc, lease, backup, orphans, astray, newest>>

AstrayEnds ==
    /\ astray
    /\ astray' = FALSE
    /\ UNCHANGED <<lock, pc, lease, tree, backup, orphans, newest>>

\* The process id comes back.
Reuse(p) ==
    /\ pc[p] = "dead"
    /\ Goto(p, "idle")
    /\ UNCHANGED <<lock, lease, tree, backup, orphans, astray, newest>>

-----------------------------------------------------------------------------
Consume(p) ==
    StartRun(p) \/ Defer(p) \/ DeferExpires(p) \/ GrantSh(p) \/ GiveUpSh(p) \/ Finish(p)

Materialize(p) ==
    \/ AskPeers(p) \/ Probe(p) \/ ProbeDone(p) \/ Announce(p) \/ GrantEx(p) \/ GiveUpEx(p)
    \/ Fresh(p) \/ MoveAside(p) \/ RunRecipe(p) \/ Stamp(p) \/ BuildOk(p) \/ CleanupRaises(p)
    \/ BuildFail(p) \/ DiscardFails(p) \/ Restore(p) \/ RestoreFails(p) \/ Unlock(p) \/ ClearPending(p)

Next ==
    \/ \E p \in Procs : Consume(p) \/ Materialize(p) \/ Kill(p) \/ Reuse(p)
    \/ AstrayWrites \/ AstrayEnds

\* A waiting consumer polls until its deadlines; nothing makes a run end or a
\* builder give way before its own.
Fairness == \A p \in Procs : WF_vars(Defer(p) \/ DeferExpires(p)) /\ WF_vars(GrantSh(p) \/ GiveUpSh(p))

Spec == Init /\ [][Next]_vars /\ Fairness

-----------------------------------------------------------------------------
(* Properties *)

\* The lease keeps the module's promise: whatever is waiting, deferring, timed
\* out or killed, the tree a consumer was told it holds does not change.
Promise == INSTANCE BuildTree WITH
    holders <- {p \in Procs : lease[p] = "held"}, content <- tree

TreeStable == Promise!Spec

\* materialize never loses the last good build: through failed recipes, failed
\* moves and kills it is at the tree's path or in some backup.
LastBuildKept ==
    newest > 0 => tree = newest \/ newest \in orphans \/ \E p \in Procs : backup[p] = newest

\* Deferring to announced writers, who wait for runs that may never end, does
\* not stop a consumer: it gets the lease or goes on without it.
ConsumerProceeds ==
    \A p \in Procs : pc[p] = "defer" ~> pc[p] \in {"using", "dead"}
=============================================================================
