--------------------------- MODULE SourceIdentity ---------------------------
(***************************************************************************)
(* The content identity of a checkout (src/lib/target_config.py): which    *)
(* paths the VCS reports, which of them count, and the signature folded    *)
(* from them.  A build stamp carries the signature of the whole working    *)
(* tree, a benchmark's source pin the one of tracked files alone.          *)
(*                                                                         *)
(* A path holds a content or is absent, in the last commit, in the index   *)
(* and in the working tree.  Sources may be tracked; an ignored path, a    *)
(* path under a build directory and a fuzzer's artifact are by-products.   *)
(***************************************************************************)
EXTENDS Naturals, FiniteSets

CONSTANTS
    Sources,    \* paths of the product's source
    Products,   \* by-products, each one of "ignored", "pruned", "artifact"
    Committed,  \* the sources of the first commit
    Vcs,        \* "git", "hg" or "none"
    MaxCommits  \* bound: commits

(* What a checkout is: by-products are never source. *)
ASSUME PathsAssumption ==
    /\ Products \subseteq {"ignored", "pruned", "artifact"}
    /\ Sources \cap {"ignored", "pruned", "artifact"} = {}
    /\ Committed \subseteq Sources
    /\ Vcs \in {"git", "hg", "none"} /\ MaxCommits \in Nat

VARIABLES
    head, index, work,  \* path -> content
    rev,        \* the commit
    answers,    \* TRUE: the VCS can be read
    stamp,      \* the signature a build was stamped with
    pin,        \* the tracked-only signature a benchmark pinned
    built       \* the checkout that build compiled and that benchmark pinned

vars == <<head, index, work, rev, answers, stamp, pin, built>>

Paths == Sources \cup Products
Absent == 0
Contents == {Absent, 1, 2}
Unknown == [rev |-> MaxCommits + 1, changed |-> {}]
Nothing == [rev |-> MaxCommits + 2, changed |-> {}]
Signatures == [rev : 0 .. MaxCommits + 2, changed : SUBSET (Paths \X Contents)]

-----------------------------------------------------------------------------
(* What the VCS reports *)

(* an exact rename between the last commit and the index is one record, under its new name *)
Origins ==
    {p \in Sources : /\ Vcs = "git"
                     /\ head[p] # Absent /\ index[p] = Absent
                     /\ \E q \in Sources : head[q] = Absent /\ index[q] = head[p]}

(* Bug: a path no longer there is not reported *)
ModifiedPresent == {p \in Sources : work[p] # Absent /\ (index[p] # head[p] \/ work[p] # index[p])}

Modified == {p \in Sources : index[p] # head[p] \/ (index[p] # Absent /\ work[p] # index[p])}
Untracked == {p \in Paths : index[p] = Absent /\ work[p] # Absent /\ p # "ignored"}

Reported(untracked) == (Modified \ Origins) \cup (IF untracked THEN Untracked ELSE {})

(* _path_is_pruned, _is_untracked_fuzz_artifact *)
Counts(p) == p \notin {"pruned", "artifact"}

-----------------------------------------------------------------------------
(* The signature *)

(* _mode_tag, _content_digest: a path's content, or its absence *)
Digest(p) == <<p, work[p]>>

(* _git_source_entries, _hg_source_entries: the commit, and each counted path's content *)
Entries(untracked) ==
    [rev |-> rev, changed |-> {Digest(p) : p \in {q \in Reported(untracked) : Counts(q)}}]

(* _walk_source_entries: every path but those under a build directory *)
Walked == {Digest(p) : p \in {q \in Paths : work[q] # Absent /\ q # "pruned"}}

(* _source_state_signature *)
Signature ==
    IF Vcs = "none" THEN [rev |-> 0, changed |-> Walked]
    ELSE IF answers THEN Entries(TRUE) ELSE Unknown

(* vcs_source_signature: no cheap answer is no pin *)
PinSignature == IF Vcs = "none" \/ ~ answers THEN Nothing ELSE Entries(FALSE)

-----------------------------------------------------------------------------
(* A working copy, and the two readers of its identity *)

Write(p, c) ==
    /\ work[p] # c /\ (p \in Products => c # 2)
    /\ work' = [work EXCEPT ![p] = c]
    /\ UNCHANGED <<head, index, rev, answers, stamp, pin, built>>

Stage(p) ==
    /\ Vcs # "none" /\ p \in Sources /\ index[p] # work[p]
    /\ index' = [index EXCEPT ![p] = work[p]]
    /\ UNCHANGED <<head, work, rev, answers, stamp, pin, built>>

Commit ==
    /\ Vcs # "none" /\ index # head /\ rev < MaxCommits
    /\ head' = index /\ rev' = rev + 1
    /\ UNCHANGED <<index, work, answers, stamp, pin, built>>

(* the path as it was in the last commit, in the index too *)
Checkout(p) ==
    /\ Vcs # "none" /\ p \in Sources /\ head[p] # Absent
    /\ index[p] # head[p] \/ work[p] # head[p]
    /\ index' = [index EXCEPT ![p] = head[p]]
    /\ work' = [work EXCEPT ![p] = head[p]]
    /\ UNCHANGED <<head, rev, answers, stamp, pin, built>>

VcsFails == Vcs # "none" /\ answers' = ~ answers
            /\ UNCHANGED <<head, index, work, rev, stamp, pin, built>>

(* the checkout as it is: what a build or a benchmark cell reads *)
Checked == [work |-> [p \in Sources |-> work[p]], index |-> index, origins |-> Origins]

(* a successful build is stamped, unless the identity is unknown, and a benchmark *)
(* on it records its source pin; one record, at any time, tells every case        *)
Record ==
    /\ stamp = Nothing /\ pin = Nothing
    /\ stamp' = IF Signature = Unknown THEN Nothing ELSE Signature
    /\ pin' = PinSignature
    /\ built' = Checked
    /\ UNCHANGED <<head, index, work, rev, answers>>

Init ==
    /\ head = [p \in Paths |-> IF p \in Committed THEN 1 ELSE Absent]
    /\ index = head /\ work = head
    /\ rev = 0 /\ answers = TRUE
    /\ stamp = Nothing /\ pin = Nothing
    /\ built = Checked

Next ==
    \/ \E p \in Paths, c \in Contents : Write(p, c)
    \/ \E p \in Paths : Stage(p) \/ Checkout(p)
    \/ Commit \/ VcsFails \/ Record

Spec == Init /\ [][Next]_vars

-----------------------------------------------------------------------------
(* The type of every variable; no by-product is tracked. *)
TypeOK ==
    /\ head \in [Paths -> Contents] /\ index \in [Paths -> Contents]
    /\ work \in [Paths -> Contents] /\ rev \in 0 .. MaxCommits /\ answers \in BOOLEAN
    /\ stamp \in Signatures /\ stamp # Unknown /\ pin \in Signatures /\ pin # Unknown
    /\ built \in [work : [Sources -> Contents], index : [Paths -> Contents],
                  origins : SUBSET Sources]
    /\ \A p \in Products : head[p] = Absent /\ index[p] = Absent

Fresh == stamp # Nothing /\ stamp = Signature

(* A build whose stamp matches was compiled from the very source files in     *)
(* the checkout, however they were staged, committed, deleted and reverted;   *)
(* only the origin of a staged rename is not in the signature.                *)
FreshIsSame ==
    Fresh => \A p \in Sources \ (Origins \cup built.origins) : work[p] = built.work[p]

(* By-products of a test run, and an edit that is taken back, leave a         *)
(* checkout's build fresh.                                                    *)
OnlySourceStales ==
    Vcs # "none" /\ answers /\ stamp # Nothing /\ stamp.rev = rev /\ built = Checked => Fresh

(* A benchmark's pin moves with a tracked file and with nothing else: what a  *)
(* cell writes beside the source is never drift, an edit always is.           *)
TrackedWork(c) ==
    [p \in {q \in Sources : c.index[q] # Absent \/ head[q] # Absent} \ Origins |-> c.work[p]]
PinIsTracked ==
    answers /\ pin # Nothing /\ pin.rev = rev /\ built.index = index =>
        (pin = PinSignature <=> TrackedWork(built) = TrackedWork(Checked))

(* A matching signature is of the same source files, renames apart; nothing   *)
(* but source stales it; and a pin is of the tracked files.                   *)
IdentityKept == FreshIsSame /\ OnlySourceStales /\ PinIsTracked

(* A matching stamp means the same source files, deletions included.          *)
RenameSeen == Fresh => Checked.work = built.work
=============================================================================
