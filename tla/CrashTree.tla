------------------------------ MODULE CrashTree ------------------------------
(***************************************************************************)
(* The crash tree of one results directory: bin/probe files bundles into   *)
(* it (lib/crash_bundle.py, materialize) while triage passes fold          *)
(* duplicates out of it and judge the rest (lib/triage.py,                 *)
(* triage_crash_dirs, _fold_duplicate_crash_states).                       *)
(*                                                                         *)
(* Nothing is locked: a filing looks, then creates its directory, and a    *)
(* pass reads the receipts once and folds by what it read.  What a review  *)
(* decides is free here; module Triage says how it decides.  Bundles are   *)
(* numbered in the order they were filed.                                  *)
(***************************************************************************)
EXTENDS Integers, FiniteSets

CONSTANTS
    Agents,
    Cases,            \* reproducers, each with its probe identity
    StateOf, RouteOf, \* crash state and probe route of a case, or "none"
    Revises,          \* <<c, d>>: c is d after an edit of the same harness
    MaxFiled          \* bound: bundles filed

ASSUME TreeAssumption == MaxFiled \in Nat

VARIABLES
    \* bundles, by number
    filed,            \* how many there are
    maker, number,    \* the two halves of the directory's name
    case, place, receipt,
    exported, noted,  \* those with a .audit, with a duplicate record
    \* filings
    index,            \* .probe-filed-<agent>.tsv: identities and numbers
    probe,            \* a filing between its look and its mkdir
    \* the triage pass at work
    phase, wave,
    took,             \* what it was handed
    left, cand, judging, later,
    owners,           \* promoted when the pass read the receipts
    at                \* the bundle being recorded as a duplicate

names == <<filed, maker, number>>
marks == <<receipt, exported, noted>>
filings == <<index, probe>>
lists == <<took, left, cand, judging, later, owners>>
treeVars == <<names, case, place, marks, filings, phase, wave, lists, at>>

Bundles == 1..MaxFiled
Places == {"none", "crashes", "rejected", "finding", "hidden", "nested"}
Phases == {"idle", "fold", "record", "judge"}
Receipts == {"none", "pending", "promoted"}
NoProbe == [case |-> "none", num |-> 0]

In(p) == {n \in Bundles : place[n] = p}
Same(n, c) == StateOf[case[n]] = StateOf[c] /\ RouteOf[case[n]] = RouteOf[c]

\* The type of every variable; what is filed has a case and a name.
TreeTypeOK ==
    /\ filed \in 0..MaxFiled
    /\ maker \in [Bundles -> Agents \cup {"none"}] /\ number \in [Bundles -> 0..MaxFiled]
    /\ case \in [Bundles -> Cases \cup {"none"}]
    /\ place \in [Bundles -> Places] /\ receipt \in [Bundles -> Receipts]
    /\ exported \subseteq Bundles /\ noted \subseteq Bundles
    /\ index \in [Agents -> SUBSET (Cases \X Bundles)]
    /\ probe \in [Agents -> {NoProbe} \cup [case : Cases, num : 1..(MaxFiled + 1)]]
    /\ phase \in Phases
    /\ wave \in 0..2 /\ at \in 0..MaxFiled
    /\ took \subseteq Bundles /\ left \subseteq Bundles /\ cand \subseteq Bundles
    /\ judging \subseteq Bundles /\ later \subseteq Bundles /\ owners \subseteq Bundles
    /\ \A n \in Bundles : place[n] # "none" =>
           n <= filed /\ case[n] \in Cases /\ maker[n] \in Agents /\ number[n] \in Bundles

TreeInit ==
    /\ filed = 0
    /\ maker = [n \in Bundles |-> "none"] /\ number = [n \in Bundles |-> 0]
    /\ case = [n \in Bundles |-> "none"] /\ place = [n \in Bundles |-> "none"]
    /\ receipt = [n \in Bundles |-> "none"] /\ exported = {} /\ noted = {}
    /\ index = [a \in Agents |-> {}] /\ probe = [a \in Agents |-> NoProbe]
    /\ phase = "idle" /\ wave = 0 /\ at = 0
    /\ took = {} /\ left = {} /\ cand = {} /\ judging = {} /\ later = {} /\ owners = {}

-----------------------------------------------------------------------------
(* Filing *)

\* A bundle under crashes/ that this identity was filed as: by the index,
\* which names a directory, or by the identity written into the directory.
FiledAs(a, c) ==
    {n \in In("crashes") : maker[n] = a /\ (case[n] = c \/ <<c, number[n]>> \in index[a])}

\* filed_duplicate and state_owner: any bundle with this state and route.
Owners(c) ==
    IF StateOf[c] = "none" \/ RouteOf[c] = "none" THEN {}
    ELSE {n \in In("crashes") : Same(n, c)}

\* _own_revision: the agent's bundle this case is an edit of.
Revised(a, c) ==
    {n \in In("crashes") \ exported :
        maker[n] = a /\ <<c, case[n]>> \in Revises
        /\ StateOf[c] # "none" /\ StateOf[case[n]] = StateOf[c]}

\* n follows the highest number in crashes/ and crashes-rejected/.
NextNumber(a, n) ==
    LET used == {number[b] : b \in {d \in In("crashes") \cup In("rejected") : maker[d] = a}}
    IN (n = 1 \/ n - 1 \in used) /\ \A m \in used : m < n

\* The line in the index is a hint: writing it may fail.
Enter(a, c, n) == index' \in {index, [index EXCEPT ![a] = @ \cup {<<c, n>>}]}

\* materialize up to the mkdir: a repeat is refused (DUP, DUP-STATE), an own
\* revision refreshed in place, and for anything else a number is chosen.
Look(a, c) ==
    /\ probe[a] = NoProbe /\ filed < MaxFiled
    /\ FiledAs(a, c) = {} /\ Owners(c) = {}
    /\ \/ \E n \in Revised(a, c) :
             /\ \A m \in Revised(a, c) : number[n] <= number[m]
             /\ case' = [case EXCEPT ![n] = c] /\ receipt' = [receipt EXCEPT ![n] = "none"]
             /\ Enter(a, c, number[n]) /\ UNCHANGED probe
       \/ /\ Revised(a, c) = {}
          /\ \E n \in 1..(MaxFiled + 1) :
                NextNumber(a, n) /\ probe' = [probe EXCEPT ![a] = [case |-> c, num |-> n]]
          /\ UNCHANGED <<case, receipt, index>>
    /\ UNCHANGED <<names, place, exported, noted, phase, wave, lists, at>>

\* The bundle is created and entered in the index, or writing it failed and
\* nothing is left.
Create(a) ==
    LET p == probe[a]
        n == filed + 1
    IN /\ p # NoProbe /\ probe' = [probe EXCEPT ![a] = NoProbe]
       /\ \/ /\ filed < MaxFiled /\ p.num <= MaxFiled
             /\ ~\E d \in In("crashes") : maker[d] = a /\ number[d] = p.num
             /\ filed' = n /\ maker' = [maker EXCEPT ![n] = a]
             /\ number' = [number EXCEPT ![n] = p.num] /\ case' = [case EXCEPT ![n] = p.case]
             /\ place' = [place EXCEPT ![n] = "crashes"]
             /\ Enter(a, p.case, p.num)
          \/ UNCHANGED <<names, case, place, index>>
       /\ UNCHANGED <<marks, phase, wave, lists, at>>

-----------------------------------------------------------------------------
(* A triage pass *)

Promoted == {n \in In("crashes") : receipt[n] = "promoted"}

Open == In("crashes") \ Promoted

\* A barrier takes every bundle whose receipt is not final, a sweep what is
\* sealed, here one; the receipts are read once.
StartPass ==
    /\ phase = "idle" /\ phase' = "fold" /\ wave' = 1
    /\ \E S \in {Open} \cup {{n} : n \in Open} : S # {} /\ took' = S /\ left' = S
    /\ owners' = Promoted
    /\ UNCHANGED <<names, case, place, marks, filings, cand, judging, later, at>>

\* state_owner(promoted_only): promoted when the receipts were read, and its
\* directory still there.
FoldOwners(n) == Owners(case[n]) \cap (owners \ {n})

\* Decide on one directory: it goes to review as it is, is folded or is kept
\* as a candidate.
Fold ==
    /\ phase = "fold"
    /\ \E n \in left :
          /\ left' = left \ {n}
          /\ \/ /\ StateOf[case[n]] = "none" \/ n \in owners
                /\ judging' = judging \cup {n}
                /\ UNCHANGED <<cand, place, phase, at>>
             \/ /\ StateOf[case[n]] # "none" /\ n \notin owners /\ FoldOwners(n) = {}
                /\ cand' = cand \cup {n}
                /\ UNCHANGED <<judging, place, phase, at>>
             \/ /\ StateOf[case[n]] # "none" /\ n \notin owners /\ FoldOwners(n) # {}
                /\ place' = [place EXCEPT ![n] = "hidden"]
                /\ phase' = "record" /\ at' = n
                /\ UNCHANGED <<judging, cand>>
    /\ UNCHANGED <<names, case, marks, filings, wave, took, later, owners>>

\* The pass is over.
EndPass ==
    /\ phase' = "idle" /\ wave' = 0 /\ at' = 0 /\ took' = {} /\ left' = {}
    /\ cand' = {} /\ judging' = {} /\ later' = {} /\ owners' = {}

\* _fold_duplicate_crash after its move: the duplicate is recorded, or moved
\* back and the pass fails.  shutil.move into a name taken meanwhile nests.
Record ==
    /\ phase = "record"
    /\ \/ /\ noted' = noted \cup {at} /\ took' = took \ {at}
          /\ phase' = "fold" /\ at' = 0
          /\ UNCHANGED <<place, wave, left, cand, judging, later, owners>>
       \/ /\ \E p \in {"nested", "crashes"} :
                /\ p = "nested" <=> \E d \in In("crashes") : maker[d] = maker[at] /\ number[d] = number[at]
                /\ place' = [place EXCEPT ![at] = p]
          /\ EndPass /\ UNCHANGED noted
    /\ UNCHANGED <<names, case, receipt, exported, filings>>

\* Bug: nobody waits for a sibling's verdict.
LeadersAll == cand

\* The earliest filed of the candidates with one state and route leads; one
\* without a route always does.
Leaders ==
    IF wave = 2 THEN cand
    ELSE {n \in cand : RouteOf[case[n]] = "none" \/ ~\E m \in cand : m < n /\ Same(m, case[n])}

Elect ==
    /\ phase = "fold" /\ left = {} /\ phase' = "judge"
    /\ judging' = judging \cup Leaders /\ later' = cand \ Leaders /\ cand' = {}
    /\ UNCHANGED <<names, case, place, marks, filings, wave, took, left, owners, at>>

\* triage_one_crash on one of the wave's bundles.
Judge ==
    /\ phase = "judge"
    /\ \E n \in judging :
          /\ judging' = judging \ {n} /\ took' = took \ {n}
          /\ \/ \E r \in {"promoted", "pending"} :
                   /\ receipt' = [receipt EXCEPT ![n] = r] /\ exported' = exported \cup {n}
                   /\ UNCHANGED place
             \/ \E p \in {"rejected", "finding"} :
                   /\ receipt' = [receipt EXCEPT ![n] = "none"] /\ place' = [place EXCEPT ![n] = p]
                   /\ UNCHANGED exported
    /\ UNCHANGED <<names, case, noted, filings, phase, wave, left, cand, later, owners, at>>

\* The deferred siblings are folded or judged once the leaders have verdicts.
NextWave ==
    /\ phase = "judge" /\ judging = {}
    /\ \/ later = {} /\ EndPass
       \/ /\ later # {} /\ phase' = "fold" /\ wave' = 2
          /\ left' = later /\ later' = {} /\ owners' = Promoted
          /\ UNCHANGED <<took, cand, judging, at>>
    /\ UNCHANGED <<names, case, place, marks, filings>>

\* An edit outdates a receipt.
Lapse ==
    /\ \E n \in Promoted : receipt' = [receipt EXCEPT ![n] = "none"]
    /\ UNCHANGED <<names, case, place, exported, noted, filings, phase, wave, lists, at>>

TreeNext ==
    \/ \E a \in Agents : Create(a) \/ (\E c \in Cases : Look(a, c))
    \/ StartPass \/ Fold \/ Record \/ Elect \/ Judge \/ NextWave
    \/ Lapse

TreeSpec == TreeInit /\ [][TreeNext]_treeVars

-----------------------------------------------------------------------------
(* Properties *)

\* triage.py 3556-3571: a pass buys one review per crash state and route at a
\* time; the other bundles of that state wait for the verdict.
OneReviewPerState ==
    wave = 1 /\ phase = "judge" =>
        \A n, m \in judging \ owners :
            /\ n # m /\ StateOf[case[n]] # "none" /\ RouteOf[case[n]] # "none"
            => ~Same(n, case[m])

\* triage.py 3631-3644: a bundle is hidden and recorded as a duplicate, or
\* neither, except in the moment between the two.
HiddenIsRecorded ==
    \A n \in In("hidden") : n \in noted \/ (phase = "record" /\ at = n)

\* triage.py 3563-3566: evidence leaves the tree only beside a bundle of the
\* same state and route that was promoted when the pass read the receipts.
FoldedBesidePromoted ==
    [][\A n \in In("crashes") : place'[n] = "hidden" =>
          \E o \in In("crashes") \cap owners : o # n /\ Same(o, case[n])]_treeVars

\* triage.py 3529-3542: "so a barrier leaves nothing unjudged": a pass that
\* ends has folded or judged every bundle it took up, the deferred ones too.
NothingUnjudged ==
    [][phase = "judge" /\ phase' = "idle" => took = {}]_treeVars

\* One bundle per crash state is reviewed at a time, a hidden one is in the
\* record of the bundle it is hidden under, a fold goes beside a promoted bundle
\* of its state, and a pass leaves no bundle it was handed unjudged.
TreeKept ==
    /\ [](OneReviewPerState /\ HiddenIsRecorded)
    /\ FoldedBesidePromoted
    /\ NothingUnjudged

=============================================================================
