--------------------------- MODULE MeasureProofs ----------------------------
(***************************************************************************)
(* What a benchmark relies on before and after a cell.                     *)
(*                                                                         *)
(* The identity of a checkout, for every set of source files, either VCS   *)
(* or none, and any number of commits: a stamp is a function of the        *)
(* checkout it was taken of and of the last commit, as long as that commit *)
(* is the last one, and the commit's number tells when it is not.          *)
(*                                                                         *)
(* What reaping a launch may end and what it may miss, for every number of *)
(* processes and of rounds.  Ownership is a least closed set, so it is     *)
(* inside every closed set: the launch itself when markers can be read,    *)
(* and the launch with what runs from its directory.                       *)
(*                                                                         *)
(* One benchmark run over kills, edits, resumes and regenerations, for any *)
(* number of cells: what it counts was measured under its pin.             *)
(*                                                                         *)
(* The pooled results of a run, for any cells, artifacts and kills: what a *)
(* report credits was reviewed, scored and published.                      *)
(***************************************************************************)
EXTENDS SourceIdentity, ProcessTree, BenchmarkRun, Pool, FiniteSetTheorems, TLAPS

(* What a VCS says of a recorded checkout c against the last commit *)
ModifiedOf(c) ==
    {p \in Sources : \/ c.index[p] # head[p]
                     \/ c.index[p] # Absent /\ c.work[p] # c.index[p]}
UntrackedOf(c) == {p \in Sources : c.index[p] = Absent /\ c.work[p] # Absent}
OriginsOf(c) ==
    {p \in Sources : /\ Vcs = "git"
                     /\ head[p] # Absent /\ c.index[p] = Absent
                     /\ \E q \in Sources : head[q] = Absent /\ c.index[q] = head[p]}
TrackedOf(c) == {<<p, c.work[p]>> : p \in ModifiedOf(c) \ OriginsOf(c)}
WholeOf(c) == {<<p, c.work[p]>> : p \in (ModifiedOf(c) \ OriginsOf(c)) \cup UntrackedOf(c)}

(* Under a VCS: of a stamp of the last commit, its entries and its checkout agree *)
StampInv ==
    stamp # Nothing /\ Vcs # "none" =>
        /\ stamp.rev <= rev
        /\ stamp.rev = rev => /\ stamp.changed = WholeOf(built)
                              /\ built.origins = OriginsOf(built)

(* Without one: the stamp lists the sources there were *)
WalkInv ==
    stamp # Nothing /\ Vcs = "none" =>
        \A p \in Sources : \A v \in Contents :
            <<p, v>> \in stamp.changed <=> (v = built.work[p] /\ v # Absent)

(* A pin is of a VCS, and of its tracked files *)
PinInv ==
    pin # Nothing =>
        /\ Vcs # "none" /\ pin.rev <= rev
        /\ pin.rev = rev => pin.changed = TrackedOf(built)

IInv == TypeOK /\ StampInv /\ WalkInv /\ PinInv

-----------------------------------------------------------------------------
(* The signatures, from what was checked out *)

LEMMA CheckedType ==
    ASSUME TypeOK
    PROVE  /\ Checked \in [work : [Sources -> Contents], index : [Paths -> Contents],
                           origins : SUBSET Sources]
           /\ \A p \in Sources : Checked.work[p] = work[p]
           /\ Checked.index = index /\ Checked.origins = OriginsOf(Checked)
           /\ Checked.origins = Origins
BY DEF Checked, TypeOK, Origins, OriginsOf, Paths

LEMMA ModifiedIs ==
    ASSUME TypeOK
    PROVE  /\ Modified = ModifiedOf(Checked) /\ Origins = OriginsOf(Checked)
           /\ Untracked \ {"pruned", "artifact"} = UntrackedOf(Checked)
<1>1. Modified = ModifiedOf(Checked) /\ Origins = OriginsOf(Checked)
  BY CheckedType DEF Modified, ModifiedOf
<1>2. ASSUME NEW p \in Paths, p \notin Sources PROVE p \in {"ignored", "pruned", "artifact"}
  BY <1>2, PathsAssumption DEF Paths
<1>3. Untracked \ {"pruned", "artifact"} = UntrackedOf(Checked)
  BY <1>2, CheckedType, PathsAssumption DEF Untracked, UntrackedOf, Paths
<1> QED BY <1>1, <1>3

(* _git_source_entries, _hg_source_entries: with the untracked files *)
LEMMA EntriesWhole ==
    ASSUME TypeOK
    PROVE  Entries(TRUE) = [rev |-> rev, changed |-> WholeOf(Checked)]
<1> DEFINE Told == {q \in Reported(TRUE) : Counts(q)}
           Of == (ModifiedOf(Checked) \ OriginsOf(Checked)) \cup UntrackedOf(Checked)
<1>1. ModifiedOf(Checked) \cap {"pruned", "artifact"} = {}
  BY PathsAssumption DEF ModifiedOf
<1>2. Told = Of
  BY <1>1, ModifiedIs DEF Reported, Counts
<1>3. \A p \in Of : Digest(p) = <<p, Checked.work[p]>>
  BY CheckedType DEF Digest, ModifiedOf, UntrackedOf
<1>4. {Digest(p) : p \in Told} = {<<p, Checked.work[p]>> : p \in Of}
  <2> HIDE DEF Told, Of
  <2> QED BY <1>2, <1>3
<1> QED BY <1>4 DEF Entries, WholeOf

(* the same of the tracked files alone *)
LEMMA EntriesTracked ==
    ASSUME TypeOK
    PROVE  Entries(FALSE) = [rev |-> rev, changed |-> TrackedOf(Checked)]
<1> DEFINE Told == {q \in Reported(FALSE) : Counts(q)}
           Of == ModifiedOf(Checked) \ OriginsOf(Checked)
<1>1. ModifiedOf(Checked) \cap {"pruned", "artifact"} = {}
  BY PathsAssumption DEF ModifiedOf
<1>2. Told = Of
  BY <1>1, ModifiedIs DEF Reported, Counts
<1>3. \A p \in Of : Digest(p) = <<p, Checked.work[p]>>
  BY CheckedType DEF Digest, ModifiedOf
<1>4. {Digest(p) : p \in Told} = {<<p, Checked.work[p]>> : p \in Of}
  <2> HIDE DEF Told, Of
  <2> QED BY <1>2, <1>3
<1> QED BY <1>4 DEF Entries, TrackedOf

(* which paths a signature names, and with which content *)
LEMMA WholeMember ==
    ASSUME NEW c, NEW p, NEW v
    PROVE  <<p, v>> \in WholeOf(c) <=>
               /\ p \in (ModifiedOf(c) \ OriginsOf(c)) \cup UntrackedOf(c)
               /\ v = c.work[p]
<1> DEFINE Of == (ModifiedOf(c) \ OriginsOf(c)) \cup UntrackedOf(c)
<1> HIDE DEF Of
<1>1. <<p, v>> \in {<<q, c.work[q]>> : q \in Of} <=> p \in Of /\ v = c.work[p]
  OBVIOUS
<1> QED BY <1>1 DEF WholeOf, Of

LEMMA TrackedMember ==
    ASSUME NEW c, NEW p, NEW v
    PROVE  <<p, v>> \in TrackedOf(c) <=>
               p \in ModifiedOf(c) \ OriginsOf(c) /\ v = c.work[p]
<1> DEFINE Of == ModifiedOf(c) \ OriginsOf(c)
<1> HIDE DEF Of
<1>1. <<p, v>> \in {<<q, c.work[q]>> : q \in Of} <=> p \in Of /\ v = c.work[p]
  OBVIOUS
<1> QED BY <1>1 DEF TrackedOf, Of

LEMMA WalkedMember ==
    ASSUME TypeOK, NEW p \in Sources, NEW v
    PROVE  <<p, v>> \in Walked <=> (v = work[p] /\ v # Absent)
<1> DEFINE Of == {q \in Paths : work[q] # Absent /\ q # "pruned"}
<1>1. p \in Of <=> work[p] # Absent
  BY PathsAssumption DEF Paths
<1>2. <<p, v>> \in Walked <=> p \in Of /\ v = work[p]
  <2> HIDE DEF Of
  <2>1. <<p, v>> \in {<<q, work[q]>> : q \in Of} <=> p \in Of /\ v = work[p]
    OBVIOUS
  <2> QED BY <2>1 DEF Walked, Digest, Of
<1> QED BY <1>1, <1>2

(* a signature is of the type of a stamp *)
LEMMA SignatureType ==
    ASSUME TypeOK
    PROVE  /\ Signature \in Signatures
           /\ PinSignature \in Signatures /\ PinSignature # Unknown
<1>1. WholeOf(Checked) \subseteq Paths \X Contents /\ TrackedOf(Checked) \subseteq Paths \X Contents
  BY CheckedType DEF WholeOf, TrackedOf, ModifiedOf, UntrackedOf, Paths
<1>2. Walked \subseteq Paths \X Contents
  BY DEF Walked, Digest, TypeOK
<1>3. rev \in 0 .. MaxCommits /\ rev \in 0 .. MaxCommits + 2 /\ MaxCommits \in Nat
  BY PathsAssumption DEF TypeOK
<1> DEFINE Whole == Entries(TRUE)
           Tracked == Entries(FALSE)
<1>4. /\ Whole = [rev |-> rev, changed |-> WholeOf(Checked)]
      /\ Tracked = [rev |-> rev, changed |-> TrackedOf(Checked)]
  BY EntriesWhole, EntriesTracked, Zenon
<1>5. [rev |-> 0, changed |-> Walked] \in Signatures
  BY <1>2, <1>3 DEF Signatures
<1>6. Unknown \in Signatures /\ Nothing \in Signatures
  BY <1>3 DEF Unknown, Nothing, Signatures
<1>7. Whole \in Signatures /\ Tracked \in Signatures /\ Tracked # Unknown /\ Nothing # Unknown
  <2> HIDE DEF Whole, Tracked
  <2> QED BY <1>1, <1>3, <1>4 DEF Signatures, Unknown, Nothing
<1> QED BY <1>5, <1>6, <1>7 DEF Signature, PinSignature

-----------------------------------------------------------------------------
LEMMA InitIInv == ASSUME Init PROVE IInv
<1>1. head \in [Paths -> Contents] /\ \A p \in Products : head[p] = Absent
  BY PathsAssumption DEF Init, Paths, Contents, Absent
<1>2. Nothing \in Signatures /\ Nothing # Unknown
  BY PathsAssumption DEF Nothing, Unknown, Signatures
<1>3. Checked \in [work : [Sources -> Contents], index : [Paths -> Contents],
                   origins : SUBSET Sources]
  BY <1>1 DEF Init, Checked, Origins, Paths
<1>4. TypeOK
  BY <1>1, <1>2, <1>3, PathsAssumption DEF TypeOK, Init
<1> QED BY <1>4 DEF IInv, StampInv, WalkInv, PinInv, Init

(* An action that leaves the last commit and the records alone *)
LEMMA WorkPreserves ==
    ASSUME IInv,
           UNCHANGED <<head, rev, stamp, pin, built>>
    PROVE  StampInv' /\ WalkInv' /\ PinInv'
<1>1. /\ ModifiedOf(built)' = ModifiedOf(built) /\ OriginsOf(built)' = OriginsOf(built)
      /\ UntrackedOf(built)' = UntrackedOf(built)
  BY DEF ModifiedOf, OriginsOf, UntrackedOf
<1>2. WholeOf(built)' = WholeOf(built) /\ TrackedOf(built)' = TrackedOf(built)
  BY <1>1 DEF WholeOf, TrackedOf
<1> QED BY <1>1, <1>2 DEF IInv, StampInv, WalkInv, PinInv

LEMMA WritePreserves ==
    ASSUME IInv, NEW p \in Paths, NEW c \in Contents, Write(p, c)
    PROVE  IInv'
<1>1. TypeOK'
  BY DEF Write, IInv, TypeOK
<1>2. StampInv' /\ WalkInv' /\ PinInv'
  BY WorkPreserves DEF Write
<1> QED BY <1>1, <1>2 DEF IInv

LEMMA StagePreserves ==
    ASSUME IInv, NEW p \in Paths, Stage(p)
    PROVE  IInv'
<1>1. \A q \in Products : q # p
  BY PathsAssumption DEF Stage
<1>2. TypeOK'
  BY <1>1 DEF Stage, IInv, TypeOK, Paths
<1>3. StampInv' /\ WalkInv' /\ PinInv'
  BY WorkPreserves DEF Stage
<1> QED BY <1>2, <1>3 DEF IInv

LEMMA CheckoutPreserves ==
    ASSUME IInv, NEW p \in Paths, Checkout(p)
    PROVE  IInv'
<1>1. \A q \in Products : q # p
  BY PathsAssumption DEF Checkout
<1>2. TypeOK'
  BY <1>1 DEF Checkout, IInv, TypeOK, Paths
<1>3. StampInv' /\ WalkInv' /\ PinInv'
  BY WorkPreserves DEF Checkout
<1> QED BY <1>2, <1>3 DEF IInv

(* the new commit is no one's yet *)
LEMMA CommitPreserves ==
    ASSUME IInv, Commit
    PROVE  IInv'
<1>1. TypeOK'
  BY PathsAssumption DEF Commit, IInv, TypeOK
<1>2. stamp.rev \in Nat /\ pin.rev \in Nat /\ rev \in Nat /\ rev' = rev + 1
  BY PathsAssumption DEF Commit, IInv, TypeOK, Signatures
<1>3. StampInv'
  BY <1>2 DEF Commit, IInv, StampInv
<1>4. PinInv'
  BY <1>2 DEF Commit, IInv, PinInv
<1>5. WalkInv'
  BY DEF Commit, IInv, WalkInv
<1> QED BY <1>1, <1>3, <1>4, <1>5 DEF IInv

LEMMA RecordPreserves ==
    ASSUME IInv, Record
    PROVE  IInv'
<1>1. TypeOK
  BY DEF IInv
<1>2. stamp' \in Signatures /\ stamp' # Unknown /\ pin' \in Signatures /\ pin' # Unknown
  <2>1. Nothing \in Signatures /\ Nothing # Unknown
    BY PathsAssumption DEF Nothing, Unknown, Signatures
  <2> QED BY <1>1, <2>1, SignatureType DEF Record
<1>3. TypeOK'
  BY <1>1, <1>2, CheckedType DEF Record, TypeOK
<1>4. /\ ModifiedOf(built)' = ModifiedOf(Checked) /\ OriginsOf(built)' = OriginsOf(Checked)
      /\ UntrackedOf(built)' = UntrackedOf(Checked)
  BY DEF Record, ModifiedOf, OriginsOf, UntrackedOf
<1>5. WholeOf(built)' = WholeOf(Checked) /\ TrackedOf(built)' = TrackedOf(Checked)
  BY <1>4 DEF Record, WholeOf, TrackedOf
<1>6. rev \in Nat /\ rev' = rev /\ built' = Checked
  BY <1>1, PathsAssumption DEF Record, TypeOK
<1>7. StampInv'
  <2> SUFFICES ASSUME stamp' # Nothing, Vcs # "none"
               PROVE  /\ stamp'.rev <= rev' /\ stamp'.changed = WholeOf(built)'
                      /\ built'.origins = OriginsOf(built)'
    BY DEF StampInv, Nothing
  <2>1. stamp' = Entries(TRUE)
    BY DEF Record, Signature
  <2>2. stamp' = [rev |-> rev, changed |-> WholeOf(Checked)]
    BY <1>1, <2>1, EntriesWhole, Zenon
  <2> QED BY <1>1, <1>4, <1>5, <1>6, <2>2, CheckedType
<1>8. WalkInv'
  <2> SUFFICES ASSUME stamp' # Nothing, Vcs = "none", NEW p \in Sources, NEW v \in Contents
               PROVE  <<p, v>> \in stamp'.changed <=> (v = built'.work[p] /\ v # Absent)
    BY DEF WalkInv, Nothing
  <2>1. stamp'.changed = Walked
    BY DEF Record, Signature
  <2>2. built'.work[p] = work[p]
    BY <1>1, <1>6, CheckedType
  <2> QED BY <1>1, <2>1, <2>2, WalkedMember
<1>9. PinInv'
  <2> SUFFICES ASSUME pin' # Nothing
               PROVE  Vcs # "none" /\ pin'.rev <= rev' /\ pin'.changed = TrackedOf(built)'
    BY DEF PinInv, Nothing
  <2>1. Vcs # "none" /\ pin' = Entries(FALSE)
    BY DEF Record, PinSignature
  <2>2. pin' = [rev |-> rev, changed |-> TrackedOf(Checked)]
    BY <1>1, <2>1, EntriesTracked, Zenon
  <2>3. Vcs # "none"
    BY DEF Record, PinSignature
  <2> QED BY <1>5, <1>6, <2>2, <2>3
<1> QED BY <1>3, <1>7, <1>8, <1>9 DEF IInv

LEMMA NextPreserves == ASSUME IInv, [Next]_vars PROVE IInv'
<1>1. ASSUME NEW p \in Paths, NEW c \in Contents, Write(p, c) PROVE IInv'
  BY <1>1, WritePreserves
<1>2. ASSUME NEW p \in Paths, Stage(p) PROVE IInv'
  BY <1>2, StagePreserves
<1>3. ASSUME NEW p \in Paths, Checkout(p) PROVE IInv'
  BY <1>3, CheckoutPreserves
<1>4. CASE Commit
  BY <1>4, CommitPreserves
<1>5. CASE VcsFails
  <2>1. TypeOK'
    BY <1>5 DEF VcsFails, IInv, TypeOK
  <2> QED BY <1>5, <2>1, WorkPreserves DEF VcsFails, IInv
<1>6. CASE Record
  BY <1>6, RecordPreserves
<1>7. CASE UNCHANGED vars
  <2>1. TypeOK'
    BY <1>7 DEF vars, IInv, TypeOK
  <2> QED BY <1>7, <2>1, WorkPreserves DEF vars, IInv
<1> QED BY <1>1, <1>2, <1>3, <1>4, <1>5, <1>6, <1>7 DEF Next

-----------------------------------------------------------------------------
(* What the invariant says of a signature that matches *)

LEMMA InvFreshIsSame == ASSUME IInv PROVE FreshIsSame
<1> SUFFICES ASSUME Fresh, NEW p \in Sources, p \notin Origins, p \notin built.origins
             PROVE  work[p] = built.work[p]
  BY DEF FreshIsSame
<1>1. TypeOK /\ stamp # Nothing /\ stamp = Signature
  BY DEF Fresh, IInv
<1>2. work[p] \in Contents /\ built.work[p] \in Contents
  BY <1>1 DEF TypeOK, Paths
<1>3. CASE Vcs = "none"
  <2>1. stamp.changed = Walked
    BY <1>1, <1>3 DEF Signature
  <2>2. \A v \in Contents : (v = work[p] /\ v # Absent) <=> (v = built.work[p] /\ v # Absent)
    BY <1>1, <1>3, <2>1, WalkedMember DEF IInv, WalkInv
  <2> QED BY <1>2, <2>2
<1>4. CASE Vcs # "none"
  <2>1. stamp = Entries(TRUE)
    BY <1>1, <1>4 DEF Signature, TypeOK
  <2>2. stamp.rev = rev /\ stamp.changed = WholeOf(Checked)
    <3>1. stamp = [rev |-> rev, changed |-> WholeOf(Checked)]
      BY <1>1, <2>1, EntriesWhole, Zenon
    <3> QED BY <3>1
  <2>3. WholeOf(Checked) = WholeOf(built) /\ built.origins = OriginsOf(built)
    BY <1>1, <1>4, <2>2 DEF IInv, StampInv
  <2>4. p \notin OriginsOf(Checked) /\ p \notin OriginsOf(built)
    BY <1>1, <2>3, CheckedType
  <2>5. Checked.work[p] = work[p]
    BY <1>1, CheckedType
  <2>6. \A v : /\ (p \in ModifiedOf(Checked) \cup UntrackedOf(Checked)) /\ v = work[p]
               <=> (p \in ModifiedOf(built) \cup UntrackedOf(built)) /\ v = built.work[p]
    BY <2>3, <2>4, <2>5, WholeMember
  <2>7. CASE p \in ModifiedOf(Checked) \cup UntrackedOf(Checked)
    BY <2>6, <2>7
  <2>8. CASE p \notin ModifiedOf(Checked) \cup UntrackedOf(Checked)
    <3>1. p \notin ModifiedOf(built) \cup UntrackedOf(built)
      BY <2>6, <2>8
    <3>2. Checked.work[p] = head[p]
      BY <2>8 DEF ModifiedOf, UntrackedOf
    <3>3. built.work[p] = head[p]
      BY <3>1 DEF ModifiedOf, UntrackedOf
    <3> QED BY <2>5, <3>2, <3>3
  <2> QED BY <2>7, <2>8
<1> QED BY <1>3, <1>4

LEMMA InvOnlySource == ASSUME IInv PROVE OnlySourceStales
<1> SUFFICES ASSUME Vcs # "none", answers, stamp # Nothing, stamp.rev = rev, built = Checked
             PROVE  Fresh
  BY DEF OnlySourceStales
<1>1. TypeOK /\ stamp.changed = WholeOf(Checked)
  BY DEF IInv, StampInv
<1>2. Signature = [rev |-> rev, changed |-> WholeOf(Checked)]
  BY <1>1, EntriesWhole DEF Signature
<1>3. stamp = [rev |-> stamp.rev, changed |-> stamp.changed]
  BY <1>1 DEF TypeOK, Signatures
<1> QED BY <1>1, <1>2, <1>3 DEF Fresh

LEMMA InvPinTracked == ASSUME IInv PROVE PinIsTracked
<1> DEFINE Dom(c) == {q \in Sources : c.index[q] # Absent \/ head[q] # Absent} \ Origins
<1> SUFFICES ASSUME answers, pin # Nothing, pin.rev = rev, built.index = index
             PROVE  pin = PinSignature <=> TrackedWork(built) = TrackedWork(Checked)
  BY DEF PinIsTracked
<1>1. TypeOK /\ Vcs # "none" /\ pin.changed = TrackedOf(built)
  BY DEF IInv, PinInv
<1>2. PinSignature = [rev |-> rev, changed |-> TrackedOf(Checked)]
  BY <1>1, EntriesTracked DEF PinSignature
<1>3. pin = [rev |-> pin.rev, changed |-> pin.changed]
  BY <1>1 DEF TypeOK, Signatures
<1>4. pin = PinSignature <=> TrackedOf(built) = TrackedOf(Checked)
  BY <1>1, <1>2, <1>3
<1>5. /\ Checked.index = built.index /\ OriginsOf(built) = Origins
      /\ OriginsOf(Checked) = Origins /\ Dom(built) = Dom(Checked)
  BY <1>1, CheckedType DEF OriginsOf
<1>6. TrackedWork(built) = TrackedWork(Checked) <=>
          \A p \in Dom(built) : built.work[p] = Checked.work[p]
  <2>1. /\ TrackedWork(built) = [p \in Dom(built) |-> built.work[p]]
        /\ TrackedWork(Checked) = [p \in Dom(built) |-> Checked.work[p]]
    BY <1>5 DEF TrackedWork
  <2> HIDE DEF Dom
  <2> QED BY <2>1
<1>7. ASSUME \A p \in Dom(built) : built.work[p] = Checked.work[p]
      PROVE  TrackedOf(built) = TrackedOf(Checked)
  <2> DEFINE Of(c) == ModifiedOf(c) \ OriginsOf(c)
  <2>1. Of(built) \subseteq Dom(built) /\ Of(built) = Of(Checked)
    BY <1>5, <1>7 DEF ModifiedOf
  <2>2. /\ TrackedOf(built) = {<<p, built.work[p]>> : p \in Of(built)}
        /\ TrackedOf(Checked) = {<<p, Checked.work[p]>> : p \in Of(built)}
    BY <2>1 DEF TrackedOf
  <2>3. \A p \in Of(built) : built.work[p] = Checked.work[p]
    BY <1>7, <2>1
  <2> HIDE DEF Of
  <2> QED BY <2>2, <2>3
<1>8. ASSUME TrackedOf(built) = TrackedOf(Checked), NEW p \in Dom(built)
      PROVE  built.work[p] = Checked.work[p]
  <2>1. p \in Sources /\ p \notin Origins
    OBVIOUS
  <2>2. \A v : p \in ModifiedOf(built) /\ v = built.work[p]
               <=> p \in ModifiedOf(Checked) /\ v = Checked.work[p]
    BY <1>5, <1>8, <2>1, TrackedMember
  <2>3. CASE p \in ModifiedOf(built)
    BY <2>2, <2>3
  <2>4. CASE p \notin ModifiedOf(built)
    <3>1. p \notin ModifiedOf(Checked)
      BY <2>2, <2>4
    <3>2. built.index[p] # Absent /\ built.work[p] = built.index[p]
      BY <2>1, <2>4 DEF ModifiedOf
    <3>3. Checked.work[p] = Checked.index[p]
      BY <1>5, <2>1, <3>1, <3>2 DEF ModifiedOf
    <3> QED BY <1>5, <3>2, <3>3
  <2> QED BY <2>3, <2>4
<1> QED BY <1>4, <1>6, <1>7, <1>8

(* A build whose stamp matches was compiled from the very source files of the *)
(* checkout, renames apart; by-products and a reverted edit never stale it;   *)
(* and a benchmark's pin moves with the tracked files and nothing else        *)
(* (target_config.py, _source_state_signature and vcs_source_signature): for  *)
(* every set of paths, git, Mercurial or no VCS, and any number of commits.   *)
THEOREM IdentityHolds == Spec => []IdentityKept
<1>1. Init => IInv
  BY InitIInv
<1>2. IInv /\ [Next]_vars => IInv'
  BY NextPreserves
<1>3. IInv => IdentityKept
  BY InvFreshIsSame, InvOnlySource, InvPinTracked DEF IdentityKept
<1> QED BY <1>1, <1>2, <1>3, PTL DEF Spec

-----------------------------------------------------------------------------
(* Reaping a launch *)

(* who is whose, on a host where others run too *)
TreeInv ==
    /\ \A p \in Launch : /\ parent[p] \in Launch \cup {Runner, Adopter}
                         /\ group[p] \in Launch \cup {Runner}
    /\ \A p \in Others : parent[p] \in {Shell, Adopter} /\ group[p] = p
    /\ opaque \subseteq Launch \cup {Shell} /\ inside \subseteq Launch \cup {Job}
    /\ {Shell, Adopter} \subseteq alive

(* what is claimed is never a bystander *)
ClaimInv ==
    /\ pc \in {"path", "widen"} => listed \subseteq Launch /\ (blind => listed = {})
    /\ anchored \subseteq Launch \cup {Job}
    /\ pids \cap {Shell, Adopter} = {}

(* what of the launch runs is claimed, withheld, or was forked since *)
SweepInv ==
    /\ pc = "read" => alive \cap Launch \subseteq listed \cup young
    /\ pc \in {"path", "widen"} /\ ~ blind =>
           alive \cap Launch \subseteq listed \cup young \cup opaque
    /\ pc = "decide" /\ ~ blind =>
           alive \cap Launch \subseteq pids \cup young \cup opaque
    /\ pc # "done" => outcome = "none"
    /\ pc = "kill" => round < Rounds
    /\ CleanIsSwept

ReapInv == ReapTypeOK /\ TreeInv /\ ClaimInv /\ SweepInv

-----------------------------------------------------------------------------
(* The least closed set *)

LEMMA Distinct ==
    /\ Launch \cap Others = {} /\ Runner \notin Procs
           /\ Procs = Launch \cup Others /\ Kids \subseteq Launch /\ Cell \in Launch
           /\ Others = {Shell, Job, Adopter} /\ Shell # Adopter /\ Job # Shell /\ Job # Adopter
BY LaunchAssumption DEF Launch, Others, Procs, Cell, Shell, Job, Adopter, Runner

(* the marked widen to the launch alone *)
LEMMA MarkedInLaunch ==
    ASSUME ReapTypeOK, TreeInv, listed \subseteq Launch, blind => listed = {}
    PROVE  Least(listed, Wider) \subseteq Launch
<1>1. CASE blind
  <2>1. Wider({}) = {}
    BY DEF Wider, GroupMates, Children, Parents
  <2>2. Least(listed, Wider) = {}
    BY <1>1, <2>1 DEF Least
  <2> QED BY <2>2
<1>2. CASE ~ blind
  <2>1. GroupMates(Launch) \subseteq Launch
    <3> SUFFICES ASSUME NEW p \in alive, group[p] # Runner,
                        NEW q \in Launch, q \in alive, group[p] = group[q]
                 PROVE  p \in Launch
      BY DEF GroupMates
    <3>1. group[p] \in Launch
      BY DEF TreeInv
    <3>2. CASE p \in Others
      BY <3>1, <3>2, Distinct DEF TreeInv
    <3> QED BY <3>2, Distinct DEF ReapTypeOK
  <2>2. Children(Launch) \subseteq Launch
    <3> SUFFICES ASSUME NEW p \in alive, parent[p] \in Launch
                 PROVE  p \in Launch
      BY DEF Children
    <3>1. CASE p \in Others
      BY <3>1, Distinct DEF TreeInv
    <3> QED BY <3>1, Distinct DEF ReapTypeOK
  <2>3. {p \in Parents(Launch) : p \in opaque \/ blind} \subseteq Launch
    BY <1>2, Distinct DEF Parents, TreeInv
  <2>4. Wider(Launch) \subseteq Launch
    BY <2>1, <2>2, <2>3 DEF Wider
  <2>5. Launch \in SUBSET Procs
    BY DEF Procs
  <2> QED BY <2>4, <2>5 DEF Least
<1> QED BY <1>1, <1>2

(* what a path claims, with what it started, is of the launch or of the job *)
LEMMA AnchoredInside ==
    ASSUME ReapTypeOK, TreeInv, anchored \subseteq Launch \cup {Job}
    PROVE  Least(anchored, Children) \subseteq Launch \cup {Job}
<1>1. Children(Launch \cup {Job}) \subseteq Launch \cup {Job}
  <2> SUFFICES ASSUME NEW p \in alive, parent[p] \in Launch \cup {Job}
               PROVE  p \in Launch
    BY DEF Children
  <2>1. CASE p \in Others
    BY <2>1, Distinct DEF TreeInv
  <2> QED BY <2>1, Distinct DEF ReapTypeOK
<1>2. Launch \cup {Job} \in SUBSET Procs
  BY DEF Procs, Others
<1> QED BY <1>1, <1>2 DEF Least

LEMMA LeastHolds ==
    ASSUME ReapTypeOK
    PROVE  listed \subseteq Least(listed, Wider) /\ Owned \subseteq Procs
BY DEF Least, ReapTypeOK, Owned

-----------------------------------------------------------------------------
(* The processes of the host *)

LEMMA InitReapInv == ASSUME ReapInit PROVE ReapInv
<1>1. ReapTypeOK
  BY Distinct, LaunchAssumption DEF ReapInit, ReapTypeOK
<1>2. TreeInv
  BY Distinct DEF ReapInit, TreeInv
<1> QED BY <1>1, <1>2 DEF ReapInit, ReapInv, ClaimInv, SweepInv, CleanIsSwept

LEMMA ForkPreserves ==
    ASSUME ReapInv, NEW p \in Launch, NEW k \in Kids, Fork(p, k), pc # "done"
    PROVE  ReapInv'
<1>1. ReapTypeOK'
  <2>1. parent' \in [Procs -> Procs \cup {Runner}] /\ group' \in [Procs -> Procs \cup {Runner}]
    BY Distinct DEF Fork, ReapInv, ReapTypeOK
  <2>2. \A q \in alive' : parent'[q] \in alive' \cup {Runner, Adopter}
    BY Distinct DEF Fork, ReapInv, ReapTypeOK
  <2> QED BY <2>1, <2>2, Distinct DEF Fork, ReapInv, ReapTypeOK, reaper
<1>2. TreeInv'
  <2>1. k \in Launch /\ k \in Procs /\ k \notin Others /\ p \in Procs
    BY Distinct
  <2>2. group[p] \in Launch \cup {Runner}
    BY DEF ReapInv, TreeInv
  <2>3. \A q \in Procs : q # k => parent'[q] = parent[q] /\ group'[q] = group[q]
    BY DEF Fork, ReapInv, ReapTypeOK
  <2>4. parent'[k] = p /\ group'[k] \in Launch \cup {Runner}
    BY <2>1, <2>2 DEF Fork, ReapInv, ReapTypeOK
  <2> QED BY <2>1, <2>3, <2>4, Distinct DEF Fork, ReapInv, TreeInv
<1>3. ClaimInv'
  BY DEF Fork, ReapInv, ClaimInv, reaper
<1>4. SweepInv'
  BY DEF Fork, ReapInv, SweepInv, CleanIsSwept, reaper
<1> QED BY <1>1, <1>2, <1>3, <1>4 DEF ReapInv

(* Ending processes, the bystanders not among them, keeps the tree *)
LEMMA EndKeepsTree ==
    ASSUME ReapInv, NEW S, S \cap {Shell, Adopter} = {}, End(S)
    PROVE  /\ TreeInv'
           /\ alive' \subseteq alive /\ unborn' = unborn
           /\ parent' \in [Procs -> Procs \cup {Runner}] /\ group' = group
           /\ \A p \in alive' : parent'[p] \in alive' \cup {Runner, Adopter}
<1>1. \A p \in Procs : parent'[p] = parent[p] \/ parent'[p] = Adopter
  BY DEF End
<1>2. parent' \in [Procs -> Procs \cup {Runner}]
  BY Distinct DEF End, ReapInv, ReapTypeOK
<1>3. \A p \in alive' : parent'[p] \in alive' \cup {Runner, Adopter}
  BY Distinct DEF End, ReapInv, ReapTypeOK
<1>4. TreeInv'
  BY <1>1, Distinct DEF End, ReapInv, TreeInv
<1> QED BY <1>2, <1>3, <1>4 DEF End

LEMMA ExitPreserves ==
    ASSUME ReapInv, NEW p \in Launch, Exit(p)
    PROVE  ReapInv'
<1>1. {p} \cap {Shell, Adopter} = {}
  BY Distinct
<1>2. End({p})
  BY DEF Exit
<1>3. ReapTypeOK' /\ TreeInv'
  BY <1>1, <1>2, EndKeepsTree DEF Exit, End, ReapInv, ReapTypeOK, reaper
<1>4. ClaimInv'
  BY DEF Exit, ReapInv, ClaimInv, reaper
<1>5. SweepInv'
  BY DEF Exit, End, ReapInv, SweepInv, CleanIsSwept, reaper
<1> QED BY <1>3, <1>4, <1>5 DEF ReapInv

-----------------------------------------------------------------------------
(* The reaper *)

LEMMA HostKeepsTree ==
    ASSUME ReapInv, UNCHANGED host
    PROVE  /\ TreeInv'
           /\ alive' = alive /\ unborn' = unborn /\ parent' = parent /\ group' = group
           /\ opaque' = opaque /\ inside' = inside
BY DEF host, ReapInv, TreeInv

LEMMA LookPreserves ==
    ASSUME ReapInv, List \/ Read \/ Path
    PROVE  ReapInv'
<1>1. CASE List
  BY <1>1, HostKeepsTree DEF List, ReapInv, ReapTypeOK, ClaimInv, SweepInv, CleanIsSwept
<1>2. CASE Read
  BY <1>2, HostKeepsTree DEF Read, ReapInv, ReapTypeOK, ClaimInv, SweepInv, CleanIsSwept
<1>3. CASE Path
  BY <1>3, HostKeepsTree DEF Path, ReapInv, ReapTypeOK, TreeInv, ClaimInv, SweepInv, CleanIsSwept
<1> QED BY <1>1, <1>2, <1>3

LEMMA WidenPreserves ==
    ASSUME ReapInv, Widen
    PROVE  ReapInv'
<1>1. listed \subseteq Launch /\ (blind => listed = {}) /\ anchored \subseteq Launch \cup {Job}
  BY DEF Widen, ReapInv, ClaimInv
<1>2. Owned \subseteq Launch \cup {Job}
  BY <1>1, MarkedInLaunch, AnchoredInside DEF Owned, ReapInv
<1>3. listed \subseteq Owned /\ Owned \subseteq Procs
  BY LeastHolds DEF Owned, ReapInv
<1>4. Owned \cap {Shell, Adopter} = {}
  BY <1>2, Distinct
<1>5. ReapTypeOK'
  BY <1>3, HostKeepsTree DEF Widen, ReapInv, ReapTypeOK
<1>6. ClaimInv'
  BY <1>4 DEF Widen, ReapInv, ClaimInv
<1>7. SweepInv'
  BY <1>3, HostKeepsTree DEF Widen, ReapInv, SweepInv, CleanIsSwept
<1> QED BY <1>5, <1>6, <1>7, HostKeepsTree DEF Widen, ReapInv

LEMMA DecidePreserves ==
    ASSUME ReapInv, Decide
    PROVE  ReapInv'
<1>1. Verdict \in {"none", "clean", "leak", "blind"}
  BY DEF Verdict
<1>2. ReapTypeOK'
  BY <1>1, HostKeepsTree DEF Decide, ReapInv, ReapTypeOK
<1>3. ClaimInv'
  BY DEF Decide, ReapInv, ClaimInv
<1>4. Verdict = "clean" => pids = {}
  BY DEF Verdict
<1>5. Verdict = "none" => round < Rounds
  BY LaunchAssumption DEF Verdict, ReapInv, ReapTypeOK
<1>6. SweepInv'
  BY <1>4, <1>5, HostKeepsTree DEF Decide, ReapInv, SweepInv, CleanIsSwept
<1> QED BY <1>2, <1>3, <1>6, HostKeepsTree DEF Decide, ReapInv

LEMMA KillPreserves ==
    ASSUME ReapInv, Kill
    PROVE  ReapInv'
<1>1. pids \cap {Shell, Adopter} = {} /\ round < Rounds
  BY DEF Kill, ReapInv, ClaimInv, SweepInv
<1>2. End(pids)
  BY DEF Kill
<1>3. round' \in 0 .. Rounds
  BY <1>1, LaunchAssumption DEF Kill, ReapInv, ReapTypeOK
<1>4. ReapTypeOK' /\ TreeInv'
  BY <1>1, <1>2, <1>3, EndKeepsTree DEF Kill, End, ReapInv, ReapTypeOK
<1>5. ClaimInv'
  BY DEF Kill, ReapInv, ClaimInv
<1>6. SweepInv'
  BY DEF Kill, End, ReapInv, SweepInv, CleanIsSwept
<1> QED BY <1>4, <1>5, <1>6 DEF ReapInv

LEMMA ReapPreserves == ASSUME ReapInv, [ReapNext]_reapVars PROVE ReapInv'
<1>1. ASSUME NEW p \in Launch, Exit(p) PROVE ReapInv'
  BY <1>1, ExitPreserves
<1>2. ASSUME NEW p \in Launch, NEW k \in Kids, Fork(p, k), pc # "done" PROVE ReapInv'
  BY <1>2, ForkPreserves
<1>3. CASE Reaper
  BY <1>3, LookPreserves, WidenPreserves, DecidePreserves, KillPreserves DEF Reaper
<1>4. CASE UNCHANGED reapVars
  BY <1>4 DEF reapVars, host, reaper, ReapInv, ReapTypeOK, TreeInv, ClaimInv, SweepInv, CleanIsSwept
<1> QED BY <1>1, <1>2, <1>3, <1>4 DEF ReapNext

(* Whatever forks, exits, orphans and withheld environments make of the       *)
(* process tree, reaping a launch (process_tree.py, kill_marked) never ends   *)
(* who merely adopted or started one of its processes, and a sweep reported   *)
(* clean left only processes forked behind its back or withheld: for every    *)
(* number of processes and of rounds.                                         *)
THEOREM ReaperIsExact == ReapSpec => []ReaperKept
<1>1. ReapInit => ReapInv
  BY InitReapInv
<1>2. ReapInv /\ [ReapNext]_reapVars => ReapInv'
  BY ReapPreserves
<1>3. ReapInv => ReaperKept
  BY DEF ReapInv, TreeInv, SweepInv, ReaperKept, BystandersSpared
<1> QED BY <1>1, <1>2, <1>3, PTL DEF ReapSpec

-----------------------------------------------------------------------------
(* A benchmark run *)

\* The records with their types by name.
Statuses == {"none", "running", "incomplete", "failed", "done"}
Drift == {"source_drift", "build_drift"}
Marks == Drift \cup {"clean", "provider_recovered", "provider_limited"}

\* A done cell was measured under the pin to its end.
DoneInv(d) ==
    d.status = "done" =>
        /\ d.wall /\ d.on \in Pins
        /\ d.on = recorded \/ (d.unreaped /\ d.unowned)

\* A cell a regeneration may complete was measured to its end too, and one that
\* drifted says so.
SettledInv(d) ==
    d.results /\ d.status \in {"incomplete", "failed"} =>
        /\ d.wall /\ d.on \in Pins
        /\ d.on = recorded \/ d.quality \in Noncomparable \/ (d.unreaped /\ d.unowned)
        /\ d.on # recorded => d.mark \in Drift
        /\ d.on # recorded /\ d.quality = "processes_unreaped" => d.unreaped

CellInv == \A c \in Cells : DoneInv(cell[c]) /\ SettledInv(cell[c]) /\ cell[c].mark \in Marks

\* No cell is worked on before the run is pinned.
PinnedInv ==
    /\ phase \in {"next", "wiped", "audit", "ended", "checkpoint", "finalize"} => recorded # Unpinned
    /\ recorded = Unpinned => \A c \in Cells : cell[c] = Blank

\* What is known of the cell at hand: it is not done, and its mark tells of what
\* the comparisons saw.
AtInv ==
    /\ phase \in {"wiped", "audit", "ended", "checkpoint", "finalize", "recovered"} => at \in Cells
    /\ phase \in {"wiped", "audit", "ended", "checkpoint"} => cell[at].status \in {"none", "running"}
    /\ phase = "finalize" => cell[at].status # "done"
    /\ phase = "recovered" => cell[at].results

ComparedInv ==
    /\ phase = "ended" =>
           /\ cell[at].on.src \in Checkouts
           /\ status = "done" => cell[at].on.src = recorded.src
           /\ cell[at].on.src # recorded.src => cell[at].mark = "source_drift"
    /\ phase \in {"checkpoint", "finalize"} =>
           /\ cell[at].on \in Pins
           /\ status = "done" => cell[at].on = recorded
           /\ cell[at].on # recorded => cell[at].mark \in Drift
    /\ phase \in {"preflight", "pin"} => read \in Checkouts

RunInv == RunTypeOK /\ CellInv /\ PinnedInv /\ AtInv /\ ComparedInv

-----------------------------------------------------------------------------
\* The quality of a record of the right type is one of the qualities; a drift
\* keeps the cell out of the comparison.
LEMMA QualityOf ==
    ASSUME NEW d \in CellRecords, NEW st \in Statuses
    PROVE  /\ CellRunQuality(d, st) \in Qualities
           /\ d.mark \in Drift => CellRunQuality(d, st) \in Noncomparable
           /\ d.mark \in Marks /\ CellRunQuality(d, st) = "processes_unreaped" => d.unreaped
  BY DEF CellRecords, CellRunQuality, Qualities, Drift, Marks, Noncomparable, Statuses

\* What write_cell leaves alone and what it sets.
LEMMA WrittenCell ==
    ASSUME NEW d \in CellRecords, NEW st \in Statuses, NEW wall \in BOOLEAN, NEW results \in BOOLEAN
    PROVE  /\ Written(d, st, wall, results) \in CellRecords
           /\ Written(d, st, wall, results).status = st
           /\ Written(d, st, wall, results).wall = wall
           /\ Written(d, st, wall, results).results = results
           /\ Written(d, st, wall, results).quality = CellRunQuality(d, st)
           /\ Written(d, st, wall, results).mark = d.mark
           /\ Written(d, st, wall, results).on = d.on
           /\ Written(d, st, wall, results).audit = d.audit
           /\ Written(d, st, wall, results).unreaped = d.unreaped
           /\ Written(d, st, wall, results).unowned = d.unowned
  <1>1. CellRunQuality(d, st) \in Qualities
    BY QualityOf
  <1> QED  BY <1>1 DEF Written, CellRecords, Statuses

LEMMA BlankCell == Blank \in CellRecords /\ Blank.status = "none" /\ Blank.mark = "clean" /\ ~Blank.results
  BY DEF Blank, CellRecords, Qualities, Unpinned

\* One cell directory is replaced.
LEMMA OneCell ==
    ASSUME cell \in [Cells -> CellRecords], NEW c \in Cells, NEW d \in CellRecords, Set(c, d)
    PROVE  /\ cell' \in [Cells -> CellRecords]
           /\ cell'[c] = d
           /\ \A k \in Cells : k # c => cell'[k] = cell[k]
  BY DEF Set
\* A step that replaces one cell keeps the invariant of all.
LEMMA CellReplaced ==
    ASSUME RunInv, NEW c \in Cells, NEW d \in CellRecords, Set(c, d), UNCHANGED recorded,
           DoneInv(d), SettledInv(d), d.mark \in Marks
    PROVE  /\ cell' \in [Cells -> CellRecords] /\ CellInv'
           /\ cell'[c] = d
           /\ \A k \in Cells : k # c => cell'[k] = cell[k]
  <1>1. cell \in [Cells -> CellRecords]
    BY DEF RunInv, RunTypeOK
  <1>2. cell' \in [Cells -> CellRecords] /\ cell'[c] = d /\ \A k \in Cells : k # c => cell'[k] = cell[k]
    BY <1>1, OneCell
  <1>3. CellInv'
    <2> SUFFICES ASSUME NEW k \in Cells PROVE DoneInv(cell[k])' /\ SettledInv(cell[k])' /\ cell'[k].mark \in Marks
      BY DEF CellInv
    <2>1. CASE k = c
      BY <2>1, <1>2 DEF DoneInv, SettledInv
    <2>2. CASE k # c
      <3>1. cell'[k] = cell[k] /\ DoneInv(cell[k]) /\ SettledInv(cell[k]) /\ cell[k].mark \in Marks
        BY <2>2, <1>2 DEF RunInv, CellInv
      <3> QED  BY <3>1 DEF DoneInv, SettledInv
    <2> QED  BY <2>1, <2>2
  <1> QED  BY <1>2, <1>3

\* Nothing of the records changes.
LEMMA CellsUntouched ==
    ASSUME CellInv, UNCHANGED <<cell, recorded>>
    PROVE  CellInv'
  BY DEF CellInv, DoneInv, SettledInv

\* The types of the runner's memory, and of what it works on.
DiskOK ==
    /\ world \in Pins /\ recorded \in Pins \cup {Unpinned}
    /\ cell \in [Cells -> CellRecords]
Phases == {"off", "preflight", "pin", "next", "wiped", "audit", "ended",
           "checkpoint", "finalize", "regen", "recovered"}
RunnerOK ==
    /\ phase \in Phases /\ at \in 1 .. Last + 1
    /\ read \in Checkouts \cup {"none"}
    /\ down \in BOOLEAN /\ failed \in BOOLEAN
    /\ status \in {"done", "incomplete", "failed"}
BoundsOK == edits \in 0 .. MaxEdits /\ kills \in 0 .. MaxKills

LEMMA TypesOf == RunTypeOK <=> DiskOK /\ RunnerOK /\ BoundsOK
  BY DEF RunTypeOK, DiskOK, RunnerOK, BoundsOK, Phases

LEMMA TypesAfter == RunTypeOK' <=> DiskOK' /\ RunnerOK' /\ BoundsOK'
  BY DEF RunTypeOK, DiskOK, RunnerOK, BoundsOK, Phases

LEMMA ExitTyped == ASSUME RunnerExits PROVE RunnerOK'
  <1>1. at' \in 1 .. Last + 1
    BY RunAssumption DEF RunnerExits
  <1> QED  BY <1>1, Zenon DEF RunnerExits, RunnerOK, Phases

LEMMA RunInitInv == RunInit => RunInv
  <1> SUFFICES ASSUME RunInit PROVE RunInv
    OBVIOUS
  <1> USE RunAssumption DEF RunAssumption, RunInit
  <1>1. RunTypeOK
    <2>1. DiskOK
      BY BlankCell DEF DiskOK
    <2>2. RunnerOK /\ BoundsOK
      <3>1. at \in 1 .. Last + 1 /\ BoundsOK
        BY DEF BoundsOK
      <3> QED  BY <3>1, Zenon DEF RunnerOK, Phases
    <2> QED  BY <2>1, <2>2, TypesOf
  <1>2. CellInv
    BY BlankCell DEF CellInv, DoneInv, SettledInv, Marks
  <1> QED  BY <1>1, <1>2 DEF RunInv, PinnedInv, AtInv, ComparedInv

-----------------------------------------------------------------------------
(* Steps that leave the cells alone *)

LEMMA WorldStep ==
    ASSUME RunInv, Edit \/ KillRunner
    PROVE  RunInv'
  <1> USE DEF RunInv, run
  <1>1. CellInv'
    BY CellsUntouched DEF Edit, KillRunner
  <1>2. CASE Edit
    BY <1>1, <1>2, RunAssumption DEF RunAssumption, Edit, RunTypeOK, PinnedInv, AtInv, ComparedInv
  <1>3. CASE KillRunner
    <2>1. RunTypeOK'
      <3>1. DiskOK' /\ BoundsOK'
        BY <1>3, TypesOf, RunAssumption DEF KillRunner, DiskOK, BoundsOK
      <3> QED  BY <1>3, <3>1, ExitTyped, TypesAfter DEF KillRunner
    <2>2. PinnedInv' /\ AtInv' /\ ComparedInv'
      BY <1>3 DEF KillRunner, RunnerExits, PinnedInv, AtInv, ComparedInv
    <2> QED  BY <1>1, <2>1, <2>2
  <1> QED  BY <1>2, <1>3

LEMMA StartStep ==
    ASSUME RunInv, Start \/ VerifyBuild \/ Converge
    PROVE  RunInv'
  <1> USE RunAssumption DEF RunInv
  <1>1. CellInv'
    BY CellsUntouched DEF Start, VerifyBuild, Converge
  <1>2. world' \in Pins
    BY DEF Start, VerifyBuild, Converge, RunTypeOK, Pins
  <1>3. world.src \in Checkouts
    BY DEF RunTypeOK, Pins
  <1>4. RunTypeOK'
    <2>1. DiskOK' /\ BoundsOK'
      BY <1>2, TypesOf DEF Start, VerifyBuild, Converge, DiskOK, BoundsOK
    <2>2. RunnerOK'
      BY <1>3, ExitTyped, TypesOf DEF Start, VerifyBuild, Converge, RunnerOK, Phases
    <2> QED  BY <2>1, <2>2, TypesAfter
  <1>5. PinnedInv' /\ AtInv'
    BY DEF Start, VerifyBuild, Converge, RunnerExits, PinnedInv, AtInv
  <1>6. ComparedInv'
    <2>1. CASE Start
      BY <2>1, <1>3 DEF Start, ComparedInv
    <2>2. CASE VerifyBuild
      BY <2>2 DEF VerifyBuild, RunnerExits, ComparedInv
    <2>3. CASE Converge
      BY <2>3 DEF Converge, RunnerExits, ComparedInv
    <2> QED  BY <2>1, <2>2, <2>3
  <1> QED  BY <1>1, <1>4, <1>5, <1>6
LEMMA PublishStep ==
    ASSUME RunInv, PublishPin
    PROVE  RunInv'
  <1> USE DEF RunInv
  <1>1. Pinned \in Pins /\ (recorded # Unpinned => Pinned = recorded)
    BY DEF PublishPin, Pinned, RunTypeOK, ComparedInv, Pins
  <1>2. recorded' # Unpinned
    BY <1>1, RunAssumption DEF PublishPin, Pins, Unpinned
  <1>3. RunTypeOK'
    <2>1. DiskOK' /\ BoundsOK'
      BY <1>1, TypesOf DEF PublishPin, DiskOK, BoundsOK
    <2>2. RunnerOK'
      BY TypesOf DEF PublishPin, RunnerOK, Phases
    <2> QED  BY <2>1, <2>2, TypesAfter
  <1>4. CellInv'
    <2>1. CASE recorded # Unpinned
      BY <2>1, <1>1, CellsUntouched DEF PublishPin
    <2>2. CASE recorded = Unpinned
      BY <2>2, BlankCell DEF PublishPin, PinnedInv, CellInv, DoneInv, SettledInv, Marks
    <2> QED  BY <2>1, <2>2
  <1>5. PinnedInv' /\ AtInv' /\ ComparedInv'
    BY <1>2 DEF PublishPin, PinnedInv, AtInv, ComparedInv
  <1> QED  BY <1>3, <1>4, <1>5

LEMMA IdleStep ==
    ASSUME RunInv, SkipDone \/ Report \/ Regenerate
    PROVE  RunInv'
  <1> USE DEF RunInv
  <1>1. CellInv'
    BY CellsUntouched DEF SkipDone, Report, Regenerate
  <1>2. RunTypeOK'
    <2>1. DiskOK' /\ BoundsOK'
      BY TypesOf DEF SkipDone, Report, Regenerate, DiskOK, BoundsOK
    <2>2. at' \in 1 .. Last + 1 \/ Report
      BY RunAssumption, TypesOf DEF SkipDone, Regenerate, RunnerOK, Cells
    <2>3. RunnerOK'
      <3>1. CASE Report
        BY <3>1, ExitTyped DEF Report
      <3>2. CASE ~Report
        BY <3>2, <2>2, TypesOf, Zenon DEF SkipDone, Regenerate, RunnerOK, Phases
      <3> QED  BY <3>1, <3>2
    <2> QED  BY <2>1, <2>3, TypesAfter
  <1>3. PinnedInv' /\ AtInv' /\ ComparedInv'
    BY DEF SkipDone, Report, Regenerate, RunnerExits, PinnedInv, AtInv, ComparedInv
  <1> QED  BY <1>1, <1>2, <1>3

-----------------------------------------------------------------------------
(* Steps on one cell *)

LEMMA SkipUnavailableStep ==
    ASSUME RunInv, SkipUnavailable
    PROVE  RunInv'
  <1> USE DEF RunInv
  <1> DEFINE e == [cell[at] EXCEPT !.unavailable = TRUE, !.mark = "provider_limited"]
             d == Written(e, "incomplete", FALSE, FALSE)
  <1>1. at \in Cells /\ cell[at] \in CellRecords /\ Set(at, d)
    BY DEF SkipUnavailable, RunTypeOK
  <1>2. e \in CellRecords /\ e.mark = "provider_limited"
    BY <1>1 DEF CellRecords, Qualities
  <1> HIDE DEF e
  <1>3. d \in CellRecords /\ d.status = "incomplete" /\ ~d.results /\ d.mark = "provider_limited"
    BY <1>2, WrittenCell DEF Statuses
  <1> HIDE DEF d
  <1>4. CellInv' /\ cell' \in [Cells -> CellRecords]
    BY <1>1, <1>3, CellReplaced DEF SkipUnavailable, DoneInv, SettledInv, Marks
  <1>5. RunTypeOK'
    <2>1. DiskOK' /\ BoundsOK'
      BY <1>4, TypesOf DEF SkipUnavailable, DiskOK, BoundsOK
    <2>2. at' \in 1 .. Last + 1
      BY <1>1, RunAssumption DEF SkipUnavailable, Cells
    <2>3. RunnerOK'
      BY <2>2, TypesOf, Zenon DEF SkipUnavailable, RunnerOK
    <2> QED  BY <2>1, <2>3, TypesAfter
  <1>6. PinnedInv' /\ AtInv' /\ ComparedInv'
    BY DEF SkipUnavailable, PinnedInv, AtInv, ComparedInv
  <1> QED  BY <1>4, <1>5, <1>6

LEMMA WipeStep ==
    ASSUME RunInv, Wipe
    PROVE  RunInv'
  <1> USE DEF RunInv
  <1>1. at \in Cells /\ Set(at, Blank)
    BY DEF Wipe
  <1>2. CellInv' /\ cell' \in [Cells -> CellRecords] /\ cell'[at] = Blank
    BY <1>1, BlankCell, CellReplaced DEF Wipe, DoneInv, SettledInv, Marks
  <1>3. RunTypeOK'
    <2>1. DiskOK' /\ BoundsOK'
      BY <1>2, TypesOf DEF Wipe, DiskOK, BoundsOK
    <2>3. RunnerOK'
      BY TypesOf, Zenon DEF Wipe, RunnerOK, Phases
    <2> QED  BY <2>1, <2>3, TypesAfter
  <1>4. PinnedInv' /\ AtInv' /\ ComparedInv'
    BY <1>1, <1>2, BlankCell DEF Wipe, PinnedInv, AtInv, ComparedInv
  <1> QED  BY <1>2, <1>3, <1>4

LEMMA StartCellStep ==
    ASSUME RunInv, StartCell
    PROVE  RunInv'
  <1> USE DEF RunInv
  <1>1. at \in Cells /\ cell[at] \in CellRecords /\ cell[at].mark \in Marks
    BY DEF StartCell, AtInv, RunTypeOK, CellInv
  <1>2. CASE world.bld # recorded.bld
    <2> DEFINE e == [cell[at] EXCEPT !.mark = "build_drift"]
               d == Written(e, "incomplete", FALSE, FALSE)
    <2>1. Set(at, d) /\ phase' = "next" /\ at' = at + 1
      BY <1>2 DEF StartCell
    <2>2. e \in CellRecords /\ e.mark = "build_drift"
      BY <1>1 DEF CellRecords, Qualities
    <2> HIDE DEF e
    <2>3. d \in CellRecords /\ d.status = "incomplete" /\ ~d.results /\ d.mark = "build_drift"
      BY <2>2, WrittenCell DEF Statuses
    <2> HIDE DEF d
    <2>4. CellInv' /\ cell' \in [Cells -> CellRecords]
      BY <1>1, <2>1, <2>3, CellReplaced DEF StartCell, DoneInv, SettledInv, Marks, Drift
    <2>5. at' \in 1 .. Last + 1
      BY <1>1, <2>1, RunAssumption DEF Cells
    <2>6. RunTypeOK'
      <3>1. DiskOK' /\ BoundsOK'
        BY <2>4, TypesOf DEF StartCell, DiskOK, BoundsOK
      <3>3. RunnerOK'
        BY <2>1, <2>5, TypesOf, Zenon DEF StartCell, RunnerOK, Phases
      <3> QED  BY <3>1, <3>3, TypesAfter
    <2>7. PinnedInv' /\ AtInv' /\ ComparedInv'
      BY <2>1 DEF StartCell, PinnedInv, AtInv, ComparedInv
    <2> QED  BY <2>4, <2>6, <2>7
  <1>3. CASE world.bld = recorded.bld
    <2> DEFINE d == Written(cell[at], "running", FALSE, TRUE)
    <2>1. Set(at, d) /\ phase' = "audit" /\ at' = at
      BY <1>3 DEF StartCell
    <2>3. d \in CellRecords /\ d.status = "running" /\ d.mark \in Marks
      BY <1>1, WrittenCell DEF Statuses
    <2> HIDE DEF d
    <2>4. CellInv' /\ cell' \in [Cells -> CellRecords] /\ cell'[at] = d
      BY <1>1, <2>1, <2>3, CellReplaced DEF StartCell, DoneInv, SettledInv
    <2>6. RunTypeOK'
      <3>1. DiskOK' /\ BoundsOK'
        BY <2>4, TypesOf DEF StartCell, DiskOK, BoundsOK
      <3>3. RunnerOK'
        BY <2>1, TypesOf, Zenon DEF StartCell, RunnerOK, Phases
      <3> QED  BY <3>1, <3>3, TypesAfter
    <2>7. PinnedInv' /\ AtInv' /\ ComparedInv'
      BY <1>1, <2>1, <2>3, <2>4 DEF StartCell, PinnedInv, AtInv, ComparedInv
    <2> QED  BY <2>4, <2>6, <2>7
  <1> QED  BY <1>2, <1>3
\* The record of an audit that ended, before the build is compared.
LEMMA EndAuditStep ==
    ASSUME RunInv, EndAudit
    PROVE  RunInv'
  <1> USE DEF RunInv
  <1>1. at \in Cells /\ cell[at] \in CellRecords /\ cell[at].status \in {"none", "running"}
        /\ world.src \in Checkouts
    BY DEF EndAudit, AtInv, RunTypeOK, Pins
  <1>2. PICK e \in Ending(at) :
        LET drift == world.src # recorded.src
        IN  /\ Set(at, [cell[at] EXCEPT
                   !.audit = e.audit, !.artifacts = e.artifacts,
                   !.unreaped = e.unreaped, !.unowned = e.unowned,
                   !.unavailable = e.mark = "provider_limited",
                   !.terminated = e.terminated,
                   !.mark = IF drift THEN "source_drift" ELSE e.mark,
                   !.on = [src |-> world.src, bld |-> "none"]])
            /\ down' = (down \/ e.mark = "provider_limited")
            /\ status' = IF e.mark = "provider_limited" THEN "incomplete"
                         ELSE IF e.rc = 1 THEN "failed"
                         ELSE IF drift THEN "incomplete" ELSE "done"
    BY DEF EndAudit
  <1> DEFINE mark == IF world.src # recorded.src THEN "source_drift" ELSE e.mark
             limited == e.mark = "provider_limited"
             on == [src |-> world.src, bld |-> "none"]
             d == [cell[at] EXCEPT
                   !.audit = e.audit, !.artifacts = e.artifacts,
                   !.unreaped = e.unreaped, !.unowned = e.unowned,
                   !.unavailable = limited,
                   !.terminated = e.terminated,
                   !.mark = mark,
                   !.on = on]
  <1>3. Set(at, d)
    BY <1>2
  <1>4. /\ e.audit \in {"cut", "whole"} /\ e.artifacts \in BOOLEAN /\ e.unreaped \in BOOLEAN
        /\ e.unowned \in BOOLEAN /\ e.terminated \in BOOLEAN
        /\ e.mark \in {"clean", "provider_recovered", "provider_limited"}
    BY DEF Ending
  <1>5. mark \in Marks /\ mark \in Qualities /\ (world.src # recorded.src => mark = "source_drift")
    BY <1>4 DEF Marks, Drift, Qualities
  <1>13. limited \in BOOLEAN /\ on.src = world.src
         /\ on \in [src : Checkouts \cup {"none"}, bld : Builds \cup {"none"}]
    BY <1>1
  <1> HIDE DEF mark, limited, on
  <1>6. d \in CellRecords /\ d.status = cell[at].status /\ d.mark = mark /\ d.on.src = world.src
    BY <1>1, <1>4, <1>5, <1>13 DEF CellRecords
  <1> HIDE DEF d
  <1>7. CellInv' /\ cell' \in [Cells -> CellRecords] /\ cell'[at] = d
    BY <1>1, <1>3, <1>5, <1>6, CellReplaced DEF EndAudit, DoneInv, SettledInv
  <1>8. /\ status' \in {"done", "incomplete", "failed"}
        /\ status' = "done" => world.src = recorded.src
    BY <1>2
  <1>9. down' \in BOOLEAN
    BY <1>2, TypesOf DEF RunnerOK
  <1>10. RunTypeOK'
    <2>1. DiskOK' /\ BoundsOK'
      BY <1>7, TypesOf DEF EndAudit, DiskOK, BoundsOK
    <2>2. RunnerOK'
      BY <1>8, <1>9, TypesOf, Zenon DEF EndAudit, RunnerOK, Phases
    <2> QED  BY <2>1, <2>2, TypesAfter
  <1>11. PinnedInv' /\ AtInv'
    BY <1>1, <1>6, <1>7 DEF EndAudit, PinnedInv, AtInv
  <1>12. ComparedInv'
    BY <1>1, <1>5, <1>6, <1>7, <1>8 DEF EndAudit, ComparedInv
  <1> QED  BY <1>7, <1>10, <1>11, <1>12

LEMMA CompareBuildStep ==
    ASSUME RunInv, CompareBuild
    PROVE  RunInv'
  <1> USE DEF RunInv
  <1> DEFINE mark == IF BuildDrifted(world.bld) THEN "build_drift" ELSE cell[at].mark
             on == [src |-> cell[at].on.src, bld |-> world.bld]
             d == [cell[at] EXCEPT !.mark = mark, !.on = on]
  <1>1. /\ at \in Cells /\ cell[at] \in CellRecords /\ cell[at].status \in {"none", "running"}
        /\ world.bld \in Builds /\ cell[at].on.src \in Checkouts /\ cell[at].mark \in Marks
        /\ recorded \in Pins
    BY DEF CompareBuild, AtInv, RunTypeOK, Pins, ComparedInv, CellInv, PinnedInv
  <1>2. Set(at, d)
    BY DEF CompareBuild, BuildDrifted
  <1>3. /\ mark \in Marks /\ mark \in Qualities
        /\ on.src # recorded.src => mark \in Drift
        /\ world.bld # recorded.bld => mark \in Drift
    BY <1>1 DEF CompareBuild, BuildDrifted, ComparedInv, Marks, Drift, Qualities
  <1>4. /\ on \in Pins /\ (on.src = recorded.src /\ world.bld = recorded.bld => on = recorded)
    BY <1>1 DEF Pins
  <1>5. on \in [src : Checkouts \cup {"none"}, bld : Builds \cup {"none"}]
    BY <1>1
  <1>6. on.src = cell[at].on.src
    OBVIOUS
  <1> HIDE DEF mark, on
  <1>7. d \in CellRecords /\ d.status = cell[at].status /\ d.mark = mark /\ d.on = on
    BY <1>1, <1>3, <1>5 DEF CellRecords
  <1> HIDE DEF d
  <1>8. CellInv' /\ cell' \in [Cells -> CellRecords] /\ cell'[at] = d
    BY <1>1, <1>2, <1>3, <1>7, CellReplaced DEF CompareBuild, DoneInv, SettledInv
  <1>9. /\ status' \in {"done", "incomplete", "failed"}
        /\ status' = "done" => on.src = recorded.src /\ world.bld = recorded.bld
    BY <1>6 DEF CompareBuild, BuildDrifted, ComparedInv, RunTypeOK
  <1>10. RunTypeOK'
    <2>1. DiskOK' /\ BoundsOK'
      BY <1>8, TypesOf DEF CompareBuild, DiskOK, BoundsOK
    <2>2. RunnerOK'
      BY <1>9, TypesOf, Zenon DEF CompareBuild, RunnerOK, Phases
    <2> QED  BY <2>1, <2>2, TypesAfter
  <1>11. PinnedInv' /\ AtInv'
    BY <1>1, <1>7, <1>8 DEF CompareBuild, PinnedInv, AtInv
  <1>12. ComparedInv'
    BY <1>1, <1>3, <1>4, <1>7, <1>8, <1>9 DEF CompareBuild, ComparedInv
  <1> QED  BY <1>8, <1>10, <1>11, <1>12

\* A record written of a compared cell is settled.
LEMMA ComparedIsSettled ==
    ASSUME RunInv, phase \in {"checkpoint", "finalize"}, NEW st \in {"done", "incomplete", "failed"},
           st = "done" => status = "done"
    PROVE  /\ Written(cell[at], st, TRUE, TRUE) \in CellRecords
           /\ DoneInv(Written(cell[at], st, TRUE, TRUE))
           /\ SettledInv(Written(cell[at], st, TRUE, TRUE))
           /\ Written(cell[at], st, TRUE, TRUE).status = st
           /\ Written(cell[at], st, TRUE, TRUE).mark = cell[at].mark
           /\ Written(cell[at], st, TRUE, TRUE).on = cell[at].on
           /\ cell[at].mark \in Marks
  <1> DEFINE d == Written(cell[at], st, TRUE, TRUE)
  <1>1. /\ at \in Cells /\ cell[at] \in CellRecords /\ cell[at].mark \in Marks
        /\ cell[at].on \in Pins /\ (status = "done" => cell[at].on = recorded)
        /\ cell[at].on # recorded => cell[at].mark \in Drift
    BY DEF RunInv, AtInv, ComparedInv, RunTypeOK, CellInv
  <1>2. /\ d \in CellRecords /\ d.status = st /\ d.wall /\ d.quality = CellRunQuality(cell[at], st)
        /\ d.mark = cell[at].mark /\ d.on = cell[at].on /\ d.unreaped = cell[at].unreaped
    <2>1. st \in Statuses
      BY DEF Statuses
    <2>2. d \in CellRecords /\ d.wall = TRUE
      BY <1>1, <2>1, WrittenCell
    <2>3. d.status = st /\ d.quality = CellRunQuality(cell[at], st)
      BY <1>1, <2>1, WrittenCell
    <2>4. d.mark = cell[at].mark /\ d.on = cell[at].on /\ d.unreaped = cell[at].unreaped
      BY <1>1, <2>1, WrittenCell
    <2> QED  BY <2>2, <2>3, <2>4
  <1>3. /\ cell[at].mark \in Drift => d.quality \in Noncomparable
        /\ d.quality = "processes_unreaped" => d.unreaped
    BY <1>1, <1>2, QualityOf DEF Statuses
  <1> HIDE DEF d
  <1>4. DoneInv(d) /\ SettledInv(d)
    BY <1>1, <1>2, <1>3 DEF DoneInv, SettledInv
  <1> QED  BY <1>1, <1>2, <1>4 DEF d

LEMMA CheckpointStep ==
    ASSUME RunInv, Checkpoint
    PROVE  RunInv'
  <1> USE DEF RunInv
  <1> DEFINE st == CheckpointStatus(status)
             d == Written(cell[at], st, TRUE, TRUE)
  <1>1. at \in Cells /\ Set(at, d)
    BY DEF Checkpoint, AtInv
  <1>2. st \in {"incomplete", "failed"}
    BY DEF CheckpointStatus, RunTypeOK
  <1> HIDE DEF st
  <1>3. /\ d \in CellRecords /\ DoneInv(d) /\ SettledInv(d) /\ d.status = st
        /\ d.mark = cell[at].mark /\ d.on = cell[at].on /\ d.mark \in Marks
    BY <1>2, ComparedIsSettled DEF Checkpoint
  <1> HIDE DEF d
  <1>4. CellInv' /\ cell' \in [Cells -> CellRecords] /\ cell'[at] = d
    BY <1>1, <1>3, CellReplaced DEF Checkpoint
  <1>5. RunTypeOK'
    <2>1. DiskOK' /\ BoundsOK'
      BY <1>4, TypesOf DEF Checkpoint, DiskOK, BoundsOK
    <2>2. RunnerOK'
      BY TypesOf, Zenon DEF Checkpoint, RunnerOK, Phases
    <2> QED  BY <2>1, <2>2, TypesAfter
  <1>6. PinnedInv' /\ AtInv'
    BY <1>1, <1>2, <1>3, <1>4 DEF Checkpoint, PinnedInv, AtInv
  <1>7. ComparedInv'
    BY <1>1, <1>3, <1>4 DEF Checkpoint, ComparedInv
  <1> QED  BY <1>4, <1>5, <1>6, <1>7

LEMMA FinalizeStep ==
    ASSUME RunInv, Finalize
    PROVE  RunInv'
  <1> USE DEF RunInv
  <1>1. PICK ok \in BOOLEAN : Set(at, Written(cell[at], IF ok THEN status ELSE "incomplete", TRUE, TRUE))
    BY DEF Finalize
  <1> DEFINE st == IF ok THEN status ELSE "incomplete"
             d == Written(cell[at], st, TRUE, TRUE)
  <1>2. at \in Cells /\ Set(at, d)
    BY <1>1 DEF Finalize, AtInv
  <1>3. st \in {"done", "incomplete", "failed"} /\ (st = "done" => status = "done")
    BY DEF RunTypeOK
  <1> HIDE DEF st
  <1>4. /\ d \in CellRecords /\ DoneInv(d) /\ SettledInv(d) /\ d.mark \in Marks
    BY <1>3, ComparedIsSettled DEF Finalize
  <1> HIDE DEF d
  <1>5. CellInv' /\ cell' \in [Cells -> CellRecords]
    BY <1>2, <1>4, CellReplaced DEF Finalize
  <1>6. DiskOK' /\ BoundsOK'
    BY <1>5, TypesOf DEF Finalize, DiskOK, BoundsOK
  <1>7. CASE RunnerExits
    BY <1>5, <1>6, <1>7, ExitTyped, TypesAfter DEF Finalize, RunnerExits, PinnedInv, AtInv, ComparedInv
  <1>8. CASE /\ phase' = "next" /\ at' = at + 1 /\ status' = "done"
             /\ UNCHANGED <<read, down, failed>>
    <2>1. at' \in 1 .. Last + 1
      BY <1>2, <1>8, RunAssumption DEF Cells
    <2>2. RunnerOK'
      BY <1>8, <2>1, TypesOf, Zenon DEF RunnerOK, Phases
    <2>3. PinnedInv' /\ AtInv' /\ ComparedInv'
      BY <1>8 DEF Finalize, PinnedInv, AtInv, ComparedInv
    <2> QED  BY <1>5, <1>6, <2>2, <2>3, TypesAfter
  <1> QED  BY <1>7, <1>8 DEF Finalize
\* What a regeneration makes of a record with results.
Refreshed(c, d) ==
    LET again == TerminationRecovered(c, d)
        d1 == [d EXCEPT !.terminated = @ \/ again,
                        !.quality = IF again THEN CellRunQuality(
                            [d EXCEPT !.terminated = TRUE], d.status) ELSE @]
        unowned == d1.unowned /\ d1.quality \notin {"provider_limited", "source_drift", "build_drift"}
    IN  [d1 EXCEPT !.quality = IF unowned THEN "unowned_artifacts" ELSE @]

LEMMA RefreshedCell ==
    ASSUME NEW c \in Cells, NEW d \in CellRecords, d.mark \in Marks, DoneInv(d), SettledInv(d)
    PROVE  /\ Refreshed(c, d) \in CellRecords
           /\ Refreshed(c, d).status = d.status /\ Refreshed(c, d).mark = d.mark
           /\ Refreshed(c, d).on = d.on /\ Refreshed(c, d).audit = d.audit
           /\ Refreshed(c, d).results = d.results
           /\ DoneInv(Refreshed(c, d)) /\ SettledInv(Refreshed(c, d))
  <1> DEFINE again == TerminationRecovered(c, d)
             t == [d EXCEPT !.terminated = TRUE]
             term == d.terminated \/ again
             q == IF again THEN CellRunQuality(t, d.status) ELSE d.quality
             r == IF d.unowned /\ q \notin {"provider_limited", "source_drift", "build_drift"}
                  THEN "unowned_artifacts" ELSE q
             e == [d EXCEPT !.terminated = term, !.quality = r]
  <1>1. t \in CellRecords /\ t.mark = d.mark /\ t.unreaped = d.unreaped /\ d.status \in Statuses
    BY DEF CellRecords, Statuses
  <1>2. /\ CellRunQuality(t, d.status) \in Qualities
        /\ d.mark \in Drift => CellRunQuality(t, d.status) \in Noncomparable
        /\ CellRunQuality(t, d.status) = "processes_unreaped" => d.unreaped
    BY <1>1, QualityOf
  <1>3. d.quality \in Qualities
    BY DEF CellRecords
  <1>4. /\ q \in Qualities
        /\ q = d.quality \/ ((d.mark \in Drift => q \in Noncomparable) /\ (q = "processes_unreaped" => d.unreaped))
    BY <1>2, <1>3
  <1> HIDE DEF t
  <1>5. term \in BOOLEAN
    BY DEF CellRecords, TerminationRecovered
  <1>6. Refreshed(c, d) = e
    BY DEF Refreshed, CellRecords, t
  <1> HIDE DEF q, again, term
  <1>7. /\ r \in Qualities
        /\ r = q \/ (r = "unowned_artifacts" /\ d.unowned
                       /\ q \notin {"provider_limited", "source_drift", "build_drift"})
    BY <1>4 DEF Qualities
  <1> HIDE DEF r
  <1>8. /\ e \in CellRecords /\ e.status = d.status /\ e.mark = d.mark /\ e.on = d.on /\ e.audit = d.audit
        /\ e.results = d.results /\ e.wall = d.wall /\ e.unreaped = d.unreaped /\ e.unowned = d.unowned
        /\ e.quality = r
    BY <1>5, <1>7 DEF CellRecords
  <1> HIDE DEF e
  <1>9. DoneInv(e)
    BY <1>8 DEF DoneInv
  <1>10. SettledInv(e)
    <2> SUFFICES ASSUME d.results, d.status \in {"incomplete", "failed"} PROVE SettledInv(e)
      BY <1>8 DEF SettledInv
    <2>1. /\ d.wall /\ d.on \in Pins
          /\ d.on = recorded \/ d.quality \in Noncomparable \/ (d.unreaped /\ d.unowned)
          /\ d.on # recorded => d.mark \in Drift
          /\ d.on # recorded /\ d.quality = "processes_unreaped" => d.unreaped
      BY DEF SettledInv
    <2>2. d.on # recorded => q \in Noncomparable \/ (d.unreaped /\ d.unowned)
      BY <2>1, <1>4
    <2>3. d.on # recorded /\ q = "processes_unreaped" => d.unreaped
      BY <2>1, <1>4
    <2>4. d.on # recorded => r \in Noncomparable \/ (d.unreaped /\ d.unowned)
      BY <2>2, <2>3, <1>7 DEF Noncomparable
    <2>5. d.on # recorded /\ r = "processes_unreaped" => d.unreaped
      BY <2>3, <1>7
    <2> QED  BY <2>1, <2>4, <2>5, <1>8 DEF SettledInv
  <1> QED  BY <1>6, <1>8, <1>9, <1>10

LEMMA ReopenStep ==
    ASSUME RunInv, Reopen
    PROVE  RunInv'
  <1> USE DEF RunInv
  <1>1. at \in Cells /\ cell[at] \in CellRecords /\ cell[at].mark \in Marks
        /\ DoneInv(cell[at]) /\ SettledInv(cell[at])
    BY DEF Reopen, RunTypeOK, CellInv
  <1>2. CASE ~cell[at].results
    <2>1. CellInv'
      BY <1>2, CellsUntouched DEF Reopen
    <2>2. at' \in 1 .. Last + 1
      BY <1>1, <1>2, RunAssumption DEF Reopen, Cells
    <2>3. DiskOK' /\ BoundsOK'
      BY <1>2, TypesOf DEF Reopen, DiskOK, BoundsOK
    <2>4. RunnerOK'
      BY <1>2, <2>2, TypesOf, Zenon DEF Reopen, RunnerOK, Phases
    <2>5. PinnedInv' /\ AtInv' /\ ComparedInv'
      BY <1>2 DEF Reopen, PinnedInv, AtInv, ComparedInv
    <2> QED  BY <2>1, <2>3, <2>4, <2>5, TypesAfter
  <1>3. CASE cell[at].results
    <2> DEFINE d == Refreshed(at, cell[at])
    <2>1. Set(at, d) /\ phase' = "recovered" /\ at' = at /\ failed' = (cell[at].artifacts /\ world.bld # recorded.bld)
      BY <1>3 DEF Reopen, Refreshed
    <2>2. /\ d \in CellRecords /\ d.status = cell[at].status /\ d.results = cell[at].results
          /\ d.mark \in Marks /\ DoneInv(d) /\ SettledInv(d)
      BY <1>1, RefreshedCell
    <2> HIDE DEF d
    <2>3. CellInv' /\ cell' \in [Cells -> CellRecords] /\ cell'[at] = d
      BY <1>1, <2>1, <2>2, CellReplaced DEF Reopen
    <2>4. failed' \in BOOLEAN
      BY <1>1, <2>1 DEF CellRecords
    <2>5. DiskOK' /\ BoundsOK'
      BY <2>3, TypesOf DEF Reopen, DiskOK, BoundsOK
    <2>6. RunnerOK'
      BY <2>1, <2>4, TypesOf, Zenon DEF Reopen, RunnerOK, Phases
    <2>7. recorded # Unpinned
      BY <1>1, <1>3, BlankCell DEF PinnedInv
    <2>8. PinnedInv' /\ AtInv' /\ ComparedInv'
      BY <1>1, <1>3, <2>1, <2>2, <2>3, <2>7 DEF Reopen, PinnedInv, AtInv, ComparedInv
    <2> QED  BY <2>3, <2>5, <2>6, <2>8, TypesAfter
  <1> QED  BY <1>2, <1>3

\* What a regeneration may complete was measured under the pin.
LEMMA PromotableMeasured ==
    ASSUME NEW d \in CellRecords, d.results, SettledInv(d), Promotable(d)
    PROVE  d.wall /\ d.on \in Pins /\ (d.on = recorded \/ (d.unreaped /\ d.unowned))
  BY DEF SettledInv, Promotable, Completable, TerminationRecovered

LEMMA RefinalizeStep ==
    ASSUME RunInv, Refinalize
    PROVE  RunInv'
  <1> USE DEF RunInv
  <1>1. /\ at \in Cells /\ cell[at] \in CellRecords /\ cell[at].mark \in Marks /\ cell[at].results
        /\ DoneInv(cell[at]) /\ SettledInv(cell[at])
    BY DEF Refinalize, AtInv, RunTypeOK, CellInv
  <1> DEFINE q == IF cell[at].quality = "incomplete" THEN "clean" ELSE cell[at].quality
             completed == [cell[at] EXCEPT !.status = "done", !.quality = q]
  <1>2. Set(at, cell[at]) \/ (Promotable(cell[at]) /\ Set(at, completed))
    BY DEF Refinalize
  <1>3. UNCHANGED recorded
    BY DEF Refinalize
  <1>4. Promotable(cell[at]) => completed \in CellRecords /\ completed.mark \in Marks
                                /\ DoneInv(completed) /\ SettledInv(completed)
    <2>1. q \in Qualities
      BY <1>1 DEF CellRecords, Qualities
    <2> HIDE DEF q
    <2>2. /\ completed \in CellRecords /\ completed.status = "done" /\ completed.mark = cell[at].mark
          /\ completed.on = cell[at].on /\ completed.wall = cell[at].wall
          /\ completed.unreaped = cell[at].unreaped /\ completed.unowned = cell[at].unowned
      BY <1>1, <2>1 DEF CellRecords
    <2> HIDE DEF completed
    <2> SUFFICES ASSUME Promotable(cell[at]) PROVE DoneInv(completed) /\ SettledInv(completed)
      BY <1>1, <2>2
    <2>3. cell[at].wall /\ cell[at].on \in Pins /\ (cell[at].on = recorded \/ (cell[at].unreaped /\ cell[at].unowned))
      BY <1>1, PromotableMeasured
    <2> QED  BY <2>2, <2>3 DEF DoneInv, SettledInv
  <1> HIDE DEF completed
  <1>5. CellInv' /\ cell' \in [Cells -> CellRecords]
    <2>1. CASE Set(at, cell[at])
      BY <1>1, <1>3, <2>1, CellReplaced
    <2>2. CASE Promotable(cell[at]) /\ Set(at, completed)
      BY <1>1, <1>3, <1>4, <2>2, CellReplaced
    <2> QED  BY <1>2, <2>1, <2>2
  <1>6. at' \in 1 .. Last + 1
    BY <1>1, RunAssumption DEF Refinalize, Cells
  <1>7. DiskOK' /\ BoundsOK'
    BY <1>5, TypesOf DEF Refinalize, DiskOK, BoundsOK
  <1>8. RunnerOK'
    BY <1>6, TypesOf, Zenon DEF Refinalize, RunnerOK, Phases
  <1>9. recorded # Unpinned
    BY <1>1, BlankCell DEF PinnedInv
  <1>10. PinnedInv' /\ AtInv' /\ ComparedInv'
    BY <1>9 DEF Refinalize, PinnedInv, AtInv, ComparedInv
  <1> QED  BY <1>5, <1>7, <1>8, <1>10, TypesAfter

-----------------------------------------------------------------------------
\* Every step of the runner and of the world keeps the invariant.
LEMMA RunStep ==
    ASSUME RunInv, [RunNext]_runVars
    PROVE  RunInv'
  <1>1. CASE UNCHANGED runVars
    BY <1>1 DEF runVars, run, RunInv, RunTypeOK, CellInv, DoneInv, SettledInv, PinnedInv, AtInv, ComparedInv
  <1>2. CASE RunNext
    BY <1>2, WorldStep, StartStep, PublishStep, IdleStep, SkipUnavailableStep, WipeStep, StartCellStep,
       EndAuditStep, CompareBuildStep, CheckpointStep, FinalizeStep, ReopenStep, RefinalizeStep
       DEF RunNext, CellStep
  <1> QED  BY <1>1, <1>2

\* A done cell stays done and its measurement as it was.
LEMMA DoneStep ==
    ASSUME RunInv, RunNext, NEW c \in Cells, cell[c].status = "done"
    PROVE  /\ cell'[c].status = "done"
           /\ cell'[c].on = cell[c].on /\ cell'[c].audit = cell[c].audit
  <1> USE DEF RunInv
  <1>1. /\ cell \in [Cells -> CellRecords]
        /\ phase \in {"wiped", "audit", "ended", "checkpoint", "finalize"} => at # c
    BY DEF RunTypeOK, AtInv
  <1>2. CASE \E d \in CellRecords : Set(at, d) /\ at # c
    BY <1>1, <1>2 DEF Set
  <1>3. CASE UNCHANGED cell
    BY <1>3
  <1>4. CASE Reopen
    <2>1. CASE cell[at].results /\ at = c
      <3>1. at \in Cells /\ cell[at] \in CellRecords /\ cell[at].mark \in Marks
            /\ DoneInv(cell[at]) /\ SettledInv(cell[at])
        BY <1>4 DEF Reopen, RunTypeOK, CellInv
      <3>2. Set(at, Refreshed(at, cell[at]))
        BY <1>4, <2>1 DEF Reopen, Refreshed
      <3>3. cell'[c] = Refreshed(at, cell[at])
        BY <1>1, <2>1, <3>2 DEF Set
      <3> QED  BY <2>1, <3>1, <3>3, RefreshedCell
    <2>2. CASE ~(cell[at].results /\ at = c)
      BY <1>1, <1>4, <2>2 DEF Reopen, Set
    <2> QED  BY <2>1, <2>2
  <1>5. CASE Refinalize
    <2> DEFINE q == IF cell[at].quality = "incomplete" THEN "clean" ELSE cell[at].quality
    <2>1. Set(at, cell[at]) \/ Set(at, [cell[at] EXCEPT !.status = "done", !.quality = q])
      BY <1>5 DEF Refinalize
    <2> HIDE DEF q
    <2>2. cell[c] \in CellRecords
      BY <1>1
    <2>3. CASE at # c
      BY <1>1, <2>1, <2>3 DEF Set
    <2>4. CASE at = c
      <3> DEFINE e == [cell[at] EXCEPT !.status = "done", !.quality = q]
      <3>1. e.status = "done" /\ e.on = cell[at].on /\ e.audit = cell[at].audit
        BY <2>2, <2>4 DEF CellRecords
      <3> HIDE DEF e
      <3>2. cell'[c] = cell[c] \/ cell'[c] = e
        BY <1>1, <2>1, <2>4 DEF Set, e
      <3> QED  BY <2>4, <3>1, <3>2
    <2> QED  BY <2>3, <2>4
  <1>6. CASE SkipUnavailable \/ Wipe
    BY <1>1, <1>6 DEF SkipUnavailable, Wipe, Finished, Set
  <1>7. CASE StartCell \/ EndAudit \/ CompareBuild \/ Checkpoint \/ Finalize
    BY <1>1, <1>7 DEF StartCell, EndAudit, CompareBuild, Checkpoint, Finalize, Set
  <1>8. CASE Edit \/ KillRunner \/ Start \/ VerifyBuild \/ Converge \/ PublishPin \/ SkipDone \/ Report \/ Regenerate
    BY <1>3, <1>8 DEF Edit, KillRunner, Start, VerifyBuild, Converge, PublishPin, SkipDone, Report, Regenerate
  <1> QED  BY <1>4, <1>5, <1>6, <1>7, <1>8 DEF RunNext, CellStep

\* lib/benchmark_runner.py: the run directory and the runner keep their types,
\* and no cell is audited before the run is pinned.
THEOREM RunTypeCorrect == RunSpec => []RunTypeOK
  <1>1. RunInit => RunInv
    BY RunInitInv
  <1>2. RunInv /\ [RunNext]_runVars => RunInv'
    BY RunStep
  <1>3. RunInv => RunTypeOK
    BY DEF RunInv
  <1> QED  BY <1>1, <1>2, <1>3, PTL DEF RunSpec

\* Over kills, edits, resumes and regenerations of any number of cells, what a
\* run counts was measured to its end under the pinned source and build, and a
\* done cell is never taken back (aggregate_run, _resume_refusal).
THEOREM RunsAreKept == RunSpec => RunKept
  <1>1. RunInit => RunInv
    BY RunInitInv
  <1>2. RunInv /\ [RunNext]_runVars => RunInv'
    BY RunStep
  <1>3. RunInv => OneExperiment /\ CountedIsMeasured
    BY DEF RunInv, CellInv, DoneInv, OneExperiment, CountedIsMeasured, Counted
  <1>4. RunInv /\ [RunNext]_runVars =>
          [\A c \in Cells : cell[c].status = "done" =>
              /\ cell'[c].status = "done"
              /\ cell'[c].on = cell[c].on /\ cell'[c].audit = cell[c].audit]_runVars
    BY DoneStep
  <1> QED  BY <1>1, <1>2, <1>3, <1>4, PTL DEF RunSpec, RunKept, DoneKept

-----------------------------------------------------------------------------
(* The pooled results *)

(* Where an update is: after the copy, after the first audit, after the split, *)
(* and after the last audit                                                *)
Copied == Steps \ {"idle", "build"}
Audited == {"cluster", "split", "index", "finalize", "reaudit", "out", "in", "aggregate"}
Halved == {"index", "finalize", "reaudit", "out", "in", "aggregate"}
Vouched == {"out", "in", "aggregate"}

(* The members are the staging pool, and who is not vouched for is unjudged *)
StagedInv ==
    /\ doing \in Copied => members = pool /\ pool \subseteq InMetrics
    /\ doing \in Copied \ Audited => unjudged = {}
    /\ doing \in Vouched => pool \ (valid \cap scored \cap split) \subseteq unjudged
    /\ doing = "aggregate" => live = pool

(* As long as no tool failed, the receipts are the ones that were current *)
SmoothInv ==
    /\ doing \in {"build", "move", "point", "symbols", "replay"} => ~hitch
    /\ doing \in Copied /\ ~hitch /\ rebuilt = {} => valid = pool \cap current
    /\ doing = "replay" /\ rebuilt = {} => raw = {}
    /\ doing \in Audited \cup {"audit"} /\ ~hitch => scored = valid
    /\ doing \in Audited /\ ~hitch => unjudged = pool \ valid
    /\ doing \in Halved /\ ~hitch => split = valid

PoolInv == PoolTypeOK /\ RateEarned /\ StagedInv /\ SmoothInv

LEMMA PoolInitInv == PoolInit => PoolInv
  <1> SUFFICES ASSUME PoolInit PROVE PoolInv
    OBVIOUS
  <1>1. Cardinality(Arts) \in Nat
    BY PoolAssumption, FS_CardinalityType
  <1>2. NoReport.total \in [PoolCells -> 0 .. Cardinality(Arts)]
    BY <1>1 DEF NoReport
  <1>3. NoReport.credited \cup NoReport.unjudged \cup NoReport.unique \subseteq Arts
    BY DEF NoReport
  <1>4. live \in (SUBSET Arts) \cup {NoPool}
    BY Zenon DEF PoolInit
  <1>5. hitch \in BOOLEAN /\ clustered \in BOOLEAN
    BY Zenon DEF PoolInit
  <1>6. killed \in 0 .. MaxPoolKills /\ bare \subseteq Crashes
    BY PoolAssumption DEF PoolInit
  <1>7. PoolTypeOK
    BY <1>2, <1>3, <1>4, <1>5, <1>6 DEF PoolInit, PoolTypeOK, Steps
  <1> QED
    BY <1>7 DEF PoolInit, PoolInv, RateEarned, StagedInv, SmoothInv, Copied, Audited, Halved, Vouched, Steps

(* A zero rate is given only to what both replays reproduced nothing of *)
LEMMA ZeroIsMeasured ==
    ASSUME NEW first \in ReplayStatuses, NEW second \in ReplayStatuses, NEW legacy,
           (legacy = second /\ first # "reproduced") \/ legacy = "none",
           NEW verdict,
           verdict = IF legacy = "none" THEN first ELSE Outcome(first, legacy)
    PROVE  Rate(verdict, {first, legacy}) \in {"some", "zero", "none"}
  BY DEF ReplayStatuses, Outcome, Rate

LEMMA FinishStep == ASSUME PoolInv, NEW c \in PoolCells, Finish(c) PROVE PoolInv'
  BY DEF PoolInv, PoolTypeOK, RateEarned, StagedInv, SmoothInv, Finish, Copied, Audited, Halved,
         Vouched, Steps, stage, files

LEMMA OutdateStep == ASSUME PoolInv, Outdate PROVE PoolInv'
  BY DEF PoolInv, PoolTypeOK, RateEarned, StagedInv, SmoothInv, Outdate, Copied, Audited, Halved,
         Vouched, Steps, stage, files

LEMMA UpdateStep == ASSUME PoolInv, Update PROVE PoolInv'
  BY DEF PoolInv, PoolTypeOK, RateEarned, StagedInv, SmoothInv, Update, Go, Copied, Audited, Halved,
         Vouched, Steps, cells, stage, files

LEMMA BuildStep == ASSUME PoolInv, Build PROVE PoolInv'
  BY DEF PoolInv, PoolTypeOK, RateEarned, StagedInv, SmoothInv, Build, Go, Copied, Audited, Halved,
         Vouched, Steps, InMetrics, Crashes, cells, stage, files

LEMMA MoveStep == ASSUME PoolInv, Move \/ Point \/ Symbols PROVE PoolInv'
  BY DEF PoolInv, PoolTypeOK, RateEarned, StagedInv, SmoothInv, Move, Point, Symbols, Unverified, Go,
         Copied, Audited, Halved, Vouched, Steps, InMetrics, cells, stage, files

LEMMA ReplayStep == ASSUME PoolInv, NEW a \in Crashes, Replay(a) PROVE PoolInv'
  BY ZeroIsMeasured
     DEF PoolInv, PoolTypeOK, RateEarned, StagedInv, SmoothInv, Replay, Unbound, Go,
         Copied, Audited, Halved, Vouched, Steps, InMetrics, cells, stage, files

LEMMA ScoreStep == ASSUME PoolInv, Score PROVE PoolInv'
  BY DEF PoolInv, PoolTypeOK, RateEarned, StagedInv, SmoothInv, Score, Go,
         Copied, Audited, Halved, Vouched, Steps, InMetrics, cells, stage, files

LEMMA AuditStep == ASSUME PoolInv, Audit PROVE PoolInv'
  BY DEF PoolInv, PoolTypeOK, RateEarned, StagedInv, SmoothInv, Audit, Quarantined, Go,
         Copied, Audited, Halved, Vouched, Steps, InMetrics, cells, stage, files

LEMMA ToolStep == ASSUME PoolInv, Cluster \/ Split \/ Index \/ FinalizeConditionPools PROVE PoolInv'
  BY DEF PoolInv, PoolTypeOK, RateEarned, StagedInv, SmoothInv, Cluster, Split, Index,
         FinalizeConditionPools, Rewrites, Go,
         Copied, Audited, Halved, Vouched, Steps, InMetrics, cells, stage, files

LEMMA SwapStep == ASSUME PoolInv, SwapOut \/ SwapIn PROVE PoolInv'
  <1>1. pool \in SUBSET Arts
    BY DEF PoolInv, PoolTypeOK
  <1>2. live' \in {pool, NoPool}
    BY DEF SwapOut, SwapIn
  <1>3. live' \in (SUBSET Arts) \cup {NoPool}
    BY <1>1, <1>2
  <1>4. PoolTypeOK'
    BY <1>3 DEF PoolInv, PoolTypeOK, SwapOut, SwapIn, Go, Steps, cells, stage, files
  <1> QED
    BY <1>4 DEF PoolInv, RateEarned, StagedInv, SmoothInv, SwapOut, SwapIn, Go,
                Copied, Audited, Halved, Vouched, Steps, InMetrics, cells, stage, files

(* What is taken from the count was counted *)
LEMMA TotalType == ASSUME PoolTypeOK, members \subseteq InMetrics, NEW c \in PoolCells
                   PROVE  Total(c) \in 0 .. Cardinality(Arts)
  <1> DEFINE all == OwnedBy(c) \cap Crashes \cap InMetrics
             out == OwnedBy(c) \cap Crashes \cap unjudged
  <1>1. out \subseteq all /\ all \subseteq Arts
    BY DEF PoolTypeOK, OwnedBy
  <1> HIDE DEF all, out
  <1>2. IsFiniteSet(all) /\ IsFiniteSet(out)
    BY <1>1, PoolAssumption, FS_Subset
  <1>3. /\ Cardinality(all) \in Nat /\ Cardinality(out) \in Nat /\ Cardinality(Arts) \in Nat
        /\ Cardinality(out) <= Cardinality(all) /\ Cardinality(all) <= Cardinality(Arts)
    BY <1>1, <1>2, PoolAssumption, FS_CardinalityType, FS_Subset
  <1> QED  BY <1>3 DEF Total, all, out

LEMMA AggregateStep == ASSUME PoolInv, Aggregate PROVE PoolInv'
  <1>1. \A c \in PoolCells : Total(c) \in 0 .. Cardinality(Arts)
    BY TotalType DEF PoolInv, StagedInv, Aggregate, Copied, Steps
  <1>2. /\ report'.total = [c \in PoolCells |-> Total(c)] /\ report'.unjudged = unjudged
        /\ report'.credited = Credited /\ report'.unique = Unique
    BY DEF Aggregate
  <1>3. report'.total \in [PoolCells -> 0 .. Cardinality(Arts)]
    BY <1>1, <1>2
  <1>4. report'.credited \cup report'.unjudged \cup report'.unique \subseteq Arts
    BY <1>2 DEF Credited, Unique, PoolInv, PoolTypeOK
  <1>5. doing' = "idle" /\ UNCHANGED <<cells, files, live, killed>> /\ Cleared
    BY DEF Aggregate, Go
  <1> QED
    BY <1>3, <1>4, <1>5
       DEF PoolInv, PoolTypeOK, RateEarned, StagedInv, SmoothInv, Cleared,
           Copied, Audited, Halved, Vouched, Steps, cells, files

LEMMA KillStep == ASSUME PoolInv, KillUpdate PROVE PoolInv'
  <1>1. killed' \in 0 .. MaxPoolKills
    BY PoolAssumption DEF PoolInv, PoolTypeOK, KillUpdate
  <1> QED
    BY <1>1
     DEF PoolInv, PoolTypeOK, RateEarned, StagedInv, SmoothInv, KillUpdate, Cleared, Go,
         Copied, Audited, Halved, Vouched, Steps, cells, files

LEMMA PoolStep == ASSUME PoolInv, [PoolNext]_poolVars PROVE PoolInv'
  <1>1. CASE UNCHANGED poolVars
    BY <1>1 DEF PoolInv, PoolTypeOK, RateEarned, StagedInv, SmoothInv, InMetrics, poolVars, cells, stage, files
  <1>2. CASE PoolNext
    BY <1>2, FinishStep, OutdateStep, UpdateStep, BuildStep, MoveStep, ReplayStep, ScoreStep, AuditStep,
       ToolStep, SwapStep, AggregateStep, KillStep
       DEF PoolNext, Rebuild
  <1> QED  BY <1>1, <1>2

(* Only aggregate writes a report *)
LEMMA ReportStep ==
    ASSUME PoolNext, report' # report
    PROVE  /\ doing = "aggregate"
           /\ report'.credited = Credited /\ report'.unique = Unique
  BY DEF PoolNext, Rebuild, Finish, Outdate, Update, Build, Move, Point, Symbols, Replay, Score, Audit,
         Cluster, Split, Index, FinalizeConditionPools, SwapOut, SwapIn, Aggregate, KillUpdate

(* A write-up is no crash, so no crash has a write-up of its own to hide behind *)
LEMMA OneBehind == ASSUME NEW f \in Arts, Behind[f] # f PROVE Behind[f] \in Arts /\ Behind[Behind[f]] = Behind[f]
  BY PoolAssumption

\* lib/benchmark_runner.py, lib/benchmark.py: the files of an update keep their
\* types, so no condition is left with fewer crashes than none.
THEOREM PoolTypeCorrect == PoolSpec => []PoolTypeOK
  <1>1. PoolInit => PoolInv
    BY PoolInitInv
  <1>2. PoolInv /\ [PoolNext]_poolVars => PoolInv'
    BY PoolStep
  <1>3. PoolInv => PoolTypeOK
    BY DEF PoolInv
  <1> QED  BY <1>1, <1>2, <1>3, PTL DEF PoolSpec

\* For any number of cells, artifacts and kills: a published rate was measured,
\* what is credited has a current receipt, an update in which nothing fails keeps
\* the reviews, and a crash and its write-up count once (rebuild_pool,
\* credited_pool_members, attribute_clusters).
THEOREM PoolsAreKept == PoolSpec => PoolKept
  <1>1. PoolInit => PoolInv
    BY PoolInitInv
  <1>2. PoolInv /\ [PoolNext]_poolVars => PoolInv'
    BY PoolStep
  <1>3. PoolInv => PoolTypeOK /\ RateEarned
    BY DEF PoolInv
  <1>4. PoolInv /\ [PoolNext]_poolVars =>
          [report' # report => report'.credited \subseteq live \cap valid \cap split \cap scored]_poolVars
    BY ReportStep DEF PoolInv, PoolTypeOK, StagedInv, Credited, Copied, Vouched, Steps
  <1>5. PoolInv /\ [PoolNext]_poolVars =>
          [report' # report /\ ~hitch /\ rebuilt = {} => report'.credited = pool \cap current]_poolVars
    BY ReportStep DEF PoolInv, PoolTypeOK, StagedInv, SmoothInv, Credited, Copied, Audited, Steps
  <1>6. PoolInv /\ [PoolNext]_poolVars =>
          [report' # report => \A f \in Arts : Behind[f] # f /\ f \in report'.credited /\ clustered =>
              (f \in report'.unique <=>
                   ~(Behind[f] \in report'.unique /\ CellOf[Behind[f]] = CellOf[f]))]_poolVars
    BY ReportStep, OneBehind DEF Unique, Covered
  <1> QED
    BY <1>1, <1>2, <1>3, <1>4, <1>5, <1>6, PTL
       DEF PoolSpec, PoolKept, CreditedIsCurrent, ReviewsSurvive, OneDefectOnce

=============================================================================
