-------------------------- MODULE BuildLeaseProofs --------------------------
(* Proofs about the build lease, for any processes and any number of builds;
   about the source pins, for any claimants and any source states; and about
   the launches of one tree, for any launches and any backends. *)
EXTENDS BuildLease, SourcePins, AuditRun, FiniteSetTheorems, TLAPS

USE DEF Goto

\* What a tree's path may hold.
LEMMA ContentFacts ==
    /\ Absent \in Contents /\ Partial \in Contents
    /\ \A n \in Nat : n + 1 \in Contents /\ n + 1 \in Nat
  BY DEF Contents, Absent, Partial

\* Every action keeps the lock's meaning and the types.
LEMMA TypeStep == TypeOK /\ [Next]_vars => TypeOK'
<1> SUFFICES ASSUME TypeOK, [Next]_vars PROVE TypeOK'
  OBVIOUS
<1> USE ContentFacts DEF TypeOK, Consumer, Waiting, Building, lock
<1>1. ASSUME NEW p \in Procs, Consume(p) PROVE TypeOK'
  <2>1. CASE StartRun(p) BY <2>1 DEF StartRun
  <2>2. CASE Defer(p) BY <2>2 DEF Defer
  <2>3. CASE DeferExpires(p) BY <2>3 DEF DeferExpires
  <2>4. CASE GrantSh(p) BY <2>4 DEF GrantSh
  <2>5. CASE GiveUpSh(p) BY <2>5 DEF GiveUpSh
  <2>6. CASE Finish(p) BY <2>6 DEF Finish
  <2> QED BY <1>1, <2>1, <2>2, <2>3, <2>4, <2>5, <2>6 DEF Consume
<1>2. ASSUME NEW p \in Procs, Materialize(p) PROVE TypeOK'
  <2>1. CASE AskPeers(p) BY <2>1 DEF AskPeers
  <2>2. CASE Probe(p)
    <3>2. pc' = [pc EXCEPT ![p] = IF sh = {} /\ ex = {} THEN "probing" ELSE "idle"]
      BY <2>2 DEF Probe
    <3>3. ex' = IF sh = {} /\ ex = {} THEN {p} ELSE ex
      BY <2>2 DEF Probe
    <3>4. pc[p] = "probe" /\ UNCHANGED <<sh, pending, lease, tree, backup, orphans, astray, newest>>
      BY <2>2 DEF Probe
    <3> HIDE <2>2
    <3> QED BY <3>2, <3>3, <3>4
  <2>3. CASE ProbeDone(p) BY <2>3 DEF ProbeDone
  <2>4. CASE Announce(p) BY <2>4 DEF Announce
  <2>5. CASE GrantEx(p) BY <2>5 DEF GrantEx
  <2>6. CASE GiveUpEx(p) BY <2>6 DEF GiveUpEx
  <2>7. CASE Fresh(p) BY <2>7 DEF Fresh
  <2>8. CASE MoveAside(p) BY <2>8 DEF MoveAside
  <2>9. CASE RunRecipe(p) BY <2>9 DEF RunRecipe
  <2>10. CASE BuildOk(p) BY <2>10 DEF BuildOk
  <2>16. CASE Stamp(p) BY <2>16 DEF Stamp
  <2>17. CASE CleanupRaises(p) BY <2>17 DEF CleanupRaises
  <2>18. CASE DiscardFails(p)
    <3>1. orphans' \subseteq Contents /\ backup' \in [Procs -> Contents]
      BY <2>18 DEF DiscardFails
    <3>2. /\ pc[p] \in {"building", "raised"} /\ pc' = [pc EXCEPT ![p] = "unlock"]
          /\ UNCHANGED <<lock, lease, tree, astray, newest>>
      BY <2>18 DEF DiscardFails
    <3> HIDE <2>18
    <3> QED BY <3>1, <3>2
  <2>11. CASE BuildFail(p) BY <2>11 DEF BuildFail
  <2>12. CASE Restore(p) BY <2>12 DEF Restore
  <2>13. CASE RestoreFails(p)
    <3>1. orphans' \subseteq Contents /\ backup' \in [Procs -> Contents]
      BY <2>13 DEF RestoreFails
    <3>2. /\ pc[p] = "failed" /\ pc' = [pc EXCEPT ![p] = "unlock"]
          /\ UNCHANGED <<lock, lease, tree, astray, newest>>
      BY <2>13 DEF RestoreFails
    <3> HIDE <2>13
    <3> QED BY <3>1, <3>2
  <2>14. CASE Unlock(p) BY <2>14 DEF Unlock
  <2>15. CASE ClearPending(p) BY <2>15 DEF ClearPending
  <2> QED BY <1>2, <2>1, <2>2, <2>3, <2>4, <2>5, <2>6, <2>7, <2>8, <2>9, <2>10,
             <2>11, <2>12, <2>13, <2>14, <2>15, <2>16, <2>17, <2>18 DEF Materialize
<1>3. ASSUME NEW p \in Procs, Kill(p) PROVE TypeOK'
  <2>1. astray' \in BOOLEAN
    BY <1>3, Zenon DEF Kill
  <2>2. /\ pc[p] \notin {"idle", "dead"} /\ pc' = [pc EXCEPT ![p] = "dead"]
        /\ sh' = sh \ {p} /\ ex' = ex \ {p}
        /\ lease' = [lease EXCEPT ![p] = "none"]
        /\ UNCHANGED <<pending, tree>>
        /\ newest' \in Nat
    BY <1>3 DEF Kill
  <2>3. orphans' \subseteq Contents /\ backup' \in [Procs -> Contents]
    BY <1>3 DEF Kill
  <2> HIDE <1>3
  <2> QED BY <2>1, <2>2, <2>3
<1>4. ASSUME NEW p \in Procs, Reuse(p) PROVE TypeOK'
  BY <1>4 DEF Reuse
<1>5. CASE AstrayWrites BY <1>5 DEF AstrayWrites
<1>6. CASE AstrayEnds BY <1>6 DEF AstrayEnds
<1>7. CASE UNCHANGED vars BY <1>7 DEF vars
<1> QED BY <1>1, <1>2, <1>3, <1>4, <1>5, <1>6, <1>7 DEF Next

LEMMA InitTypes == Init => TypeOK
<1> SUFFICES ASSUME Init PROVE TypeOK
  OBVIOUS
<1>1. astray \in BOOLEAN
  BY Zenon DEF Init
<1>2. newest \in Nat /\ tree \in Contents
  BY DEF Init, Contents, Absent, Partial
<1> QED BY <1>1, <1>2 DEF Init, TypeOK, Contents, Absent, Consumer, Waiting, Building

\* However consumers, builders, kills and deadlines interleave, the variables
\* keep their types and a lock held exclusively is held by one process alone.
THEOREM LeaseTypeCorrect == Spec => []TypeOK
  BY InitTypes, TypeStep, PTL DEF Spec

-----------------------------------------------------------------------------
(* The lease implements BuildTree when no recipe outlives its builder. *)

Holders == {p \in Procs : lease[p] = "held"}

NotAstray == ~RecipeSurvives => ~astray

LEMMA AstrayStep == NotAstray /\ [Next]_vars => NotAstray'
<1> SUFFICES ASSUME NotAstray, [Next]_vars PROVE NotAstray'
  OBVIOUS
<1>1. CASE \E p \in Procs : Kill(p)
  BY <1>1, Zenon DEF Kill, NotAstray
<1>2. CASE AstrayEnds
  BY <1>2, Zenon DEF AstrayEnds, NotAstray
<1>3. CASE UNCHANGED astray
  BY <1>3 DEF NotAstray
<1>4. CASE \E p \in Procs : Consume(p) \/ Materialize(p) \/ Reuse(p)
  <2>1. UNCHANGED astray
    BY <1>4 DEF Consume, Materialize, Reuse, StartRun, Defer, DeferExpires, GrantSh, GiveUpSh,
       Finish, AskPeers, Probe, ProbeDone, Announce, GrantEx, GiveUpEx, Fresh, MoveAside,
       RunRecipe, Stamp, BuildOk, CleanupRaises, BuildFail, DiscardFails,
       Restore, RestoreFails, Unlock, ClearPending
  <2> QED BY <1>3, <2>1
<1>5. CASE AstrayWrites \/ UNCHANGED vars
  <2>1. UNCHANGED astray
    BY <1>5 DEF AstrayWrites, vars
  <2> QED BY <1>3, <2>1
<1> QED BY <1>1, <1>2, <1>4, <1>5 DEF Next

\* A builder that touches the tree holds the lock alone, so nobody holds the tree.
LEMMA BuilderAlone ==
  ASSUME TypeOK, NEW p \in Procs, pc[p] \in Building
  PROVE  Holders = {}
  BY DEF TypeOK, Holders

\* A step that grants, drops or leaves holds leaves the tree alone.
LEMMA ConsumerStep ==
  ASSUME TypeOK, NEW p \in Procs, Consume(p) \/ Kill(p)
  PROVE  /\ tree' = tree
         /\ \/ UNCHANGED lease
            \/ lease[p] # "held" /\ lease' = [lease EXCEPT ![p] = "held"]
            \/ \E l \in {"none", "open", "skipped"} : lease' = [lease EXCEPT ![p] = l]
<1>1. CASE StartRun(p) BY <1>1 DEF StartRun
<1>2. CASE Defer(p) BY <1>2 DEF Defer
<1>3. CASE DeferExpires(p) BY <1>3 DEF DeferExpires
<1>4. CASE GrantSh(p) BY <1>4 DEF GrantSh, TypeOK
<1>5. CASE GiveUpSh(p) BY <1>5 DEF GiveUpSh
<1>6. CASE Finish(p) BY <1>6 DEF Finish
<1>7. CASE Kill(p) BY <1>7 DEF Kill
<1> QED BY <1>1, <1>2, <1>3, <1>4, <1>5, <1>6, <1>7 DEF Consume

LEMMA TreeStep ==
  ASSUME ~RecipeSurvives, TypeOK, TypeOK', NotAstray, [Next]_vars
  PROVE  [Promise!Next]_<<Holders, tree>>
<1> USE DEF Promise!Next, Promise!Hold, Promise!Drop, Promise!Change
<1>1. ASSUME NEW p \in Procs, Consume(p) \/ Kill(p) PROVE [Promise!Next]_<<Holders, tree>>
  <2>1. tree' = tree
    BY <1>1, ConsumerStep
  <2>2. CASE UNCHANGED lease
    BY <2>1, <2>2 DEF Holders
  <2>3. CASE lease[p] # "held" /\ lease' = [lease EXCEPT ![p] = "held"]
    <3>1. p \notin Holders /\ Holders' = Holders \cup {p}
      BY <2>3 DEF Holders, TypeOK
    <3>2. Promise!Hold(p)
      BY <2>1, <3>1 DEF Holders
    <3> QED BY <3>2
  <2>4. ASSUME NEW l \in {"none", "open", "skipped"}, lease' = [lease EXCEPT ![p] = l]
        PROVE  [Promise!Next]_<<Holders, tree>>
    <3>1. Holders' = Holders \ {p}
      BY <2>4 DEF Holders, TypeOK
    <3>2. CASE p \in Holders
      <4>1. Promise!Drop(p)
        BY <2>1, <3>1, <3>2 DEF Holders
      <4> QED BY <4>1
    <3>3. CASE p \notin Holders
      BY <2>1, <3>1, <3>3
    <3> QED BY <3>2, <3>3
  <2> QED BY <1>1, <2>2, <2>3, <2>4, ConsumerStep
<1>2. ASSUME NEW p \in Procs, Materialize(p) PROVE [Promise!Next]_<<Holders, tree>>
  <2>1. Holders' = Holders
    BY <1>2 DEF Materialize, AskPeers, Probe, ProbeDone, Announce, GrantEx, GiveUpEx, Fresh,
       MoveAside, RunRecipe, Stamp, BuildOk, CleanupRaises, BuildFail, DiscardFails,
       Restore, RestoreFails, Unlock, ClearPending,
       Holders
  <2>2. CASE pc[p] \in Building
    <3>1. Holders = {} /\ tree' \in Contents
      BY <2>2, BuilderAlone DEF TypeOK
    <3>2. Promise!Change
      BY <2>1, <3>1 DEF Holders
    <3> QED BY <3>2
  <2>3. CASE pc[p] \notin Building
    <3>1. tree' = tree
      BY <1>2, <2>3 DEF Materialize, AskPeers, Probe, ProbeDone, Announce, GrantEx, GiveUpEx,
         Fresh, MoveAside, RunRecipe, Stamp, BuildOk, CleanupRaises, BuildFail, DiscardFails,
         Restore, RestoreFails, Unlock,
         ClearPending, Building
    <3> QED BY <2>1, <3>1
  <2> QED BY <2>2, <2>3
<1>3. ASSUME NEW p \in Procs, Reuse(p) PROVE [Promise!Next]_<<Holders, tree>>
  BY <1>3 DEF Reuse, Holders
<1>4. ~AstrayWrites
  BY DEF NotAstray, AstrayWrites
<1>5. CASE AstrayEnds \/ UNCHANGED vars
  BY <1>5 DEF AstrayEnds, vars, Holders
<1> QED BY <1>1, <1>2, <1>3, <1>4, <1>5 DEF Next

\* The lease keeps its module's promise: when kills take the recipe with the
\* builder, the tree changes only while no consumer was told it holds it.
THEOREM LeaseKeepsTree ==
  ASSUME ~RecipeSurvives
  PROVE  Spec => TreeStable
<1>1. Init => TypeOK /\ NotAstray
  <2>1. Init => NotAstray
    BY Zenon DEF Init, NotAstray
  <2> QED BY <2>1, InitTypes
<1>2. Init => Promise!Init
  BY InitTypes DEF Init, TypeOK, Promise!Init
<1>3. TypeOK /\ TypeOK' /\ NotAstray /\ [Next]_vars => [Promise!Next]_<<Holders, tree>>
  BY TreeStep
<1>4. Spec => [](TypeOK /\ NotAstray)
  BY <1>1, TypeStep, AstrayStep, PTL DEF Spec
<1> QED BY <1>2, <1>3, <1>4, PTL DEF Spec, TreeStable, Promise!Spec, Holders

-----------------------------------------------------------------------------
(* The last good build survives. *)

\* Where the old tree is while the path is absent or half-written.
Window ==
    \A p \in Procs :
        /\ pc[p] \in {"moved", "failed"} => tree = Absent
        /\ pc[p] = "building" => tree = Partial
        /\ pc[p] = "stamped" => tree = newest + 1
        /\ pc[p] # "raised"
        /\ pc[p] \notin {"moved", "building", "stamped", "failed"} => backup[p] = Absent

LEMMA WindowStep ==
  ASSUME ~RecipeSurvives, ~CleanupFails, TypeOK, TypeOK', NotAstray, Window, LastBuildKept,
         [Next]_vars
  PROVE  Window' /\ LastBuildKept'
<1> USE DEF Window, LastBuildKept, TypeOK, Building, Consumer, Waiting
<1>0. Absent = -1 /\ Partial = 0
  BY DEF Absent, Partial
<1>1. ASSUME NEW p \in Procs, Consume(p) PROVE Window' /\ LastBuildKept'
  <2>1. UNCHANGED <<tree, backup, orphans, newest>>
    BY <1>1 DEF Consume, StartRun, Defer, DeferExpires, GrantSh, GiveUpSh, Finish
  <2>2. \E st \in {"idle"} \cup Consumer :
            pc[p] \in {"idle"} \cup Consumer /\ pc' = [pc EXCEPT ![p] = st]
    BY <1>1 DEF Consume, StartRun, Defer, DeferExpires, GrantSh, GiveUpSh, Finish
  <2> QED BY <2>1, <2>2
<1>2. ASSUME NEW p \in Procs, Materialize(p) PROVE Window' /\ LastBuildKept'
  <2>1. CASE AskPeers(p) \/ Probe(p) \/ ProbeDone(p) \/ Announce(p) \/ GrantEx(p)
               \/ GiveUpEx(p) \/ Fresh(p) \/ Unlock(p) \/ ClearPending(p)
    <3>1. UNCHANGED <<tree, backup, orphans, newest>>
      BY <2>1 DEF AskPeers, Probe, ProbeDone, Announce, GrantEx, GiveUpEx, Fresh, Unlock,
         ClearPending
    <3>2. \E st \in {"idle", "locked", "unlock", "clear"} \cup Waiting :
              /\ pc[p] \in {"idle", "locked", "unlock", "clear"} \cup Waiting
              /\ pc' = [pc EXCEPT ![p] = st]
      BY <2>1 DEF AskPeers, Probe, ProbeDone, Announce, GrantEx, GiveUpEx, Fresh, Unlock,
         ClearPending
    <3> QED BY <3>1, <3>2
  <2>2. ASSUME pc[p] \in Building, NEW q \in Procs, q # p PROVE pc[q] \notin Building
    BY <2>2
  <2>3. CASE MoveAside(p) BY <1>0, <2>2, <2>3 DEF MoveAside
  <2>4. CASE RunRecipe(p) BY <1>0, <2>2, <2>4 DEF RunRecipe
  <2>5. CASE BuildOk(p) BY <1>0, <2>2, <2>5 DEF BuildOk
  <2>9. CASE Stamp(p) BY <1>0, <2>2, <2>9 DEF Stamp
  <2>10. CASE CleanupRaises(p) BY <2>10 DEF CleanupRaises
  <2>11. CASE DiscardFails(p) BY <1>0, <2>2, <2>11 DEF DiscardFails
  <2>6. CASE BuildFail(p) BY <1>0, <2>2, <2>6 DEF BuildFail
  <2>7. CASE Restore(p) BY <1>0, <2>2, <2>7 DEF Restore
  <2>8. CASE RestoreFails(p) BY <1>0, <2>2, <2>8 DEF RestoreFails
  <2> QED BY <1>2, <2>1, <2>3, <2>4, <2>5, <2>6, <2>7, <2>8, <2>9, <2>10, <2>11
     DEF Materialize
<1>3. ASSUME NEW p \in Procs, Kill(p) PROVE Window' /\ LastBuildKept'
  <2>1. /\ pc' = [pc EXCEPT ![p] = "dead"]
        /\ orphans' = orphans \cup {backup[p]}
        /\ backup' = [backup EXCEPT ![p] = Absent]
        /\ tree' = tree
        /\ newest' = IF pc[p] = "stamped" THEN newest + 1 ELSE newest
    BY <1>3 DEF Kill
  <2>2. ASSUME pc[p] \in Building, NEW q \in Procs, q # p PROVE pc[q] \notin Building
    BY <2>2
  <2>3. CASE pc[p] = "stamped"
    BY <1>0, <2>1, <2>2, <2>3
  <2>4. CASE pc[p] # "stamped"
    BY <2>1, <2>4
  <2> QED BY <2>3, <2>4
<1>4. ASSUME NEW p \in Procs, Reuse(p) PROVE Window' /\ LastBuildKept'
  BY <1>4 DEF Reuse
<1>5. ~AstrayWrites
  BY DEF NotAstray, AstrayWrites
<1>6. CASE AstrayEnds \/ UNCHANGED vars
  <2>1. UNCHANGED <<pc, tree, backup, orphans, newest>>
    BY <1>6 DEF AstrayEnds, vars
  <2> QED BY <2>1
<1> QED BY <1>1, <1>2, <1>3, <1>4, <1>5, <1>6 DEF Next

\* materialize never loses the last good build: through failed recipes, failed
\* moves and kills of the process group it is in place or in a backup,
\* provided removing a superseded backup does not fail.
THEOREM LastBuildSurvives ==
  ASSUME ~RecipeSurvives, ~CleanupFails
  PROVE  Spec => []LastBuildKept
<1>1. Init => Window /\ LastBuildKept
  BY DEF Init, Window, LastBuildKept
<1>2. Init => TypeOK /\ NotAstray
  <2>1. Init => NotAstray
    BY Zenon DEF Init, NotAstray
  <2> QED BY <2>1, InitTypes
<1>3. TypeOK /\ TypeOK' /\ NotAstray /\ Window /\ LastBuildKept /\ [Next]_vars
        => Window' /\ LastBuildKept'
  BY WindowStep
<1> QED BY <1>1, <1>2, <1>3, TypeStep, AstrayStep, PTL DEF Spec

-----------------------------------------------------------------------------
(* Proofs, for any processes and any source states *)

USE DEF MoveTo

-----------------------------------------------------------------------------
(* The inductive invariant *)

\* A claim under way is for a known source state.
WantKnown == \A p \in Claimants : at[p] \in {"registry"} \cup Inside => want[p] \in Sigs

\* A pin is locked by a process that holds a claim or is about to publish it.
LockedHeld == \A p \in Claimants : p \in locked <=> claim[p] # None \/ at[p] = "write"

\* What a scan has established: a disagreeing claim is yet to be looked at or
\* already counted, and none is left once the scanner goes on to publish.
Scanned ==
    \A p, q \in Claimants : p # q =>
        /\ at[p] = "scan" => q \in todo \cup conflicts \/ claim[q] \in {None, want[p]}
        /\ at[p] \in {"lock", "write"} => claim[q] \in {None, want[p]}

PinInv == PinTypeOK /\ WantKnown /\ LockedHeld /\ ClaimOnDisk /\ Scanned /\ OnlyLiveBlock /\ LivePinsAgree

\* Every action keeps the types and the registry's meaning.
LEMMA PinTypeStep ==
  ASSUME PinTypeOK, WantKnown, [PinNext]_pinVars
  PROVE  PinTypeOK' /\ WantKnown'
<1> USE PinAssumption DEF PinTypeOK, WantKnown, Inside, scan
<1>1. CASE Edit BY <1>1 DEF Edit
<1>2. ASSUME NEW p \in Claimants, ReadSource(p) PROVE PinTypeOK' /\ WantKnown'
  BY <1>2 DEF ReadSource
<1>3. ASSUME NEW p \in Claimants, Enter(p) PROVE PinTypeOK' /\ WantKnown'
  BY <1>3 DEF Enter
<1>4. ASSUME NEW p \in Claimants, NEW n \in Claimants, Examine(p, n) PROVE PinTypeOK' /\ WantKnown'
  BY <1>4 DEF Examine
<1>5. ASSUME NEW p \in Claimants, Refuse(p) PROVE PinTypeOK' /\ WantKnown'
  BY <1>5 DEF Refuse
<1>6. ASSUME NEW p \in Claimants, Open(p) PROVE PinTypeOK' /\ WantKnown'
  BY <1>6 DEF Open
<1>7. ASSUME NEW p \in Claimants, Lock(p) PROVE PinTypeOK' /\ WantKnown'
  BY <1>7 DEF Lock
<1>8. ASSUME NEW p \in Claimants, Publish(p) PROVE PinTypeOK' /\ WantKnown'
  BY <1>8 DEF Publish
<1>9. ASSUME NEW p \in Claimants, KillClaimant(p) PROVE PinTypeOK' /\ WantKnown'
  BY <1>9 DEF KillClaimant
<1>10. ASSUME NEW p \in Claimants, ReuseId(p) PROVE PinTypeOK' /\ WantKnown'
  BY <1>10 DEF ReuseId
<1>11. CASE UNCHANGED pinVars BY <1>11 DEF pinVars
<1> QED BY <1>1, <1>2, <1>3, <1>4, <1>5, <1>6, <1>7, <1>8, <1>9, <1>10, <1>11 DEF PinNext, Claiming

\* Only its owner writes a pin, and only an unlocked one is removed.
LEMMA DiskStep ==
  ASSUME PinTypeOK, WantKnown, LockedHeld, ClaimOnDisk, [PinNext]_pinVars
  PROVE  LockedHeld' /\ ClaimOnDisk'
<1> USE PinAssumption DEF PinTypeOK, WantKnown, LockedHeld, ClaimOnDisk, Live, Inside, scan
<1>1. CASE Edit BY <1>1 DEF Edit
<1>2. ASSUME NEW p \in Claimants, ReadSource(p) PROVE LockedHeld' /\ ClaimOnDisk'
  BY <1>2 DEF ReadSource
<1>3. ASSUME NEW p \in Claimants, Enter(p) PROVE LockedHeld' /\ ClaimOnDisk'
  BY <1>3 DEF Enter
<1>4. ASSUME NEW p \in Claimants, NEW n \in Claimants, Examine(p, n) PROVE LockedHeld' /\ ClaimOnDisk'
  BY <1>4 DEF Examine
<1>5. ASSUME NEW p \in Claimants, Refuse(p) PROVE LockedHeld' /\ ClaimOnDisk'
  BY <1>5 DEF Refuse
<1>6. ASSUME NEW p \in Claimants, Open(p) PROVE LockedHeld' /\ ClaimOnDisk'
  BY <1>6 DEF Open
<1>7. ASSUME NEW p \in Claimants, Lock(p) PROVE LockedHeld' /\ ClaimOnDisk'
  BY <1>7 DEF Lock
<1>8. ASSUME NEW p \in Claimants, Publish(p) PROVE LockedHeld' /\ ClaimOnDisk'
  BY <1>8 DEF Publish
<1>9. ASSUME NEW p \in Claimants, KillClaimant(p) PROVE LockedHeld' /\ ClaimOnDisk'
  BY <1>9 DEF KillClaimant
<1>10. ASSUME NEW p \in Claimants, ReuseId(p) PROVE LockedHeld' /\ ClaimOnDisk'
  BY <1>10 DEF ReuseId
<1>11. CASE UNCHANGED pinVars BY <1>11 DEF pinVars
<1> QED BY <1>1, <1>2, <1>3, <1>4, <1>5, <1>6, <1>7, <1>8, <1>9, <1>10, <1>11 DEF PinNext, Claiming

\* The registry keeps claims from being published during a scan.
LEMMA ScanStep ==
  ASSUME PinTypeOK, WantKnown, LockedHeld, ClaimOnDisk, Scanned, [PinNext]_pinVars
  PROVE  Scanned'
<1> USE PinAssumption DEF PinTypeOK, WantKnown, LockedHeld, ClaimOnDisk, Scanned, Live, Inside, scan
<1>1. CASE Edit BY <1>1 DEF Edit
<1>2. ASSUME NEW p \in Claimants, ReadSource(p) PROVE Scanned'
  BY <1>2 DEF ReadSource
<1>3. ASSUME NEW p \in Claimants, Enter(p) PROVE Scanned'
  BY <1>3 DEF Enter
<1>4. ASSUME NEW p \in Claimants, NEW n \in Claimants, Examine(p, n) PROVE Scanned'
  BY <1>4 DEF Examine
<1>5. ASSUME NEW p \in Claimants, Refuse(p) PROVE Scanned'
  BY <1>5 DEF Refuse
<1>6. ASSUME NEW p \in Claimants, Open(p) PROVE Scanned'
  BY <1>6 DEF Open
<1>7. ASSUME NEW p \in Claimants, Lock(p) PROVE Scanned'
  BY <1>7 DEF Lock
<1>8. ASSUME NEW p \in Claimants, Publish(p) PROVE Scanned'
  BY <1>8 DEF Publish
<1>9. ASSUME NEW p \in Claimants, KillClaimant(p) PROVE Scanned'
  BY <1>9 DEF KillClaimant
<1>10. ASSUME NEW p \in Claimants, ReuseId(p) PROVE Scanned'
  BY <1>10 DEF ReuseId
<1>11. CASE UNCHANGED pinVars BY <1>11 DEF pinVars
<1> QED BY <1>1, <1>2, <1>3, <1>4, <1>5, <1>6, <1>7, <1>8, <1>9, <1>10, <1>11 DEF PinNext, Claiming

\* A pin found locked is its owner's claim.
LEMMA BlockStep ==
  ASSUME PinTypeOK, LockedHeld, ClaimOnDisk, OnlyLiveBlock, [PinNext]_pinVars
  PROVE  OnlyLiveBlock'
<1> USE PinAssumption DEF PinTypeOK, LockedHeld, ClaimOnDisk, OnlyLiveBlock, Live, Inside, scan
<1>1. CASE Edit BY <1>1 DEF Edit
<1>2. ASSUME NEW p \in Claimants, ReadSource(p) PROVE OnlyLiveBlock'
  BY <1>2 DEF ReadSource
<1>3. ASSUME NEW p \in Claimants, Enter(p) PROVE OnlyLiveBlock'
  BY <1>3 DEF Enter
<1>4. ASSUME NEW p \in Claimants, NEW n \in Claimants, Examine(p, n) PROVE OnlyLiveBlock'
  BY <1>4 DEF Examine
<1>5. ASSUME NEW p \in Claimants, Refuse(p) PROVE OnlyLiveBlock'
  BY <1>5 DEF Refuse
<1>6. ASSUME NEW p \in Claimants, Open(p) PROVE OnlyLiveBlock'
  BY <1>6 DEF Open
<1>7. ASSUME NEW p \in Claimants, Lock(p) PROVE OnlyLiveBlock'
  BY <1>7 DEF Lock
<1>8. ASSUME NEW p \in Claimants, Publish(p) PROVE OnlyLiveBlock'
  BY <1>8 DEF Publish
<1>9. ASSUME NEW p \in Claimants, KillClaimant(p) PROVE OnlyLiveBlock'
  BY <1>9 DEF KillClaimant
<1>10. ASSUME NEW p \in Claimants, ReuseId(p) PROVE OnlyLiveBlock'
  BY <1>10 DEF ReuseId
<1>11. CASE UNCHANGED pinVars BY <1>11 DEF pinVars
<1> QED BY <1>1, <1>2, <1>3, <1>4, <1>5, <1>6, <1>7, <1>8, <1>9, <1>10, <1>11 DEF PinNext, Claiming

\* A claim is published only after a scan that left no disagreement.
LEMMA AgreeStep ==
  ASSUME PinTypeOK, WantKnown, Scanned, LivePinsAgree, [PinNext]_pinVars
  PROVE  LivePinsAgree'
<1> USE PinAssumption DEF PinTypeOK, WantKnown, Scanned, LivePinsAgree, Inside, scan
<1>1. CASE Edit BY <1>1 DEF Edit
<1>2. ASSUME NEW p \in Claimants, ReadSource(p) PROVE LivePinsAgree'
  BY <1>2 DEF ReadSource
<1>3. ASSUME NEW p \in Claimants, Enter(p) PROVE LivePinsAgree'
  BY <1>3 DEF Enter
<1>4. ASSUME NEW p \in Claimants, NEW n \in Claimants, Examine(p, n) PROVE LivePinsAgree'
  BY <1>4 DEF Examine
<1>5. ASSUME NEW p \in Claimants, Refuse(p) PROVE LivePinsAgree'
  BY <1>5 DEF Refuse
<1>6. ASSUME NEW p \in Claimants, Open(p) PROVE LivePinsAgree'
  BY <1>6 DEF Open
<1>7. ASSUME NEW p \in Claimants, Lock(p) PROVE LivePinsAgree'
  BY <1>7 DEF Lock
<1>8. ASSUME NEW p \in Claimants, Publish(p) PROVE LivePinsAgree'
  BY <1>8 DEF Publish
<1>9. ASSUME NEW p \in Claimants, KillClaimant(p) PROVE LivePinsAgree'
  BY <1>9 DEF KillClaimant
<1>10. ASSUME NEW p \in Claimants, ReuseId(p) PROVE LivePinsAgree'
  BY <1>10 DEF ReuseId
<1>11. CASE UNCHANGED pinVars BY <1>11 DEF pinVars
<1> QED BY <1>1, <1>2, <1>3, <1>4, <1>5, <1>6, <1>7, <1>8, <1>9, <1>10, <1>11 DEF PinNext, Claiming

LEMMA PinInvInductive == PinSpec => []PinInv
<1>1. PinInit => PinInv
  BY PinAssumption DEF PinInit, PinInv, PinTypeOK, WantKnown, LockedHeld, ClaimOnDisk, Scanned,
     OnlyLiveBlock, LivePinsAgree, Inside
<1>2. PinInv /\ [PinNext]_pinVars => PinInv'
  BY PinTypeStep, DiskStep, ScanStep, BlockStep, AgreeStep DEF PinInv
<1> QED BY <1>1, <1>2, PTL DEF PinSpec

-----------------------------------------------------------------------------
(* Theorems *)

\* The variables keep their types, and the registry lock has one holder.
THEOREM PinTypeCorrect == PinSpec => []PinTypeOK
<1>1. PinInv => PinTypeOK
  BY DEF PinInv
<1> QED BY <1>1, PinInvInductive, PTL

\* claim_source_pin never lets two live runs hold a checkout at different
\* source states, and no scan takes a live claim's pin away.
THEOREM PinsAgree == PinSpec => []PinsKept
<1>1. PinInv => PinsKept
  BY DEF PinInv, PinsKept
<1> QED BY <1>1, PinInvInductive, PTL

\* A claim is refused only for a run that was live during the scan.
THEOREM DeadBlockNobody == PinSpec => []OnlyLiveBlock
<1>1. PinInv => OnlyLiveBlock
  BY DEF PinInv
<1> QED BY <1>1, PinInvInductive, PTL

-----------------------------------------------------------------------------
(* The launches of one tree *)

Preparing == {"check", "write"}
Locking == {"lock", "remove", "remake", "pid"}
Trying == {"model", "build", "drive", "round", "turn"}

\* What a launch at each step holds: the backends locked so far, later all.
PassInv(p) ==
    /\ step[p] \in Preparing \cup Locking \cup Trying => now[p] \in use[p]
    /\ step[p] \in {"off"} \cup Preparing \cup Ended => own[p] = {}
    /\ step[p] \in Locking => own[p] = {b \in use[p] : b < now[p]}
    /\ step[p] \in Trying => own[p] = use[p]
    /\ MaxIterations > 0 => Cardinality(use[p]) <= MaxIterations

Tried(p) == ran[p] \cup stopped[p]

\* What its ensemble has done.
TriedInv(p) ==
    /\ step[p] \in {"off", "model", "build", "drive"} \cup Preparing \cup Locking =>
          Tried(p) = {} /\ total[p] = 0 /\ failed[p] = {}
    /\ step[p] = "drive" => Cardinality(use[p]) = 1
    /\ failed[p] \subseteq stopped[p]
    /\ Tried(p) \subseteq use[p]
    /\ step[p] = "round" => Tried(p) \in {{}, use[p]} /\ (Tried(p) = {} => total[p] = 0)
    /\ step[p] = "turn" =>
          /\ due[p] \subseteq use[p] \ stopped[p]
          /\ Tried(p) = use[p] \/ (due[p] = use[p] \ Tried(p) /\ total[p] <= Cardinality(Tried(p)))
    /\ step[p] = "done" /\ Cardinality(use[p]) > 1 => Tried(p) = use[p]

\* A lock with a launch's id is that launch's.
HeldInv ==
    \A p \in Launches, b \in Backends : locks[b].pid = p =>
        step[p] = "killed" \/ (Alive(p) /\ b \in own[p])

\* Who may be at a lock nobody raced for: its owner, one that is about to write
\* its pid, or one that takes a dead one over.
Sole(b) == \A p \in Launches :
    /\ Alive(p) /\ b \in own[p] => locks[b].dir /\ locks[b].pid = p
    /\ step[p] = "pid" /\ now[p] = b =>
          /\ locks[b].dir /\ locks[b].pid = Ownerless /\ ~locks[b].old
          /\ \A q \in Launches : step[q] = "pid" /\ now[q] = b => q = p
    /\ step[p] = "remove" /\ now[p] = b => locks[b].dir /\ Stale(locks[b])
    /\ p \in Taking(b) => Taking(b) = {p}
SoleInv == \A b \in Backends \ raced : Sole(b)

ScopeInv ==
    \A b \in Backends \ mixed : \A p \in Launches :
        step[p] = "write" /\ now[p] = b =>
            /\ config[b] \in {Unrecorded, scope[p]}
            /\ \A q \in Launches : step[q] = "write" /\ now[q] = b => q = p

LaunchInv ==
    /\ LaunchTypeOK /\ HeldInv /\ SoleInv /\ ScopeInv /\ LeftOutMarked
    /\ \A p \in Launches : PassInv(p) /\ TriedInv(p)

-----------------------------------------------------------------------------
(* Types *)

\* Going on to the next backend, or to the first one of the next pass.
LEMMA OnwardFacts ==
  ASSUME LaunchTypeOK, NEW p \in Launches, NEW here \in Pcs, NEW after \in Pcs, Onward(p, here, after)
  PROVE  \E b \in use[p] : \E s \in {here, after} :
            /\ now' = [now EXCEPT ![p] = b] /\ step' = [step EXCEPT ![p] = s]
            /\ \/ s = here /\ b > now[p] /\ \A c \in use[p] : c < b => c <= now[p]
               \/ s = after /\ (\A c \in use[p] : c <= now[p]) /\ \A c \in use[p] : b <= c
<1> DEFINE later == {b \in use[p] : b > now[p]}
<1>0. use[p] \subseteq Nat /\ now[p] \in Nat
  BY LaunchAssumption DEF LaunchTypeOK, Picks
<1>1. PICK b \in use[p] : First(b, IF later # {} THEN later ELSE use[p]) /\ now' = [now EXCEPT ![p] = b]
  BY DEF Onward
<1>4. step' = [step EXCEPT ![p] = IF later # {} THEN here ELSE after]
  BY DEF Onward, Fix
<1>2. CASE later # {}
  <2>1. b > now[p] /\ \A c \in use[p] : c < b => c <= now[p]
    BY <1>0, <1>1, <1>2 DEF First
  <2> QED BY <1>1, <1>2, <1>4, <2>1
<1>3. CASE later = {}
  <2>1. (\A c \in use[p] : c <= now[p]) /\ \A c \in use[p] : b <= c
    BY <1>0, <1>1, <1>3 DEF First
  <2> QED BY <1>1, <1>3, <1>4, <2>1
<1> QED BY <1>2, <1>3

LEMMA LaunchTypeStep == LaunchTypeOK /\ [LaunchNext]_launchVars => LaunchTypeOK'
<1> SUFFICES ASSUME LaunchTypeOK, [LaunchNext]_launchVars PROVE LaunchTypeOK'
  OBVIOUS
<1> USE LaunchAssumption DEF LaunchTypeOK, Fix, ensemble, files
<1>a. ASSUME NEW p \in Launches PROVE now[p] \in Backends
  OBVIOUS
<1>f. ASSUME NEW p \in Launches PROVE Released(p) \in [Backends -> InstanceLock]
  BY DEF Released, InstanceLock, NoLock, Ownerless
<1>q. ASSUME NEW p \in Launches, NEW s \in Pcs, Quit(p, s),
             mark' \subseteq Backends, begun' \subseteq Backends, UNCHANGED <<config, raced, mixed>>
      PROVE LaunchTypeOK'
  BY <1>f, <1>q DEF Quit, Picks
<1>t. ASSUME NEW p \in Launches, NEW s \in Pcs, To(p, s), locks' \in [Backends -> InstanceLock],
             mark' \subseteq Backends, begun' \subseteq Backends,
             raced' \subseteq Backends, mixed' \subseteq Backends, UNCHANGED config
      PROVE LaunchTypeOK'
  BY <1>t DEF To
<1>o. ASSUME NEW p \in Launches, NEW s \in Pcs, NEW t \in Pcs, Onward(p, s, t)
      PROVE  /\ step' \in [Launches -> Pcs] /\ now' \in [Launches -> Backends]
             /\ UNCHANGED <<scope, use, ensemble>>
  <2>1. PICK b \in use[p], r \in {s, t} : now' = [now EXCEPT ![p] = b] /\ step' = [step EXCEPT ![p] = r]
    BY <1>o, OnwardFacts
  <2>2. b \in Backends /\ r \in Pcs BY DEF Picks
  <2> QED BY <1>o, <2>1, <2>2 DEF Onward
<1>n. NoLock \in InstanceLock /\ [NoLock EXCEPT !.dir = TRUE] \in InstanceLock
  BY DEF NoLock, InstanceLock
<1>1. ASSUME NEW p \in Launches, NEW w \in Scopes, NEW s \in SUBSET Backends, Main(p, w, s)
      PROVE LaunchTypeOK'
  <2>1. CASE s = {} BY <1>1, <2>1, <1>t DEF Main, Pcs, Ended
  <2>2. CASE s # {}
    <3>1. PICK some \in SUBSET s : /\ use' = [use EXCEPT ![p] = some]
                                   /\ \E b \in some : now' = [now EXCEPT ![p] = b]
      BY <1>1, <2>2 DEF Main
    <3>2. use' \in [Launches -> Picks] /\ now' \in [Launches -> Backends] BY <3>1 DEF Picks
    <3>4. Fix(p, "check") /\ scope' = [scope EXCEPT ![p] = w] BY <1>1, <2>2 DEF Main
    <3>5. "check" \in Pcs /\ w \in Wants BY DEF Pcs, Wants
    <3>3. step' \in [Launches -> Pcs] /\ scope' \in [Launches -> Wants]
      BY <3>4, <3>5
    <3> QED BY <1>1, <2>2, <3>2, <3>3 DEF Main
  <2> QED BY <2>1, <2>2
<1>2. ASSUME NEW p \in Launches, Steps(p) PROVE LaunchTypeOK'
  <2>1. CASE Check(p)
    <3>1. PICK s \in Pcs : To(p, s) BY <2>1 DEF Check, Pcs, Ended
    <3> QED BY <2>1, <3>1, <1>t DEF Check
  <2>2. CASE Write(p)
    <3>1. Onward(p, "check", "lock") BY <2>2 DEF Write
    <3>2. config' \in [Backends -> Wants] BY <2>2 DEF Write
    <3> QED BY <2>2, <3>1, <3>2, <1>o DEF Write, Pcs
  <2>3. CASE Mkdir(p) 
    <3>1. CASE Fail(p) /\ UNCHANGED <<config, mark, begun, raced, mixed>> BY <3>1, <1>q DEF Pcs, Ended, Fail
    <3>2. CASE \E s \in {"pid", "remove"} : To(p, s) /\ locks' \in {locks, [locks EXCEPT ![now[p]] = [NoLock EXCEPT !.dir = TRUE]]}
      <4>1. locks' \in [Backends -> InstanceLock] BY <3>2, <1>n
      <4>2. raced' \subseteq Backends BY <2>3 DEF Mkdir
      <4>3. PICK s \in {"pid", "remove"} : To(p, s) BY <3>2
      <4> QED BY <2>3, <4>1, <4>2, <4>3, <1>t DEF Mkdir, Pcs
    <3> QED BY <2>3, <3>1, <3>2 DEF Mkdir
  <2>4. CASE Remove(p)
    <3>1. CASE Fail(p) BY <2>4, <3>1, <1>q DEF Remove, Pcs, Ended, Fail
    <3>2. CASE To(p, "remake") /\ locks' = [locks EXCEPT ![now[p]] = NoLock]
      BY <2>4, <3>2, <1>t, <1>n DEF Remove, Pcs
    <3> QED BY <2>4, <3>1, <3>2 DEF Remove
  <2>5. CASE Remake(p)
    <3>1. CASE Fail(p) BY <2>5, <3>1, <1>q DEF Remake, Pcs, Ended, Fail
    <3>2. CASE To(p, "pid") /\ locks' = [locks EXCEPT ![now[p]] = [NoLock EXCEPT !.dir = TRUE]]
      BY <2>5, <3>2, <1>t, <1>n DEF Remake, Pcs
    <3> QED BY <2>5, <3>1, <3>2 DEF Remake
  <2>6. CASE WritePid(p)
    <3>1. CASE locks[now[p]].dir
      <4>1. own' \in [Launches -> Picks] BY <2>6, <3>1 DEF WritePid, Picks
      <4>2. Onward(p, "lock", "model") /\ UNCHANGED tries BY <2>6, <3>1 DEF WritePid
      <4>4. [locks[now[p]] EXCEPT !.pid = p] \in InstanceLock BY DEF InstanceLock
      <4>3. locks' \in [Backends -> InstanceLock] BY <2>6, <3>1, <4>4 DEF WritePid
      <4> QED BY <2>6, <4>1, <4>2, <4>3, <1>o DEF WritePid, Pcs
    <3>2. CASE ~locks[now[p]].dir BY <2>6, <3>2, <1>q DEF WritePid, Pcs, Ended, Fail
    <3> QED BY <3>1, <3>2
  <2>7. ASSUME NEW a \in {"acted", "substituted", "rejected", "unsafe", "failed"}, Model(p, a)
        PROVE LaunchTypeOK'
    <3>1. CASE Fail(p)
      <4>1. mark' \subseteq Backends BY <2>7 DEF Model
      <4> QED BY <2>7, <3>1, <4>1, <1>q DEF Model, Pcs, Ended, Fail
    <3>2. CASE a = "acted"
      <4>1. Onward(p, "model", "build") BY <2>7, <3>2 DEF Model
      <4>2. tries' \in [Launches -> Nat] /\ mark' \subseteq Backends BY <2>7, <3>2 DEF Model
      <4>3. UNCHANGED <<own, locks>> BY <2>7, <3>2 DEF Model
      <4> QED BY <2>7, <4>1, <4>2, <4>3, <1>o DEF Model, Pcs
    <3>3. CASE a = "failed" /\ tries[p] + 1 < Attempts
      BY <2>7, <3>3 DEF Model
    <3> QED BY <2>7, <3>1, <3>2, <3>3 DEF Model
  <2>8. CASE Outdated(p) BY <2>8, <1>q DEF Outdated, Pcs, Ended, Fail
  <2>9. CASE Build(p)
    <3>1. CASE Fail(p) /\ UNCHANGED begun BY <2>9, <3>1, <1>q DEF Build, Pcs, Ended, Fail
    <3>2. CASE begun' = begun \cup use[p] /\ UNCHANGED locks /\ \E s \in {"drive", "round"} : To(p, s)
      <4>1. begun' \subseteq Backends BY <3>2 DEF Picks
      <4> QED BY <2>9, <3>2, <4>1, <1>t DEF Build, Pcs
    <3> QED BY <2>9, <3>1, <3>2 DEF Build
  <2>10. CASE Drive(p) BY <2>10, <1>q DEF Drive, Leave, Pcs, Ended
  <2>11. CASE Round(p)
    <3>1. CASE Leave(p) BY <2>11, <3>1, <1>q DEF Round, Leave, Pcs, Ended
    <3>2. CASE Fix(p, "turn") /\ due' = [due EXCEPT ![p] = use[p] \ stopped[p]]
               /\ UNCHANGED <<scope, use, now, tries, own, total, ran, stopped, failed, spent, streak, locks>>
      BY <2>11, <3>2 DEF Round, Pcs, Picks
    <3> QED BY <2>11, <3>1, <3>2 DEF Round
  <2>12. CASE EndRound(p) BY <2>12, <1>t DEF EndRound, Pcs
  <2>13. ASSUME NEW b \in due[p], Ran(p, b) \/ Rejected(p, b) \/ Capacity(p, b) \/ Transient(p, b)
         PROVE LaunchTypeOK'
    <3>1. b \in Backends BY DEF Picks
    <3>5. ASSUME Turn(p, b) PROVE due' \in [Launches -> Picks] BY <3>5 DEF Turn, Picks
    <3>2. ASSUME NEW stop \in BOOLEAN, NEW fail \in BOOLEAN, NEW n \in Nat, NEW end \in BOOLEAN,
                 Took(p, b, stop, fail, n, end), mark' \subseteq Backends, Turn(p, b), UNCHANGED Rest
          PROVE LaunchTypeOK'
      <4>1. total' \in [Launches -> Nat] /\ streak' \in [Launches -> Streaks]
        BY <3>1, <3>2 DEF Took, Streaks
      <4>2. ran' \in [Launches -> Picks] /\ stopped' \in [Launches -> Picks]
        BY <3>1, <3>2 DEF Took, Picks
      <4>3. failed' \in [Launches -> Picks] /\ spent' \in [Launches -> Picks]
        BY <3>1, <3>2 DEF Took, Picks
      <4> QED BY <3>2, <3>5, <4>1, <4>2, <4>3 DEF Rest
    <3>3. streak[p][b] \in Nat BY <3>1 DEF Streaks
    <3>4. mark' \subseteq Backends
      BY <2>13, <3>1 DEF Ran, Rejected, Capacity, Transient
    <3>6. CASE Ran(p, b)
      <4>1. CASE stopped' = [stopped EXCEPT ![p] = @ \cup {b}] /\ UNCHANGED <<total, ran, failed, spent, streak>>
        <5>1. stopped' \in [Launches -> Picks] BY <3>1, <4>1 DEF Picks
        <5> QED BY <3>6, <3>4, <3>5, <4>1, <5>1 DEF Ran, Rest
      <4> QED BY <3>6, <3>2, <3>3, <3>4, <4>1 DEF Ran
    <3>7. CASE Rejected(p, b) BY <3>2, <3>4, <3>7 DEF Rejected
    <3>8. CASE Capacity(p, b)
      <4>1. PICK out \in BOOLEAN, end \in BOOLEAN : Took(p, b, out, out, 0, end) BY <3>8 DEF Capacity
      <4> QED BY <3>2, <3>4, <3>8, <4>1 DEF Capacity
    <3>9. CASE Transient(p, b)
      <4> DEFINE n == streak[p][b] + 1
      <4>1. PICK over \in BOOLEAN : Took(p, b, over, over, n, FALSE)
        BY <3>9 DEF Transient
      <4>2. n \in Nat BY <3>3
      <4> HIDE DEF n
      <4> QED BY <3>2, <3>4, <3>9, <4>1, <4>2 DEF Transient
    <3> QED BY <2>13, <3>6, <3>7, <3>8, <3>9
  <2> QED BY <1>2, <2>1, <2>2, <2>3, <2>4, <2>5, <2>6, <2>7, <2>8, <2>9, <2>10, <2>11, <2>12, <2>13 DEF Steps
<1>3. ASSUME NEW p \in Launches, Signal(p) \/ KillLaunch(p) PROVE LaunchTypeOK'
  BY <1>3, <1>q, <1>t DEF Signal, KillLaunch, Pcs, Ended
<1>4. ASSUME NEW b \in Backends, Age(b) PROVE LaunchTypeOK'
  <2>1. locks' \in [Backends -> InstanceLock] BY <1>4 DEF Age, InstanceLock
  <2> QED BY <1>4, <2>1 DEF Age
<1>5. CASE UNCHANGED launchVars BY <1>5 DEF launchVars
<1> QED BY <1>1, <1>2, <1>3, <1>4, <1>5 DEF LaunchNext

LEMMA LaunchTypeInit == LaunchInit => LaunchTypeOK
<1> SUFFICES ASSUME LaunchInit PROVE LaunchTypeOK
  OBVIOUS
<1> USE LaunchAssumption DEF LaunchInit
<1>1. locks \in [Backends -> InstanceLock]
  <2>1. \A k \in {NoLock, [NoLock EXCEPT !.dir = TRUE, !.pid = Dead], [NoLock EXCEPT !.dir = TRUE, !.old = TRUE]} :
           k \in InstanceLock
    <3> DEFINE l == [NoLock EXCEPT !.dir = TRUE]
    <3>1. NoLock \in InstanceLock /\ l \in InstanceLock BY DEF NoLock, InstanceLock
    <3> HIDE DEF l
    <3>2. [l EXCEPT !.pid = Dead] \in InstanceLock /\ [l EXCEPT !.old = TRUE] \in InstanceLock BY <3>1 DEF InstanceLock
    <3> QED BY <3>1, <3>2 DEF l
  <2> QED BY <2>1
<1>2. config \in [Backends -> Wants] /\ scope \in [Launches -> Wants]
  BY DEF Wants
<1>3. streak \in [Launches -> Streaks] BY DEF Streaks
<1>4. "off" \in Pcs /\ {} \in Picks BY DEF Pcs, Picks
<1> QED BY <1>1, <1>2, <1>3, <1>4 DEF LaunchTypeOK

\* The variables of a launch, of the locks and of the trees keep their types.
THEOREM LaunchTypeCorrect == LaunchSpec => []LaunchTypeOK
<1> QED BY LaunchTypeInit, LaunchTypeStep, PTL DEF LaunchSpec

-----------------------------------------------------------------------------
(* The passes over the backends *)

\* A launch holds the locks of the backends its passes have come to.
LEMMA PassStep ==
  ASSUME LaunchTypeOK, [LaunchNext]_launchVars, NEW r \in Launches, PassInv(r)
  PROVE  PassInv(r)'
<1> USE LaunchAssumption DEF Fix, ensemble, files
<1>0. /\ step \in [Launches -> Pcs] /\ now \in [Launches -> Backends]
      /\ use \in [Launches -> Picks] /\ own \in [Launches -> Picks]
  BY DEF LaunchTypeOK
<1>u. ASSUME UNCHANGED <<step, use, now, own>> PROVE PassInv(r)'
  BY <1>u DEF PassInv
<1>q. ASSUME NEW p \in Launches, NEW s \in Ended, Quit(p, s) PROVE PassInv(r)'
  <2>1. CASE r = p
    <3>1. step'[r] = s /\ own'[r] = {} /\ use'[r] = use[r] BY <1>0, <1>q, <2>1 DEF Quit
    <3> QED BY <3>1 DEF PassInv, Ended, Preparing, Locking, Trying
  <2>2. CASE r # p
    <3>1. step'[r] = step[r] /\ own'[r] = own[r] /\ use'[r] = use[r] /\ now'[r] = now[r]
      BY <1>0, <1>q, <2>2 DEF Quit
    <3> QED BY <3>1 DEF PassInv
  <2> QED BY <2>1, <2>2
<1>t. ASSUME NEW p \in Launches, NEW s, To(p, s),
             \/ step[p] \in Preparing /\ s \in Preparing
             \/ step[p] \in Locking /\ s \in Locking
             \/ step[p] \in Trying /\ s \in Trying
             \/ step[p] \in {"off"} \cup Preparing /\ s \in Ended
             \/ s = "killed"
      PROVE  PassInv(r)'
  <2>1. CASE r = p
    <3>1. step'[r] = s /\ own'[r] = own[r] /\ use'[r] = use[r] /\ now'[r] = now[r]
      BY <1>0, <1>t, <2>1 DEF To
    <3> QED BY <1>t, <2>1, <3>1 DEF PassInv, Ended, Preparing, Locking, Trying
  <2>2. CASE r # p
    <3>1. step'[r] = step[r] /\ own'[r] = own[r] /\ use'[r] = use[r] /\ now'[r] = now[r]
      BY <1>0, <1>t, <2>2 DEF To
    <3> QED BY <3>1 DEF PassInv
  <2> QED BY <2>1, <2>2
<1>o. ASSUME NEW p \in Launches, NEW s \in Pcs, NEW t \in Pcs, Onward(p, s, t), r # p, own'[r] = own[r]
      PROVE  PassInv(r)'
  <2>1. step'[r] = step[r] /\ use'[r] = use[r] /\ now'[r] = now[r]
    BY <1>0, <1>o DEF Onward
  <2> QED BY <1>o, <2>1 DEF PassInv
<1>1. ASSUME NEW p \in Launches, NEW w \in Scopes, NEW s \in SUBSET Backends, Main(p, w, s)
      PROVE PassInv(r)'
  <2>1. CASE s = {} BY <1>1, <2>1, <1>t DEF Main, Ended
  <2>2. CASE s # {} /\ r = p
    <3>1. PICK some \in SUBSET s : /\ Chosen(some, s) /\ use' = [use EXCEPT ![p] = some]
                                   /\ \E b \in some : now' = [now EXCEPT ![p] = b]
      BY <1>1, <2>2 DEF Main
    <3>2. step'[r] = "check" /\ own'[r] = own[r] /\ step[r] = "off"
      BY <1>0, <1>1, <2>2 DEF Main
    <3>3. use'[r] = some /\ now'[r] \in some BY <1>0, <3>1, <2>2
    <3>4. MaxIterations > 0 => Cardinality(some) <= MaxIterations
      <4>1. IsFiniteSet(some) BY FS_Subset
      <4> QED BY <3>1, <4>1, FS_CardinalityType DEF Chosen
    <3> QED BY <3>2, <3>3, <3>4 DEF PassInv, Preparing, Locking, Trying, Ended
  <2>3. CASE s # {} /\ r # p
    <3>1. PICK some \in SUBSET s : /\ use' = [use EXCEPT ![p] = some]
                                   /\ \E b \in some : now' = [now EXCEPT ![p] = b]
      BY <1>1, <2>3 DEF Main
    <3>2. step'[r] = step[r] /\ own'[r] = own[r] BY <1>0, <1>1, <2>3 DEF Main
    <3>3. use'[r] = use[r] /\ now'[r] = now[r] BY <1>0, <3>1, <2>3
    <3> QED BY <3>2, <3>3 DEF PassInv
  <2> QED BY <2>1, <2>2, <2>3
<1>2. ASSUME NEW p \in Launches, Steps(p) PROVE PassInv(r)'
  <2>f. ASSUME Fail(p) PROVE PassInv(r)' BY <2>f, <1>q DEF Fail, Ended
  <2>1. CASE Check(p) BY <2>1, <1>t DEF Check, Preparing, Ended
  <2>2. CASE Write(p)
    <3>1. CASE r = p
      <4>1. PICK b \in use[p], s \in {"check", "lock"} :
               /\ now' = [now EXCEPT ![p] = b] /\ step' = [step EXCEPT ![p] = s]
               /\ s = "lock" => \A c \in use[p] : b <= c
        BY <2>2, OnwardFacts DEF Write, Pcs
      <4>2. now'[r] = b /\ step'[r] = s /\ use'[r] = use[r] /\ own'[r] = own[r]
        BY <1>0, <2>2, <3>1, <4>1 DEF Write, Onward
      <4>3. own[r] = {} BY <2>2, <3>1 DEF Write, PassInv, Preparing
      <4>4. s = "lock" => own'[r] = {c \in use[r] : c < b}
        <5>1. use[r] \subseteq Nat BY <1>0 DEF Picks
        <5> QED BY <5>1, <3>1, <4>1, <4>2, <4>3
      <4> QED BY <3>1, <4>1, <4>2, <4>3, <4>4 DEF PassInv, Preparing, Locking, Trying, Ended
    <3>2. CASE r # p BY <2>2, <3>2, <1>o DEF Write, Pcs
    <3> QED BY <3>1, <3>2
  <2>3. CASE Mkdir(p) BY <2>3, <2>f, <1>t DEF Mkdir, Locking
  <2>4. CASE Remove(p) BY <2>4, <2>f, <1>t DEF Remove, Locking
  <2>5. CASE Remake(p) BY <2>5, <2>f, <1>t DEF Remake, Locking
  <2>6. CASE WritePid(p)
    <3>1. CASE locks[now[p]].dir /\ r = p
      <4>6. Onward(p, "lock", "model") BY <2>6, <3>1 DEF WritePid
      <4>1. PICK b \in use[p], s \in {"lock", "model"} :
               /\ now' = [now EXCEPT ![p] = b] /\ step' = [step EXCEPT ![p] = s]
               /\ \/ s = "lock" /\ b > now[p] /\ \A c \in use[p] : c < b => c <= now[p]
                  \/ s = "model" /\ \A c \in use[p] : c <= now[p]
        BY <4>6, OnwardFacts DEF Pcs
      <4>2. now'[r] = b /\ step'[r] = s /\ use'[r] = use[r] /\ own'[r] = own[r] \cup {now[r]}
        BY <1>0, <2>6, <3>1, <4>1 DEF WritePid, Onward
      <4>3. own[r] = {c \in use[r] : c < now[r]} /\ now[r] \in use[r]
        BY <2>6, <3>1 DEF WritePid, PassInv, Locking
      <4>5. use[r] \subseteq Nat BY <1>0 DEF Picks
      <4>4. own'[r] = IF s = "lock" THEN {c \in use[r] : c < b} ELSE use[r]
        <5>1. own'[r] = {c \in use[r] : c <= now[r]} BY <4>2, <4>3, <4>5
        <5>2. now[r] \in Nat /\ b \in Nat /\ b \in use[r] BY <4>3, <4>5, <3>1
        <5>3. CASE s = "lock"
          <6>1. \A c \in use[r] : c <= now[r] <=> c < b BY <5>2, <5>3, <4>1, <4>5, <3>1
          <6> QED BY <5>1, <5>3, <6>1
        <5>4. CASE s = "model"
          <6>1. \A c \in use[r] : c <= now[r] BY <5>4, <4>1, <3>1
          <6> QED BY <5>1, <5>4, <6>1
        <5> QED BY <5>3, <5>4
      <4> QED BY <3>1, <4>1, <4>2, <4>4 DEF PassInv, Preparing, Locking, Trying, Ended
    <3>2. CASE locks[now[p]].dir /\ r # p
      <4>1. own'[r] = own[r] BY <1>0, <2>6, <3>2 DEF WritePid
      <4> QED BY <2>6, <3>2, <4>1, <1>o DEF WritePid, Pcs
    <3>3. CASE ~locks[now[p]].dir BY <2>6, <3>3, <2>f DEF WritePid
    <3> QED BY <3>1, <3>2, <3>3
  <2>7. ASSUME NEW a \in {"acted", "substituted", "rejected", "unsafe", "failed"}, Model(p, a)
        PROVE PassInv(r)'
    <3>1. CASE Fail(p) BY <3>1, <2>f
    <3>2. CASE a = "acted" /\ r = p
      <4>3. Onward(p, "model", "build") BY <2>7, <3>2 DEF Model
      <4>4. PICK b \in use[p], s \in {"model", "build"} :
               now' = [now EXCEPT ![p] = b] /\ step' = [step EXCEPT ![p] = s]
        BY <4>3 DEF Onward
      <4>2. now'[r] = b /\ step'[r] = s /\ use'[r] = use[r] /\ own'[r] = own[r] /\ step[r] = "model"
        BY <1>0, <2>7, <3>2, <4>4 DEF Model, Onward
      <4> QED BY <3>2, <4>4, <4>2 DEF PassInv, Preparing, Locking, Trying, Ended
    <3>3. CASE a = "acted" /\ r # p
      BY <2>7, <3>3, <1>o DEF Model, Pcs
    <3>4. CASE a = "failed" /\ tries[p] + 1 < Attempts
      BY <2>7, <3>4, <1>u DEF Model
    <3> QED BY <2>7, <3>1, <3>2, <3>3, <3>4 DEF Model
  <2>8. CASE Outdated(p) BY <2>8, <2>f DEF Outdated
  <2>9. CASE Build(p) BY <2>9, <2>f, <1>t DEF Build, Trying
  <2>10. CASE Drive(p) BY <2>10, <1>q DEF Drive, Leave, Ended
  <2>11. CASE Round(p)
    <3>1. CASE Leave(p) BY <3>1, <1>q DEF Leave, Ended
    <3>2. CASE Fix(p, "turn") /\ UNCHANGED <<use, now, own>>
      <4>1. step[p] = "round" BY <2>11 DEF Round
      <4> QED BY <1>0, <3>2, <4>1 DEF PassInv, Preparing, Locking, Trying, Ended
    <3> QED BY <2>11, <3>1, <3>2 DEF Round
  <2>12. CASE EndRound(p) BY <2>12, <1>t DEF EndRound, Trying
  <2>13. ASSUME NEW b \in due[p], Ran(p, b) \/ Rejected(p, b) \/ Capacity(p, b) \/ Transient(p, b)
         PROVE PassInv(r)'
    BY <2>13, <1>u DEF Ran, Rejected, Capacity, Transient, Rest
  <2> QED BY <1>2, <2>1, <2>2, <2>3, <2>4, <2>5, <2>6, <2>7, <2>8, <2>9, <2>10, <2>11, <2>12, <2>13 DEF Steps
<1>3. ASSUME NEW p \in Launches, Signal(p) \/ KillLaunch(p) PROVE PassInv(r)'
  BY <1>3, <1>q, <1>t DEF Signal, KillLaunch, Ended
<1>4. ASSUME NEW b \in Backends, Age(b) PROVE PassInv(r)'
  BY <1>4, <1>u DEF Age
<1>5. CASE UNCHANGED launchVars BY <1>5, <1>u DEF launchVars
<1> QED BY <1>1, <1>2, <1>3, <1>4, <1>5 DEF LaunchNext

-----------------------------------------------------------------------------
(* The turns of an ensemble *)

Early == {"off", "model", "build", "drive"} \cup Preparing \cup Locking

\* A turn of b, whatever it leaves, counts b as tried.
LEMMA TurnCounts ==
  ASSUME LaunchTypeOK, NEW p \in Launches, NEW b \in due[p], TriedInv(p), step[p] = "turn",
         Turn(p, b), UNCHANGED Rest,
         total'[p] \in {total[p], total[p] + 1},
         \E stop, fail \in BOOLEAN :
            /\ stopped'[p] = IF stop THEN stopped[p] \cup {b} ELSE stopped[p]
            /\ failed'[p] = IF fail THEN failed[p] \cup {b} ELSE failed[p]
            /\ fail => stop
            /\ Tried(p)' = Tried(p) \cup {b}
  PROVE  TriedInv(p)'
<1> USE LaunchAssumption
<1>1. /\ step'[p] = "turn" /\ use'[p] = use[p] /\ due'[p] = due[p] \ {b}
      /\ use[p] \subseteq Backends
  BY DEF Turn, Rest, LaunchTypeOK, Picks
<1>2. /\ Tried(p) \subseteq use[p] /\ b \in use[p] \ stopped[p] /\ failed[p] \subseteq stopped[p]
      /\ due[p] \subseteq use[p] \ stopped[p]
      /\ Tried(p) = use[p] \/ (due[p] = use[p] \ Tried(p) /\ total[p] <= Cardinality(Tried(p)))
  BY DEF TriedInv
<1>3. PICK stop \in BOOLEAN, fail \in BOOLEAN :
         /\ stopped'[p] = IF stop THEN stopped[p] \cup {b} ELSE stopped[p]
         /\ failed'[p] = IF fail THEN failed[p] \cup {b} ELSE failed[p]
         /\ fail => stop
         /\ Tried(p)' = Tried(p) \cup {b}
  OBVIOUS
<1>4. failed'[p] \subseteq stopped'[p] /\ Tried(p)' \subseteq use'[p]
  BY <1>1, <1>2, <1>3
<1>5. due'[p] \subseteq use'[p] \ stopped'[p]
  BY <1>1, <1>2, <1>3
<1>6. Tried(p)' = use'[p] \/ (due'[p] = use'[p] \ Tried(p)' /\ total'[p] <= Cardinality(Tried(p)'))
  <2>1. CASE Tried(p) = use[p] BY <2>1, <1>1, <1>2, <1>3
  <2>2. CASE due[p] = use[p] \ Tried(p) /\ total[p] <= Cardinality(Tried(p))
    <3>1. due'[p] = use'[p] \ Tried(p)' BY <2>2, <1>1, <1>3
    <3>2. IsFiniteSet(Tried(p)) BY <1>1, <1>2, FS_Subset
    <3>3. b \notin Tried(p) BY <2>2
    <3>4. Cardinality(Tried(p)') = Cardinality(Tried(p)) + 1 /\ Cardinality(Tried(p)) \in Nat
      BY <1>3, <3>2, <3>3, FS_AddElement, FS_CardinalityType
    <3>5. total[p] \in Nat BY DEF LaunchTypeOK
    <3>6. total'[p] <= Cardinality(Tried(p)') BY <2>2, <3>4, <3>5
    <3> QED BY <3>1, <3>6
  <2> QED BY <1>2, <2>1, <2>2
<1> QED BY <1>1, <1>4, <1>5, <1>6 DEF TriedInv, Preparing, Locking

\* A bounded round reaches every backend.
LEMMA TriedStep ==
  ASSUME LaunchTypeOK, [LaunchNext]_launchVars, NEW r \in Launches, PassInv(r), TriedInv(r)
  PROVE  TriedInv(r)'
<1> USE LaunchAssumption DEF Fix, ensemble, files
<1>0. /\ step \in [Launches -> Pcs] /\ use \in [Launches -> Picks] /\ due \in [Launches -> Picks]
      /\ ran \in [Launches -> Picks] /\ stopped \in [Launches -> Picks] /\ failed \in [Launches -> Picks]
      /\ total \in [Launches -> Nat]
  BY DEF LaunchTypeOK
<1>u. ASSUME step'[r] = step[r], use'[r] = use[r], UNCHANGED ensemble PROVE TriedInv(r)'
  BY <1>u DEF TriedInv, Tried
<1>c. ASSUME use'[r] = use[r], UNCHANGED ensemble,
             \/ step[r] \in Early /\ step'[r] \in (Early \cup {"round"}) \ {"drive"}
             \/ step[r] \in Early /\ step'[r] = "drive" /\ Cardinality(use[r]) = 1
             \/ step'[r] \in {"killed", "fatal", "signalled"}
             \/ step[r] = "drive" /\ step'[r] = "done"
             \/ step'[r] \in {"round", "done"} /\ Tried(r) = use[r] /\ use[r] # {}
      PROVE TriedInv(r)'
  <2>1. Tried(r)' = Tried(r) /\ total'[r] = total[r] /\ failed'[r] = failed[r] /\ stopped'[r] = stopped[r]
    BY <1>c DEF Tried
  <2>2. failed[r] \subseteq stopped[r] /\ Tried(r) \subseteq use[r]
    BY DEF TriedInv
  <2>3. step[r] \in Early => Tried(r) = {} /\ total[r] = 0 /\ failed[r] = {}
    BY DEF TriedInv, Early
  <2>4. CASE step[r] \in Early /\ step'[r] \in (Early \cup {"round"}) \ {"drive"}
    BY <1>c, <2>1, <2>2, <2>3, <2>4 DEF TriedInv, Early, Preparing, Locking
  <2>5. CASE step[r] \in Early /\ step'[r] = "drive" /\ Cardinality(use[r]) = 1
    BY <1>c, <2>1, <2>2, <2>3, <2>5 DEF TriedInv, Preparing, Locking
  <2>6. CASE step'[r] \in {"killed", "fatal", "signalled"}
    BY <1>c, <2>1, <2>2, <2>6 DEF TriedInv, Preparing, Locking
  <2>7. CASE step[r] = "drive" /\ step'[r] = "done"
    BY <1>c, <2>1, <2>2, <2>7 DEF TriedInv, Preparing, Locking
  <2>8. CASE step'[r] \in {"round", "done"} /\ Tried(r) = use[r] /\ use[r] # {}
    BY <1>c, <2>1, <2>2, <2>8 DEF TriedInv, Preparing, Locking
  <2> QED BY <1>c, <2>4, <2>5, <2>6, <2>7, <2>8
<1>q. ASSUME NEW p \in Launches, Quit(p, "fatal") \/ Quit(p, "signalled") \/ To(p, "killed")
      PROVE TriedInv(r)'
  <2>1. use'[r] = use[r] /\ UNCHANGED ensemble BY <1>q DEF Quit, To
  <2>2. step'[r] = step[r] \/ step'[r] \in {"killed", "fatal", "signalled"}
    BY <1>q, <1>0 DEF Quit, To
  <2> QED BY <2>1, <2>2, <1>u, <1>c
<1>e. ASSUME NEW p \in Launches, UNCHANGED <<use, ensemble>>, step[p] \in Early,
             NEW s \in (Early \cup {"round"}) \ {"drive"}, step' = [step EXCEPT ![p] = s]
      PROVE TriedInv(r)'
  <2>1. step'[r] = IF r = p THEN s ELSE step[r] BY <1>e, <1>0
  <2> QED BY <2>1, <1>e, <1>u, <1>c
<1>o. ASSUME NEW p \in Launches, NEW s \in Early \ {"drive"}, NEW t \in Early \ {"drive"}, Onward(p, s, t),
             step[p] \in Early
      PROVE TriedInv(r)'
  BY <1>o, <1>e DEF Onward
<1>1. ASSUME NEW p \in Launches, NEW w \in Scopes, NEW s \in SUBSET Backends, Main(p, w, s)
      PROVE TriedInv(r)'
  <2>1. CASE s = {}
    <3>1. To(p, "fatal") BY <1>1, <2>1 DEF Main
    <3>2. step'[r] = step[r] \/ step'[r] = "fatal" BY <3>1, <1>0 DEF To
    <3> QED BY <3>1, <3>2, <1>u, <1>c DEF To
  <2>2. CASE s # {}
    <3>1. Fix(p, "check") /\ UNCHANGED ensemble /\ step[p] = "off" /\ \E some \in SUBSET s : use' = [use EXCEPT ![p] = some]
      BY <1>1, <2>2 DEF Main
    <3>2. CASE r # p BY <3>1, <3>2, <1>0, <1>u
    <3>3. CASE r = p
      <4>1. Tried(p) = {} /\ total[p] = 0 /\ failed[p] = {} /\ stopped[p] = {} BY <3>1, <3>3 DEF TriedInv, Tried
      <4>2. step'[p] = "check" BY <3>1, <1>0
      <4> QED BY <3>1, <3>3, <4>1, <4>2 DEF TriedInv, Tried, Preparing, Locking
    <3> QED BY <3>2, <3>3
  <2> QED BY <2>1, <2>2
<1>2. ASSUME NEW p \in Launches, Steps(p) PROVE TriedInv(r)'
  <2>f. ASSUME Fail(p) PROVE TriedInv(r)' BY <2>f, <1>q DEF Fail
  <2>1. CASE Check(p)
    <3>1. CASE Refuses(p)
      <4>1. step'[r] = step[r] \/ step'[r] = "fatal" BY <2>1, <3>1, <1>0 DEF Check, To
      <4> QED BY <2>1, <4>1, <1>u, <1>c DEF Check, To
    <3>2. CASE ~Refuses(p) BY <2>1, <3>2, <1>e DEF Check, To, Early, Preparing
    <3> QED BY <3>1, <3>2
  <2>2. CASE Write(p) BY <2>2, <1>o DEF Write, Early, Preparing, Locking
  <2>3. CASE Mkdir(p) BY <2>3, <2>f, <1>e DEF Mkdir, To, Early, Locking
  <2>4. CASE Remove(p) BY <2>4, <2>f, <1>e DEF Remove, To, Early, Locking
  <2>5. CASE Remake(p) BY <2>5, <2>f, <1>e DEF Remake, To, Early, Locking
  <2>6. CASE WritePid(p) BY <2>6, <2>f, <1>o DEF WritePid, Early, Locking
  <2>7. ASSUME NEW a \in {"acted", "substituted", "rejected", "unsafe", "failed"}, Model(p, a)
        PROVE TriedInv(r)'
    <3>1. CASE Fail(p) BY <3>1, <2>f
    <3>2. CASE a = "acted"
      <4>1. Onward(p, "model", "build") /\ step[p] = "model" BY <2>7, <3>2 DEF Model
      <4> QED BY <4>1, <1>o DEF Early
    <3>3. CASE a = "failed" /\ tries[p] + 1 < Attempts BY <2>7, <3>3, <1>u DEF Model
    <3> QED BY <2>7, <3>1, <3>2, <3>3 DEF Model
  <2>8. CASE Outdated(p) BY <2>8, <2>f DEF Outdated
  <2>9. CASE Build(p)
    <3>1. CASE Fail(p) BY <3>1, <2>f
    <3>2. CASE To(p, "round") BY <2>9, <3>2, <1>e DEF Build, To, Early
    <3>3. CASE To(p, "drive") /\ Cardinality(use[p]) = 1
      <4>1. step'[r] = IF r = p THEN "drive" ELSE step[r] BY <3>3, <1>0 DEF To
      <4>2. step[p] = "build" /\ UNCHANGED <<use, ensemble>> BY <2>9, <3>3 DEF Build, To
      <4> QED BY <3>3, <4>1, <4>2, <1>u, <1>c DEF Early
    <3> QED BY <2>9, <3>1, <3>2, <3>3 DEF Build
  <2>10. CASE Drive(p)
    <3>1. UNCHANGED <<use, ensemble>> /\ step[p] = "drive" BY <2>10 DEF Drive, Leave, Quit
    <3>2. step'[r] = IF r = p THEN "done" ELSE step[r] BY <2>10, <1>0 DEF Drive, Leave, Quit
    <3> QED BY <3>1, <3>2, <1>u, <1>c
  <2>11. CASE Round(p)
    <3>0. step[p] = "round" BY <2>11 DEF Round
    <3>1. CASE Leave(p)
      <4>1. UNCHANGED <<use, ensemble>> BY <3>1 DEF Leave, Quit
      <4>2. step'[r] = IF r = p THEN "done" ELSE step[r] BY <3>1, <1>0 DEF Leave, Quit
      <4>3. CASE r # p BY <4>1, <4>2, <4>3, <1>u
      <4>4. CASE r = p
        <5>1. use[p] # {} /\ Tried(p) \in {{}, use[p]} /\ (Tried(p) = {} => total[p] = 0) /\ Tried(p) \subseteq use[p]
          BY <3>0, <4>4 DEF PassInv, TriedInv, Trying
        <5>2. use[p] \ stopped[p] = {} \/ (MaxIterations > 0 /\ total[p] >= MaxIterations)
          BY <2>11, <3>1, <1>0 DEF Round, Leave, Quit
        <5>3. Tried(p) = use[p] BY <5>1, <5>2 DEF Tried
        <5> QED BY <4>1, <4>2, <4>4, <5>1, <5>3, <1>c
      <4> QED BY <4>3, <4>4
    <3>2. CASE /\ Fix(p, "turn") /\ due' = [due EXCEPT ![p] = use[p] \ stopped[p]]
               /\ UNCHANGED <<use, total, ran, stopped, failed>>
      <4>1. CASE r # p BY <3>2, <4>1, <1>0 DEF TriedInv, Tried
      <4>2. CASE r = p
        <5>1. /\ step'[p] = "turn" /\ due'[p] = use[p] \ stopped[p]
              /\ UNCHANGED <<use, total, ran, stopped, failed>> /\ Tried(p)' = Tried(p)
          BY <3>2, <1>0 DEF Tried
        <5>2. /\ Tried(p) \in {{}, use[p]} /\ (Tried(p) = {} => total[p] = 0)
              /\ Tried(p) \subseteq use[p] /\ failed[p] \subseteq stopped[p]
          BY <3>0, <4>2 DEF TriedInv
        <5>3. Tried(p) = {} => stopped[p] = {} BY DEF Tried
        <5>4. Cardinality({}) = 0 BY FS_EmptySet
        <5> QED BY <4>2, <5>1, <5>2, <5>3, <5>4 DEF TriedInv, Preparing, Locking
      <4> QED BY <4>1, <4>2
    <3> QED BY <2>11, <3>1, <3>2 DEF Round
  <2>12. CASE EndRound(p)
    <3>1. UNCHANGED <<use, ensemble>> /\ step[p] = "turn" /\ ~More(p) BY <2>12 DEF EndRound, To
    <3>2. step'[r] = IF r = p THEN "round" ELSE step[r] BY <2>12, <1>0 DEF EndRound, To
    <3>3. CASE r # p BY <3>1, <3>2, <3>3, <1>u
    <3>4. CASE r = p
      <4>1. /\ use[p] # {} /\ Tried(p) \subseteq use[p]
            /\ Tried(p) = use[p] \/ (due[p] = use[p] \ Tried(p) /\ total[p] <= Cardinality(Tried(p)))
            /\ MaxIterations > 0 => Cardinality(use[p]) <= MaxIterations
        BY <3>1, <3>4 DEF PassInv, TriedInv, Trying
      <4>2. Tried(p) = use[p]
        <5>1. SUFFICES ASSUME Tried(p) # use[p] PROVE FALSE OBVIOUS
        <5>2. due[p] # {} BY <4>1, <5>1
        <5>3. IsFiniteSet(use[p]) BY <1>0, FS_Subset DEF Picks
        <5>4. Cardinality(Tried(p)) <= Cardinality(use[p]) /\ Cardinality(Tried(p)) # Cardinality(use[p])
          BY <4>1, <5>1, <5>3, FS_Subset
        <5>5. Cardinality(Tried(p)) \in Nat /\ Cardinality(use[p]) \in Nat
          BY <4>1, <5>3, FS_Subset, FS_CardinalityType
        <5>6. MaxIterations > 0 /\ total[p] >= MaxIterations BY <1>0, <3>1, <5>2 DEF More
        <5>7. total[p] <= Cardinality(Tried(p)) /\ Cardinality(use[p]) <= MaxIterations BY <4>1, <5>1, <5>6
        <5> QED BY <1>0, <5>4, <5>5, <5>6, <5>7
      <4> QED BY <3>1, <3>2, <3>4, <4>1, <4>2, <1>c
    <3> QED BY <3>3, <3>4
  <2>13. ASSUME NEW b \in due[p], Ran(p, b) \/ Rejected(p, b) \/ Capacity(p, b) \/ Transient(p, b)
         PROVE TriedInv(r)'
    <3>1. Turn(p, b) /\ UNCHANGED Rest /\ step[p] = "turn"
      BY <2>13 DEF Ran, Rejected, Capacity, Transient, Turn
    <3>2. \/ \E stop, fail \in BOOLEAN : (fail => stop) /\ \E n, end : Took(p, b, stop, fail, n, end)
          \/ stopped' = [stopped EXCEPT ![p] = @ \cup {b}] /\ UNCHANGED <<total, ran, failed>>
      <4>1. CASE Ran(p, b) BY <4>1 DEF Ran
      <4>2. CASE Rejected(p, b) BY <4>2 DEF Rejected
      <4>3. CASE Capacity(p, b) BY <4>3 DEF Capacity
      <4>4. CASE Transient(p, b) BY <4>4 DEF Transient
      <4> QED BY <2>13, <4>1, <4>2, <4>3, <4>4
    <3>3. CASE r # p
      <4>1. due'[r] = due[r] BY <1>0, <3>1, <3>3 DEF Turn
      <4>2. total'[r] = total[r] /\ ran'[r] = ran[r] /\ stopped'[r] = stopped[r] /\ failed'[r] = failed[r]
        BY <1>0, <3>2, <3>3 DEF Took
      <4> QED BY <3>1, <4>1, <4>2 DEF Rest, TriedInv, Tried
    <3>4. CASE r = p
      <4>1. ASSUME NEW stop \in BOOLEAN, NEW fail \in BOOLEAN, fail => stop, NEW n, NEW end,
                   Took(p, b, stop, fail, n, end)
            PROVE TriedInv(p)'
        <5>1. /\ total'[p] = total[p] + 1 /\ ran'[p] = ran[p] \cup {b}
              /\ stopped'[p] = IF stop THEN stopped[p] \cup {b} ELSE stopped[p]
              /\ failed'[p] = IF fail THEN failed[p] \cup {b} ELSE failed[p]
          BY <1>0, <4>1 DEF Took
        <5>2. Tried(p)' = Tried(p) \cup {b} BY <5>1 DEF Tried
        <5> QED BY <3>1, <3>4, <4>1, <5>1, <5>2, TurnCounts
      <4>2. CASE stopped' = [stopped EXCEPT ![p] = @ \cup {b}] /\ UNCHANGED <<total, ran, failed>>
        <5>1. stopped'[p] = (IF TRUE THEN stopped[p] \cup {b} ELSE stopped[p]) /\ total'[p] = total[p]
              /\ failed'[p] = (IF FALSE THEN failed[p] \cup {b} ELSE failed[p])
          BY <1>0, <4>2
        <5>2. Tried(p)' = Tried(p) \cup {b} BY <5>1, <4>2 DEF Tried
        <5> QED BY <3>1, <3>4, <5>1, <5>2, TurnCounts
      <4> QED BY <3>2, <3>4, <4>1, <4>2
    <3> QED BY <3>3, <3>4
  <2> QED BY <1>2, <2>1, <2>2, <2>3, <2>4, <2>5, <2>6, <2>7, <2>8, <2>9, <2>10, <2>11, <2>12, <2>13 DEF Steps
<1>3. ASSUME NEW p \in Launches, Signal(p) \/ KillLaunch(p) PROVE TriedInv(r)'
  BY <1>3, <1>q DEF Signal, KillLaunch
<1>4. ASSUME NEW b \in Backends, Age(b) PROVE TriedInv(r)'
  BY <1>4, <1>u DEF Age
<1>5. CASE UNCHANGED launchVars BY <1>5, <1>u DEF launchVars
<1> QED BY <1>1, <1>2, <1>3, <1>4, <1>5 DEF LaunchNext

-----------------------------------------------------------------------------
(* The instance locks *)

\* What a step does to the others, to a dead launch and to the locks' pids.
LEMMA LockFacts ==
  ASSUME LaunchTypeOK, [LaunchNext]_launchVars, \A p \in Launches : PassInv(p), HeldInv
  PROVE  HeldInv' /\ \A p \in Launches : step[p] = "killed" => step'[p] = "killed"
<1> USE LaunchAssumption DEF Fix, ensemble, files
<1>0. /\ step \in [Launches -> Pcs] /\ own \in [Launches -> Picks] /\ locks \in [Backends -> InstanceLock]
      /\ now \in [Launches -> Backends]
  BY DEF LaunchTypeOK
<1>1. Ownerless \notin Launches
  BY DEF Ownerless
<1> DEFINE Good == HeldInv' /\ \A p \in Launches : step[p] = "killed" => step'[p] = "killed"
           Going == Preparing \cup Locking \cup Trying
<1>a. \A p : Alive(p) <=> p \in Launches /\ step[p] \in Going
  BY <1>0 DEF Alive, Pcs, Ended, Preparing, Locking, Trying
<1>b. ASSUME NEW p \in Launches, step'[p] \in Going PROVE Alive(p)'
  BY <1>b DEF Alive, Ended, Preparing, Locking, Trying
\* A step of p that no other launch sees in its fields.
<1>g. ASSUME NEW p \in Launches, NEW s \in Pcs, step' = [step EXCEPT ![p] = s],
             step[p] # "killed", \A q \in Launches \ {p} : own'[q] = own[q],
             \A b \in Backends : \/ locks'[b].pid = locks[b].pid /\ locks[b].pid # p
                                 \/ locks'[b].pid = Ownerless
                                 \/ locks'[b].pid = p /\ (s = "killed" \/ (s \in Going /\ b \in own'[p]))
      PROVE Good
  <2>1. step'[p] = s /\ \A q \in Launches \ {p} : step'[q] = step[q] BY <1>0, <1>g
  <2>2. ASSUME NEW q \in Launches, NEW b \in Backends, locks'[b].pid = q
        PROVE step'[q] = "killed" \/ (Alive(q)' /\ b \in own'[q])
    <3>1. CASE locks'[b].pid = p /\ (s = "killed" \/ (s \in Going /\ b \in own'[p]))
      BY <2>1, <2>2, <3>1, <1>b
    <3>2. CASE locks'[b].pid = locks[b].pid /\ locks[b].pid # p
      <4>1. q # p /\ step'[q] = step[q] /\ own'[q] = own[q] BY <2>1, <2>2, <3>2, <1>g
      <4>2. step[q] = "killed" \/ (Alive(q) /\ b \in own[q]) BY <2>2, <3>2 DEF HeldInv
      <4> QED BY <4>1, <4>2, <1>a, <1>b
    <3>3. CASE locks'[b].pid = Ownerless BY <2>2, <3>3, <1>1
    <3> QED BY <1>g, <3>1, <3>2, <3>3
  <2>3. ASSUME NEW q \in Launches, step[q] = "killed" PROVE step'[q] = "killed" BY <1>g, <2>1, <2>3
  <2> QED BY <2>2, <2>3 DEF HeldInv
<1>u. ASSUME UNCHANGED <<step, own>>, \A b \in Backends : locks'[b].pid = locks[b].pid PROVE Good
  BY <1>u DEF HeldInv, Alive
\* Before the lock of b is taken, no lock of p's.
<1>p. ASSUME NEW p \in Launches, NEW b \in Backends, locks[b].pid = p, step[p] # "killed"
      PROVE step[p] \in Going /\ b \in own[p]
  BY <1>p, <1>a DEF HeldInv
<1>q. ASSUME NEW p \in Launches, NEW s \in Pcs, Quit(p, s), step[p] # "killed" PROVE Good
  <2>1. \A q \in Launches \ {p} : own'[q] = own[q] BY <1>0, <1>q DEF Quit
  <2>2. ASSUME NEW b \in Backends
        PROVE locks'[b].pid = Ownerless \/ (locks'[b].pid = locks[b].pid /\ locks[b].pid # p)
    <3>1. locks'[b] = IF b \in own[p] /\ locks[b].pid = p THEN NoLock ELSE locks[b] BY <1>q DEF Quit, Released
    <3>2. NoLock.pid = Ownerless BY DEF NoLock
    <3> QED BY <3>1, <3>2, <1>q, <1>p
  <2> QED BY <1>q, <1>g, <2>1, <2>2 DEF Quit
<1>t. ASSUME NEW p \in Launches, NEW s \in Pcs, Fix(p, s), UNCHANGED own, step[p] # "killed",
             s \in Going \cup {"killed"} \/ step[p] \in {"off", "check"},
             \A b \in Backends : locks'[b].pid \in {locks[b].pid, Ownerless}
      PROVE Good
  <2>1. ASSUME NEW b \in Backends, locks'[b].pid = locks[b].pid, locks[b].pid = p
        PROVE s = "killed" \/ (s \in Going /\ b \in own'[p])
    <3>1. step[p] \in Going /\ b \in own[p] BY <1>t, <2>1, <1>p
    <3>2. step[p] # "check" BY <3>1 DEF PassInv, Preparing
    <3>3. step[p] # "off" BY <3>1 DEF Preparing, Locking, Trying
    <3> QED BY <1>t, <3>1, <3>2, <3>3
  <2>2. \A b \in Backends : \/ locks'[b].pid = locks[b].pid /\ locks[b].pid # p
                            \/ locks'[b].pid = Ownerless
                            \/ locks'[b].pid = p /\ (s = "killed" \/ (s \in Going /\ b \in own'[p]))
    BY <1>t, <2>1
  <2>3. step' = [step EXCEPT ![p] = s] /\ \A q \in Launches \ {p} : own'[q] = own[q] BY <1>t
  <2> HIDE DEF Good, Going
  <2> QED BY <1>t, <1>g, <2>2, <2>3
<1>o. ASSUME NEW p \in Launches, NEW s \in Pcs, NEW t \in Pcs, Onward(p, s, t), s \in Going, t \in Going,
             step[p] # "killed", UNCHANGED <<own, locks>>
      PROVE Good
  BY <1>o, <1>t DEF Onward
<1>2. ASSUME NEW p \in Launches, NEW w \in Scopes, NEW s \in SUBSET Backends, Main(p, w, s) PROVE Good
  <2>1. PICK t \in {"fatal", "check"} : Fix(p, t) /\ UNCHANGED <<own, locks>> /\ step[p] = "off"
    BY <1>2 DEF Main, To
  <2>2. t \in Pcs BY DEF Pcs, Ended
  <2> QED BY <2>1, <2>2, <1>t
<1>3. ASSUME NEW p \in Launches, Steps(p) PROVE Good
  <2>f. ASSUME Fail(p), step[p] # "killed" PROVE Good BY <2>f, <1>q DEF Fail, Pcs, Ended
  <2>1. CASE Check(p)
    <3>1. PICK t \in {"fatal", "write"} : Fix(p, t) /\ UNCHANGED <<own, locks>> /\ step[p] = "check"
      BY <2>1 DEF Check, To
    <3>2. t \in Pcs BY DEF Pcs, Ended
    <3> QED BY <3>1, <3>2, <1>t
  <2>2. CASE Write(p) BY <2>2, <1>o DEF Write, Pcs, Preparing, Locking
  <2>l. ASSUME NEW s \in Locking, To(p, s), step[p] # "killed",
               \A b \in Backends : locks'[b] = locks[b] \/ locks'[b].pid = Ownerless
        PROVE Good
    BY <2>l, <1>t DEF To, Pcs, Locking
  <2>n. NoLock.pid = Ownerless /\ [NoLock EXCEPT !.dir = TRUE].pid = Ownerless BY DEF NoLock
  <2>3. CASE Mkdir(p) BY <2>3, <2>f, <2>l, <2>n, <1>0 DEF Mkdir, Locking
  <2>4. CASE Remove(p) BY <2>4, <2>f, <2>l, <2>n, <1>0 DEF Remove, Locking
  <2>5. CASE Remake(p) BY <2>5, <2>f, <2>l, <2>n, <1>0 DEF Remake, Locking
  <2>6. CASE WritePid(p)
    <3>1. CASE locks[now[p]].dir
      <4>1. PICK s \in {"lock", "model"} : step' = [step EXCEPT ![p] = s]
        <5>1. Onward(p, "lock", "model") BY <2>6, <3>1 DEF WritePid
        <5> QED BY <5>1 DEF Onward
      <4>2. s \in Going /\ s \in Pcs BY DEF Locking, Trying, Pcs
      <4>3. own' = [own EXCEPT ![p] = @ \cup {now[p]}] /\ step[p] = "pid" BY <2>6, <3>1 DEF WritePid
      <4>4. \A b \in Backends : locks'[b].pid = IF b = now[p] THEN p ELSE locks[b].pid
        BY <1>0, <2>6, <3>1 DEF WritePid, InstanceLock
      <4>5. ASSUME NEW b \in Backends, locks[b].pid = p PROVE b \in own[p] BY <4>3, <4>5, <1>p
      <4>6. own'[p] = own[p] \cup {now[p]} /\ \A q \in Launches \ {p} : own'[q] = own[q] BY <1>0, <4>3
      <4>7. \A b \in Backends : locks'[b].pid = p => b \in own'[p] BY <4>4, <4>5, <4>6
      <4>8. \A b \in Backends : \/ locks'[b].pid = locks[b].pid /\ locks[b].pid # p
                                \/ locks'[b].pid = Ownerless
                                \/ locks'[b].pid = p /\ (s = "killed" \/ (s \in Going /\ b \in own'[p]))
        BY <4>2, <4>4, <4>7
      <4>9. step[p] # "killed" BY <4>3
      <4> HIDE DEF Good, Going
      <4> QED BY <1>g, <4>1, <4>2, <4>6, <4>8, <4>9
    <3>2. CASE ~locks[now[p]].dir BY <2>6, <3>2, <2>f DEF WritePid
    <3> QED BY <3>1, <3>2
  <2>7. ASSUME NEW a \in {"acted", "substituted", "rejected", "unsafe", "failed"}, Model(p, a) PROVE Good
    <3>0. step[p] = "model" BY <2>7 DEF Model
    <3>1. CASE Fail(p) BY <3>0, <3>1, <2>f
    <3>2. CASE a = "acted"
      <4>1. Onward(p, "model", "build") /\ UNCHANGED <<own, locks>> BY <2>7, <3>2 DEF Model
      <4> QED BY <3>0, <4>1, <1>o DEF Pcs, Trying
    <3>3. CASE a = "failed" /\ tries[p] + 1 < Attempts BY <2>7, <3>3, <1>u DEF Model
    <3> QED BY <2>7, <3>1, <3>2, <3>3 DEF Model
  <2>8. CASE Outdated(p) BY <2>8, <2>f DEF Outdated
  <2>9. CASE Build(p)
    <3>1. CASE Fail(p) BY <2>9, <3>1, <2>f DEF Build
    <3>2. CASE UNCHANGED locks /\ \E s \in {"drive", "round"} : To(p, s)
      BY <2>9, <3>2, <1>t DEF Build, To, Pcs, Trying
    <3> QED BY <2>9, <3>1, <3>2 DEF Build
  <2>10. CASE Drive(p) BY <2>10, <1>q DEF Drive, Leave, Pcs, Ended
  <2>11. CASE Round(p)
    <3>1. CASE Leave(p) BY <2>11, <3>1, <1>q DEF Round, Leave, Pcs, Ended
    <3>2. CASE Fix(p, "turn") /\ UNCHANGED <<own, locks>> BY <2>11, <3>2, <1>t DEF Round, Pcs, Trying
    <3> QED BY <2>11, <3>1, <3>2 DEF Round
  <2>12. CASE EndRound(p) BY <2>12, <1>t DEF EndRound, To, Pcs, Trying
  <2>13. ASSUME NEW b \in due[p], Ran(p, b) \/ Rejected(p, b) \/ Capacity(p, b) \/ Transient(p, b)
         PROVE Good
    BY <2>13, <1>u DEF Ran, Rejected, Capacity, Transient, Rest
  <2> QED BY <1>3, <2>1, <2>2, <2>3, <2>4, <2>5, <2>6, <2>7, <2>8, <2>9, <2>10, <2>11, <2>12, <2>13 DEF Steps
<1>4. ASSUME NEW p \in Launches, Signal(p) \/ KillLaunch(p) PROVE Good
  <2>1. step[p] # "killed" BY <1>4 DEF Signal, KillLaunch, Alive
  <2>2. CASE Signal(p) BY <2>1, <2>2, <1>q DEF Signal, Pcs, Ended
  <2>3. CASE KillLaunch(p) BY <2>1, <2>3, <1>t DEF KillLaunch, To, Pcs
  <2> QED BY <1>4, <2>2, <2>3
<1>5. ASSUME NEW b \in Backends, Age(b) PROVE Good
  <2>1. \A c \in Backends : locks'[c].pid = locks[c].pid BY <1>0, <1>5 DEF Age, InstanceLock
  <2> QED BY <1>5, <2>1, <1>u DEF Age
<1>6. CASE UNCHANGED launchVars BY <1>6, <1>u DEF launchVars
<1> QED BY <1>2, <1>3, <1>4, <1>5, <1>6 DEF LaunchNext

LEMMA HistoryGrows == ASSUME [LaunchNext]_launchVars PROVE raced \subseteq raced' /\ mixed \subseteq mixed'
<1> USE DEF files
<1>1. ASSUME NEW p \in Launches, Steps(p) PROVE raced \subseteq raced' /\ mixed \subseteq mixed'
  <2>1. CASE Check(p) \/ Write(p) BY <2>1 DEF Check, Write
  <2>2. CASE Mkdir(p) BY <2>2 DEF Mkdir
  <2>3. CASE Remove(p) \/ Remake(p) \/ WritePid(p) BY <2>3 DEF Remove, Remake, WritePid
  <2>4. CASE \E a \in {"acted", "substituted", "rejected", "unsafe", "failed"} : Model(p, a) BY <2>4 DEF Model
  <2>5. CASE Outdated(p) \/ Build(p) BY <2>5 DEF Outdated, Build
  <2>6. CASE Drive(p) \/ Round(p) \/ EndRound(p) BY <2>6 DEF Drive, Round, EndRound
  <2>7. CASE \E b \in due[p] : Ran(p, b) \/ Rejected(p, b) \/ Capacity(p, b) \/ Transient(p, b)
    BY <2>7 DEF Ran, Rejected, Capacity, Transient, Rest
  <2> QED BY <1>1, <2>1, <2>2, <2>3, <2>4, <2>5, <2>6, <2>7 DEF Steps
<1>2. ASSUME NEW p \in Launches, NEW w \in Scopes, NEW s \in SUBSET Backends, Main(p, w, s)
      PROVE raced \subseteq raced' /\ mixed \subseteq mixed'
  BY <1>2 DEF Main
<1>3. ASSUME NEW p \in Launches, Signal(p) \/ KillLaunch(p) PROVE raced \subseteq raced' /\ mixed \subseteq mixed'
  BY <1>3 DEF Signal, KillLaunch
<1>4. ASSUME NEW b \in Backends, Age(b) PROVE raced \subseteq raced' /\ mixed \subseteq mixed'
  BY <1>4 DEF Age
<1>5. CASE UNCHANGED launchVars BY <1>5 DEF launchVars
<1> QED BY <1>1, <1>2, <1>3, <1>4, <1>5 DEF LaunchNext

\* A step that leaves b's lock, brings nobody new to it and revives nobody.
LEMMA SoleQuiet ==
  ASSUME LaunchTypeOK, NEW b \in Backends, Sole(b), locks'[b] = locks[b],
         \A q \in Launches : Alive(q)' /\ b \in own'[q] => Alive(q) /\ b \in own[q],
         \A q \in Launches : step'[q] \in {"pid", "remove", "remake"} /\ now'[q] = b =>
                                step'[q] = step[q] /\ now[q] = b,
         \A q \in Launches : locks[b].pid = q /\ ~Alive(q) => ~Alive(q)'
  PROVE  Sole(b)'
<1> SUFFICES ASSUME NEW p \in Launches
             PROVE  /\ Alive(p)' /\ b \in own'[p] => locks'[b].dir /\ locks'[b].pid = p
                    /\ step'[p] = "pid" /\ now'[p] = b =>
                          /\ locks'[b].dir /\ locks'[b].pid = Ownerless /\ ~locks'[b].old
                          /\ \A q \in Launches : step'[q] = "pid" /\ now'[q] = b => q = p
                    /\ step'[p] = "remove" /\ now'[p] = b => locks'[b].dir /\ Stale(locks[b])'
                    /\ p \in Taking(b)' => Taking(b)' = {p}
  BY DEF Sole
<1>1. Alive(p)' /\ b \in own'[p] => locks'[b].dir /\ locks'[b].pid = p
  BY DEF Sole
<1>2. step'[p] = "pid" /\ now'[p] = b =>
         /\ locks'[b].dir /\ locks'[b].pid = Ownerless /\ ~locks'[b].old
         /\ \A q \in Launches : step'[q] = "pid" /\ now'[q] = b => q = p
  BY DEF Sole
<1>3. step'[p] = "remove" /\ now'[p] = b => locks'[b].dir /\ Stale(locks[b])'
  <2>1. SUFFICES ASSUME step'[p] = "remove", now'[p] = b PROVE locks'[b].dir /\ Stale(locks[b])'
    OBVIOUS
  <2>2. locks[b].dir /\ Stale(locks[b]) BY <2>1 DEF Sole
  <2>3. locks[b].pid \in Launches \/ ~Alive(locks[b].pid)' BY DEF Alive
  <2> QED BY <2>2, <2>3 DEF Stale
<1>4. p \in Taking(b)' => Taking(b)' = {p}
  BY DEF Sole, Taking
<1> QED BY <1>1, <1>2, <1>3, <1>4

\* Only the one that took a lock works on its backend.
LEMMA SoleStep ==
  ASSUME LaunchTypeOK, [LaunchNext]_launchVars, HeldInv, SoleInv, \A p \in Launches : PassInv(p)
  PROVE  SoleInv'
<1> USE LaunchAssumption DEF Fix, ensemble, files
<1>0. /\ step \in [Launches -> Pcs] /\ own \in [Launches -> Picks] /\ locks \in [Backends -> InstanceLock]
      /\ now \in [Launches -> Backends] /\ use \in [Launches -> Picks]
  BY DEF LaunchTypeOK
<1>d. ASSUME NEW b \in Backends, NEW q \in Launches, locks[b].pid = q, ~Alive(q) PROVE ~Alive(q)'
  <2>1. step[q] = "killed" BY <1>d DEF HeldInv
  <2>2. step'[q] = "killed" BY <2>1, LockFacts
  <2> QED BY <2>2 DEF Alive
<1>i. Ownerless \notin Launches BY DEF Ownerless
<1> SUFFICES ASSUME NEW b \in Backends, b \notin raced' PROVE Sole(b)'
  BY DEF SoleInv
<1>r. SUFFICES ASSUME Sole(b) PROVE Sole(b)'
  <2> QED BY HistoryGrows DEF SoleInv
\* A step of p that does not come to b's lock.
<1>g. ASSUME NEW p \in Launches, \A q \in Launches \ {p} : step'[q] = step[q] /\ now'[q] = now[q] /\ own'[q] = own[q],
             locks'[b] = locks[b],
             Alive(p)' /\ b \in own'[p] => Alive(p) /\ b \in own[p],
             step'[p] \in {"pid", "remove", "remake"} => now'[p] # b
      PROVE Sole(b)'
  <2>1. \A q \in Launches : Alive(q)' /\ b \in own'[q] => Alive(q) /\ b \in own[q] BY <1>g DEF Alive
  <2>2. \A q \in Launches : step'[q] \in {"pid", "remove", "remake"} /\ now'[q] = b =>
                               step'[q] = step[q] /\ now[q] = b
    BY <1>g
  <2> QED BY <1>g, <1>r, <1>d, <2>1, <2>2, SoleQuiet
<1>u. ASSUME UNCHANGED <<step, now, own>>, locks'[b] = locks[b] PROVE Sole(b)'
  BY <1>u, <1>r, <1>d, SoleQuiet DEF Alive
\* Leaving gives b's lock back if it is p's.
<1>q. ASSUME NEW p \in Launches, NEW s \in Ended, Quit(p, s), Alive(p) PROVE Sole(b)'
  <2>1. /\ \A q \in Launches \ {p} : step'[q] = step[q] /\ now'[q] = now[q] /\ own'[q] = own[q]
        /\ step'[p] = s /\ own'[p] = {}
        /\ locks'[b] = IF b \in own[p] /\ locks[b].pid = p THEN NoLock ELSE locks[b]
    BY <1>0, <1>q DEF Quit, Released
  <2>2. CASE ~(b \in own[p] /\ locks[b].pid = p)
    BY <2>1, <2>2, <1>g DEF Ended
  <2>3. CASE b \in own[p] /\ locks[b].pid = p
    <3>1. \A q \in Launches : ~(Alive(q)' /\ b \in own'[q])
      BY <1>r, <2>1, <2>3 DEF Sole, Alive
    <3>2. \A q \in Launches : ~(step'[q] \in {"pid", "remove"} /\ now'[q] = b)
      BY <1>r, <1>i, <1>q, <2>1, <2>3 DEF Sole, Alive, Stale, Ended
    <3>3. Taking(b)' \subseteq Taking(b) BY <2>1 DEF Taking, Ended
    <3>4. \A q \in Launches : q \in Taking(b)' => Taking(b)' = {q} BY <1>r, <3>3 DEF Sole
    <3> QED BY <3>1, <3>2, <3>4 DEF Sole
  <2> QED BY <2>2, <2>3
\* A step among the other steps.
<1>t. ASSUME NEW p \in Launches, NEW s, Fix(p, s), s \notin {"pid", "remove", "remake"}, UNCHANGED <<own, locks>>,
             \A q \in Launches \ {p} : now'[q] = now[q],
             Alive(p) \/ own[p] = {} \/ s \in Ended
      PROVE Sole(b)'
  <2>1. step'[p] = s /\ \A q \in Launches \ {p} : step'[q] = step[q] BY <1>0, <1>t
  <2>2. Alive(p)' /\ b \in own'[p] => Alive(p) /\ b \in own[p] BY <1>t, <2>1 DEF Alive
  <2> QED BY <1>t, <1>g, <2>1, <2>2
<1>o. ASSUME NEW p \in Launches, NEW s \in Pcs, NEW t \in Pcs, Onward(p, s, t), Alive(p),
             {s, t} \cap {"pid", "remove", "remake"} = {}, UNCHANGED <<own, locks>>
      PROVE Sole(b)'
  <2>1. PICK c \in use[p], r \in {s, t} : now' = [now EXCEPT ![p] = c] /\ Fix(p, r)
    BY <1>o DEF Onward
  <2> QED BY <1>0, <1>o, <1>t, <2>1
<1>1. ASSUME NEW p \in Launches, NEW w \in Scopes, NEW s \in SUBSET Backends, Main(p, w, s) PROVE Sole(b)'
  <2>1. PICK t \in {"fatal", "check"} : Fix(p, t) /\ UNCHANGED <<own, locks>> /\ step[p] = "off"
    BY <1>1 DEF Main, To
  <2>2. \A q \in Launches \ {p} : now'[q] = now[q] BY <1>0, <1>1 DEF Main, To
  <2>3. own[p] = {} BY <2>1 DEF PassInv
  <2> QED BY <2>1, <2>2, <2>3, <1>t
<1>2. ASSUME NEW p \in Launches, Steps(p) PROVE Sole(b)'
  <2>f. ASSUME Fail(p), Alive(p) PROVE Sole(b)' BY <2>f, <1>q DEF Fail, Ended
  <2>1. CASE Check(p)
    <3>1. PICK t \in {"fatal", "write"} : Fix(p, t) /\ UNCHANGED <<own, locks, now>> /\ step[p] = "check"
      BY <2>1 DEF Check, To
    <3>2. own[p] = {} BY <3>1 DEF PassInv, Preparing
    <3> QED BY <3>1, <3>2, <1>t
  <2>2. CASE Write(p)
    <3>1. Alive(p) BY <2>2 DEF Write, Alive, Ended
    <3>2. Onward(p, "check", "lock") /\ UNCHANGED <<own, locks>> BY <2>2 DEF Write
    <3> QED BY <3>1, <3>2, <1>o DEF Pcs
  \* A step of the lock of b itself.
  <2>l. ASSUME NEW s \in {"pid", "remove", "remake"}, To(p, s), step[p] \in Locking, now[p] = b
        PROVE  /\ step'[p] = s /\ now'[p] = b /\ own'[p] = own[p] /\ b \notin own[p]
               /\ \A q \in Launches \ {p} : step'[q] = step[q] /\ now'[q] = now[q] /\ own'[q] = own[q]
    <3>1. b \notin own[p]
      <4>1. own[p] = {c \in use[p] : c < b} /\ b \in Nat BY <2>l DEF PassInv
      <4> QED BY <4>1
    <3> QED BY <1>0, <2>l, <3>1 DEF To
  <2>k. ASSUME step[p] \in Locking, now[p] # b, locks'[b] = locks[b], \E s : To(p, s) PROVE Sole(b)'
    <3>1. /\ UNCHANGED <<now, own>> /\ \A q \in Launches \ {p} : step'[q] = step[q]
      BY <1>0, <2>k DEF To
    <3>2. Alive(p) BY <2>k DEF Alive, Locking, Ended
    <3> QED BY <2>k, <3>1, <3>2, <1>g
  \* The directory made.
  <2>m. ASSUME step[p] \in {"lock", "remake"}, now[p] = b, ~locks[b].dir, To(p, "pid"),
               locks' = [locks EXCEPT ![b] = [NoLock EXCEPT !.dir = TRUE]]
        PROVE Sole(b)'
    <3>1. /\ step'[p] = "pid" /\ now'[p] = b /\ own'[p] = own[p] /\ b \notin own[p]
          /\ \A q \in Launches \ {p} : step'[q] = step[q] /\ now'[q] = now[q] /\ own'[q] = own[q]
      BY <2>m, <2>l DEF Locking
    <3>2. locks'[b].dir /\ locks'[b].pid = Ownerless /\ ~locks'[b].old
      BY <1>0, <2>m DEF NoLock
    <3>3. \A q \in Launches : ~(Alive(q)' /\ b \in own'[q]) BY <1>r, <2>m, <3>1 DEF Sole, Alive
    <3>4. \A q \in Launches \ {p} : ~(step'[q] = "pid" /\ now'[q] = b) BY <1>r, <2>m, <3>1 DEF Sole
    <3>5. \A q \in Launches : ~(step'[q] = "remove" /\ now'[q] = b) BY <1>r, <2>m, <3>1 DEF Sole
    <3>6. Taking(b)' \subseteq Taking(b) BY <3>1 DEF Taking
    <3>7. \A q \in Launches : q \in Taking(b)' => Taking(b)' = {q} BY <1>r, <3>6 DEF Sole
    <3> QED BY <3>1, <3>2, <3>3, <3>4, <3>5, <3>7 DEF Sole
  <2>3. CASE Mkdir(p)
    <3>0. step[p] = "lock" /\ Alive(p) BY <2>3 DEF Mkdir, Alive, Ended
    <3>1. CASE Fail(p) BY <3>0, <3>1, <2>f
    <3>2. CASE ~locks[now[p]].dir /\ locks' = [locks EXCEPT ![now[p]] = [NoLock EXCEPT !.dir = TRUE]] /\ To(p, "pid")
      BY <1>0, <3>0, <3>2, <2>m, <2>k DEF Locking
    <3>3. CASE /\ locks[now[p]].dir /\ Stale(locks[now[p]]) /\ To(p, "remove") /\ UNCHANGED locks
               /\ raced' = IF Taking(now[p]) # {} THEN raced \cup {now[p]} ELSE raced
      <4>1. CASE now[p] # b BY <3>0, <3>3, <4>1, <2>k DEF Locking
      <4>2. CASE now[p] = b
        <5>1. /\ step'[p] = "remove" /\ now'[p] = b /\ own'[p] = own[p] /\ b \notin own[p]
              /\ \A q \in Launches \ {p} : step'[q] = step[q] /\ now'[q] = now[q] /\ own'[q] = own[q]
          BY <3>0, <3>3, <4>2, <2>l DEF Locking
        <5>2. Taking(b) = {} BY <3>3, <4>2
        <5>3. Taking(b)' = {p} BY <5>1, <5>2 DEF Taking
        <5>4. \A q \in Launches : Alive(q)' <=> Alive(q)
          BY <3>0, <5>1 DEF Alive, Ended
        <5>5. locks'[b].dir /\ Stale(locks[b])'
          <6>1. Alive(locks[b].pid)' <=> Alive(locks[b].pid) BY <5>4, <3>3 DEF Alive
          <6> QED BY <3>3, <4>2, <6>1 DEF Stale
        <5>6. \A q \in Launches : Alive(q)' /\ b \in own'[q] => locks'[b].dir /\ locks'[b].pid = q
          BY <1>r, <3>3, <5>1, <5>4 DEF Sole
        <5>7. \A q \in Launches : step'[q] = "pid" /\ now'[q] = b =>
                 /\ locks'[b].dir /\ locks'[b].pid = Ownerless /\ ~locks'[b].old
                 /\ \A r \in Launches : step'[r] = "pid" /\ now'[r] = b => r = q
          BY <1>r, <3>3, <5>1 DEF Sole
        <5> QED BY <5>3, <5>5, <5>6, <5>7 DEF Sole
      <4> QED BY <4>1, <4>2
    <3> QED BY <2>3, <3>1, <3>2, <3>3 DEF Mkdir
  <2>4. CASE Remove(p)
    <3>0. step[p] = "remove" /\ Alive(p) BY <2>4 DEF Remove, Alive, Ended
    <3>1. CASE Fail(p) BY <3>0, <3>1, <2>f
    <3>2. CASE locks' = [locks EXCEPT ![now[p]] = NoLock] /\ To(p, "remake")
      <4>1. CASE now[p] # b BY <1>0, <3>0, <3>2, <4>1, <2>k DEF Locking
      <4>2. CASE now[p] = b
        <5>1. /\ step'[p] = "remake" /\ now'[p] = b /\ own'[p] = own[p] /\ b \notin own[p]
              /\ \A q \in Launches \ {p} : step'[q] = step[q] /\ now'[q] = now[q] /\ own'[q] = own[q]
          BY <3>0, <3>2, <4>2, <2>l DEF Locking
        <5>2. Stale(locks[b]) /\ locks[b].dir /\ p \in Taking(b) BY <1>r, <3>0, <4>2 DEF Sole, Taking
        <5>3. Taking(b) = {p} BY <1>r, <5>2 DEF Sole
        <5>4. Taking(b)' = {p} BY <5>1, <5>3 DEF Taking
        <5>5. \A q \in Launches : ~(Alive(q)' /\ b \in own'[q])
          BY <1>r, <1>i, <5>1, <5>2 DEF Sole, Stale, Alive
        <5>6. \A q \in Launches : ~(step'[q] = "pid" /\ now'[q] = b) BY <1>r, <5>1, <5>2 DEF Sole, Stale
        <5>7. \A q \in Launches : ~(step'[q] = "remove" /\ now'[q] = b) BY <5>1, <5>4 DEF Taking
        <5> QED BY <5>4, <5>5, <5>6, <5>7 DEF Sole
      <4> QED BY <4>1, <4>2
    <3> QED BY <2>4, <3>1, <3>2 DEF Remove
  <2>5. CASE Remake(p)
    <3>0. step[p] = "remake" /\ Alive(p) BY <2>5 DEF Remake, Alive, Ended
    <3>1. CASE Fail(p) BY <3>0, <3>1, <2>f
    <3>2. CASE ~locks[now[p]].dir /\ locks' = [locks EXCEPT ![now[p]] = [NoLock EXCEPT !.dir = TRUE]] /\ To(p, "pid")
      BY <1>0, <3>0, <3>2, <2>m, <2>k DEF Locking
    <3> QED BY <2>5, <3>1, <3>2 DEF Remake
  <2>6. CASE WritePid(p)
    <3>0. step[p] = "pid" /\ Alive(p) BY <2>6 DEF WritePid, Alive, Ended
    <3>1. CASE Fail(p) BY <3>0, <3>1, <2>f
    <3>2. CASE locks[now[p]].dir
      <4>1. Onward(p, "lock", "model") BY <2>6, <3>2 DEF WritePid
      <4>2. PICK c \in use[p], s \in {"lock", "model"} : now' = [now EXCEPT ![p] = c] /\ Fix(p, s)
        BY <4>1 DEF Onward
      <4>3. /\ \A q \in Launches \ {p} : step'[q] = step[q] /\ now'[q] = now[q] /\ own'[q] = own[q]
            /\ step'[p] = s /\ own'[p] = own[p] \cup {now[p]}
        BY <1>0, <2>6, <3>2, <4>2 DEF WritePid
      <4>4. CASE now[p] # b
        <5>1. locks'[b] = locks[b] BY <1>0, <2>6, <3>2, <4>4 DEF WritePid
        <5> QED BY <3>0, <4>3, <4>4, <5>1, <1>g
      <4>5. CASE now[p] = b
        <5>1. locks'[b].dir /\ locks'[b].pid = p BY <1>0, <2>6, <3>2, <4>5 DEF WritePid, InstanceLock
        <5>2. locks[b].pid = Ownerless /\ ~locks[b].old BY <1>r, <3>0, <4>5 DEF Sole
        <5>3. \A q \in Launches : Alive(q)' /\ b \in own'[q] => q = p
          BY <1>r, <1>i, <4>3, <5>2 DEF Sole, Alive
        <5>4. \A q \in Launches : ~(step'[q] = "pid" /\ now'[q] = b) BY <1>r, <3>0, <4>3, <4>5 DEF Sole
        <5>5. \A q \in Launches : ~(step'[q] = "remove" /\ now'[q] = b) BY <1>r, <4>3, <5>2 DEF Sole, Stale
        <5>6. Taking(b)' = Taking(b) BY <3>0, <4>3 DEF Taking
        <5>7. \A q \in Launches : q \in Taking(b)' => Taking(b)' = {q} BY <1>r, <5>6 DEF Sole
        <5> QED BY <5>1, <5>3, <5>4, <5>5, <5>7 DEF Sole
      <4> QED BY <4>4, <4>5
    <3> QED BY <2>6, <3>1, <3>2 DEF WritePid
  <2>7. ASSUME NEW a \in {"acted", "substituted", "rejected", "unsafe", "failed"}, Model(p, a) PROVE Sole(b)'
    <3>0. step[p] = "model" /\ Alive(p) BY <2>7 DEF Model, Alive, Ended
    <3>1. CASE Fail(p) BY <3>0, <3>1, <2>f
    <3>2. CASE a = "acted"
      <4>1. Onward(p, "model", "build") /\ UNCHANGED <<own, locks>> BY <2>7, <3>2 DEF Model
      <4> QED BY <3>0, <4>1, <1>o DEF Pcs
    <3>3. CASE a = "failed" /\ tries[p] + 1 < Attempts BY <2>7, <3>3, <1>u DEF Model
    <3> QED BY <2>7, <3>1, <3>2, <3>3 DEF Model
  <2>8. CASE Outdated(p)
    <3>1. Alive(p) BY <2>8 DEF Outdated, Alive, Ended
    <3> QED BY <2>8, <3>1, <2>f DEF Outdated
  <2>9. CASE Build(p)
    <3>0. Alive(p) BY <2>9 DEF Build, Alive, Ended
    <3>1. CASE Fail(p) BY <3>0, <3>1, <2>f
    <3>2. CASE UNCHANGED locks /\ \E s \in {"drive", "round"} : To(p, s) BY <3>0, <3>2, <1>t DEF To
    <3> QED BY <2>9, <3>1, <3>2 DEF Build
  <2>10. CASE Drive(p)
    <3>1. Alive(p) BY <2>10 DEF Drive, Alive, Ended
    <3> QED BY <2>10, <3>1, <1>q DEF Drive, Leave, Ended
  <2>11. CASE Round(p)
    <3>0. Alive(p) BY <2>11 DEF Round, Alive, Ended
    <3>1. CASE Leave(p) BY <3>0, <3>1, <1>q DEF Leave, Ended
    <3>2. CASE Fix(p, "turn") /\ UNCHANGED <<own, locks, now>> BY <3>0, <3>2, <1>t
    <3> QED BY <2>11, <3>1, <3>2 DEF Round
  <2>12. CASE EndRound(p)
    <3>1. Alive(p) BY <2>12 DEF EndRound, Alive, Ended
    <3> QED BY <2>12, <3>1, <1>t DEF EndRound, To
  <2>13. ASSUME NEW c \in due[p], Ran(p, c) \/ Rejected(p, c) \/ Capacity(p, c) \/ Transient(p, c)
         PROVE Sole(b)'
    BY <2>13, <1>u DEF Ran, Rejected, Capacity, Transient, Rest
  <2> QED BY <1>2, <2>1, <2>2, <2>3, <2>4, <2>5, <2>6, <2>7, <2>8, <2>9, <2>10, <2>11, <2>12, <2>13 DEF Steps
<1>3. ASSUME NEW p \in Launches, Signal(p) \/ KillLaunch(p) PROVE Sole(b)'
  <2>1. CASE Signal(p) BY <2>1, <1>q DEF Signal, Ended
  <2>2. CASE KillLaunch(p) BY <2>2, <1>t DEF KillLaunch, To
  <2> QED BY <1>3, <2>1, <2>2
<1>4. ASSUME NEW c \in Backends, Age(c) PROVE Sole(b)'
  <2>1. CASE b # c
    <3>1. locks'[b] = locks[b] BY <1>0, <1>4, <2>1 DEF Age
    <3> QED BY <1>4, <3>1, <1>u DEF Age
  <2>2. CASE b = c
    <3>1. UNCHANGED <<step, now, own>> /\ locks[b].pid = Ownerless /\ locks[b].dir BY <1>4, <2>2 DEF Age
    <3>2. locks'[b].dir /\ locks'[b].pid = Ownerless /\ locks'[b].old BY <1>0, <1>4, <2>2 DEF Age, InstanceLock
    <3>3. \A q \in Launches : ~(step[q] = "pid" /\ now[q] = b) BY <1>4, <2>2 DEF Age
    <3>4. \A q \in Launches : ~(Alive(q) /\ b \in own[q]) BY <1>r, <1>i, <3>1 DEF Sole
    <3>5. Taking(b)' = Taking(b) BY <3>1 DEF Taking
    <3>6. \A q \in Launches : q \in Taking(b)' => Taking(b)' = {q} BY <1>r, <3>5 DEF Sole
    <3>7. \A q \in Launches : ~(Alive(q)' /\ b \in own'[q]) BY <3>1, <3>4 DEF Alive
    <3>8. Stale(locks[b])' BY <3>2 DEF Stale
    <3> QED BY <3>1, <3>2, <3>3, <3>6, <3>7, <3>8 DEF Sole
  <2> QED BY <2>1, <2>2
<1>5. CASE UNCHANGED launchVars BY <1>5, <1>u DEF launchVars
<1> QED BY <1>1, <1>2, <1>3, <1>4, <1>5 DEF LaunchNext

-----------------------------------------------------------------------------
(* Recorded scopes and marks *)

\* The launch about to record its scope over another's: there is none, unless
\* two prepared the tree at once.
LEMMA ScopeStep ==
  ASSUME LaunchTypeOK, [LaunchNext]_launchVars, ScopeInv
  PROVE  /\ ScopeInv'
         /\ \A b \in Backends : config[b] \in {Unrecorded, config'[b]} \/ b \in mixed
<1> USE LaunchAssumption DEF Fix, ensemble, files
<1>0. /\ step \in [Launches -> Pcs] /\ now \in [Launches -> Backends] /\ config \in [Backends -> Wants]
      /\ scope \in [Launches -> Wants]
  BY DEF LaunchTypeOK
<1> SUFFICES ASSUME NEW b \in Backends
             PROVE  /\ b \notin mixed' => \A p \in Launches : step'[p] = "write" /\ now'[p] = b =>
                          /\ config'[b] \in {Unrecorded, scope'[p]}
                          /\ \A q \in Launches : step'[q] = "write" /\ now'[q] = b => q = p
                    /\ config[b] \in {Unrecorded, config'[b]} \/ b \in mixed
  BY DEF ScopeInv
<1> DEFINE Kept == /\ b \notin mixed' => \A p \in Launches : step'[p] = "write" /\ now'[p] = b =>
                          /\ config'[b] \in {Unrecorded, scope'[p]}
                          /\ \A q \in Launches : step'[q] = "write" /\ now'[q] = b => q = p
                   /\ config[b] \in {Unrecorded, config'[b]} \/ b \in mixed
<1> SUFFICES Kept OBVIOUS
<1>h. b \notin mixed' => b \notin mixed BY HistoryGrows
<1>w. ASSUME NEW p \in Launches, step[p] = "write", now[p] = b, b \notin mixed
      PROVE  /\ config[b] \in {Unrecorded, scope[p]}
             /\ \A q \in Launches : step[q] = "write" /\ now[q] = b => q = p
  <2>1. b \in Backends \ mixed BY <1>w
  <2> QED BY <1>w, <2>1 DEF ScopeInv
<1>g. ASSUME config'[b] = config[b],
             \A q \in Launches : step'[q] = "write" /\ now'[q] = b =>
                                    step[q] = "write" /\ now[q] = b /\ scope'[q] = scope[q]
      PROVE Kept
  BY <1>g, <1>h DEF ScopeInv
<1>t. ASSUME NEW p \in Launches, NEW s, Fix(p, s), s # "write", UNCHANGED config,
             \A q \in Launches \ {p} : now'[q] = now[q] /\ scope'[q] = scope[q]
      PROVE Kept
  <2>1. step'[p] = s /\ \A q \in Launches \ {p} : step'[q] = step[q] BY <1>0, <1>t
  <2> QED BY <1>t, <1>g, <2>1
<1>u. ASSUME UNCHANGED <<step, now, scope, config>> PROVE Kept
  BY <1>u, <1>g
<1>q. ASSUME NEW p \in Launches, NEW s \in Ended, Quit(p, s), UNCHANGED config PROVE Kept
  BY <1>q, <1>t DEF Quit, Ended
<1>o. ASSUME NEW p \in Launches, NEW s, NEW t, Onward(p, s, t), {s, t} \cap {"write"} = {}, UNCHANGED config
      PROVE Kept
  <2>1. PICK c \in use[p], r \in {s, t} : now' = [now EXCEPT ![p] = c] /\ Fix(p, r)
    BY <1>o DEF Onward
  <2>2. UNCHANGED scope BY <1>o DEF Onward
  <2> QED BY <1>0, <1>o, <1>t, <2>1, <2>2
<1>1. ASSUME NEW p \in Launches, NEW w \in Scopes, NEW s \in SUBSET Backends, Main(p, w, s) PROVE Kept
  <2>1. PICK t \in {"fatal", "check"} : Fix(p, t) /\ UNCHANGED config
    BY <1>1 DEF Main, To
  <2>2. \A q \in Launches \ {p} : now'[q] = now[q] /\ scope'[q] = scope[q] BY <1>0, <1>1 DEF Main, To
  <2> QED BY <2>1, <2>2, <1>t
<1>2. ASSUME NEW p \in Launches, Steps(p) PROVE Kept
  <2>f. ASSUME Fail(p), UNCHANGED config PROVE Kept BY <2>f, <1>q DEF Fail, Ended
  <2>1. CASE Check(p)
    <3>1. CASE Refuses(p)
      <4>1. Fix(p, "fatal") /\ UNCHANGED <<now, scope, config>> BY <2>1, <3>1 DEF Check, To
      <4> QED BY <4>1, <1>t
    <3>2. CASE ~Refuses(p)
      <4>1. Fix(p, "write") /\ UNCHANGED <<now, scope, config>> BY <2>1, <3>2 DEF Check, To
      <4>2. step'[p] = "write" /\ \A q \in Launches \ {p} : step'[q] = step[q] BY <1>0, <4>1
      <4>3. CASE now[p] # b BY <4>1, <4>2, <4>3, <1>g
      <4>4. CASE now[p] = b
        <5>1. config[b] \in {Unrecorded, scope[p]} BY <3>2, <4>4 DEF Refuses
        <5>2. b \notin mixed' => \A q \in Launches \ {p} : ~(step[q] = "write" /\ now[q] = b)
          BY <2>1, <3>2, <4>4 DEF Check
        <5> QED BY <4>1, <4>2, <4>4, <5>1, <5>2
      <4> QED BY <4>3, <4>4
    <3> QED BY <3>1, <3>2
  <2>2. CASE Write(p)
    <3>1. PICK c \in use[p], s \in {"check", "lock"} : now' = [now EXCEPT ![p] = c] /\ Fix(p, s)
      BY <2>2 DEF Write, Onward
    <3>2. UNCHANGED scope /\ step[p] = "write" BY <2>2 DEF Write, Onward
    <3>3. step'[p] = s /\ \A q \in Launches \ {p} : step'[q] = step[q] /\ now'[q] = now[q] BY <1>0, <3>1
    <3>4. CASE now[p] # b
      <4>1. config'[b] = config[b] BY <1>0, <2>2, <3>4 DEF Write
      <4> QED BY <3>1, <3>2, <3>3, <4>1, <1>g
    <3>5. CASE now[p] = b
      <4>1. config'[b] = scope[p] BY <1>0, <2>2, <3>5 DEF Write
      <4>2. b \notin mixed => /\ config[b] \in {Unrecorded, scope[p]}
                              /\ \A q \in Launches : step[q] = "write" /\ now[q] = b => q = p
        BY <3>2, <3>5, <1>w
      <4>3. b \notin mixed' => \A q \in Launches : ~(step'[q] = "write" /\ now'[q] = b)
        BY <1>h, <3>1, <3>3, <4>2
      <4> QED BY <4>1, <4>2, <4>3
    <3> QED BY <3>4, <3>5
  <2>3. CASE Mkdir(p) BY <2>3, <2>f, <1>t DEF Mkdir, To
  <2>4. CASE Remove(p) BY <2>4, <2>f, <1>t DEF Remove, To
  <2>5. CASE Remake(p) BY <2>5, <2>f, <1>t DEF Remake, To
  <2>6. CASE WritePid(p) BY <2>6, <2>f, <1>o DEF WritePid
  <2>7. ASSUME NEW a \in {"acted", "substituted", "rejected", "unsafe", "failed"}, Model(p, a) PROVE Kept
    <3>1. CASE Fail(p) BY <2>7, <3>1, <2>f DEF Model
    <3>2. CASE a = "acted"
      <4>1. Onward(p, "model", "build") /\ UNCHANGED config BY <2>7, <3>2 DEF Model
      <4> QED BY <4>1, <1>o
    <3>3. CASE a = "failed" /\ tries[p] + 1 < Attempts BY <2>7, <3>3, <1>u DEF Model
    <3> QED BY <2>7, <3>1, <3>2, <3>3 DEF Model
  <2>8. CASE Outdated(p) BY <2>8, <2>f DEF Outdated
  <2>9. CASE Build(p)
    <3>1. CASE Fail(p) BY <2>9, <3>1, <2>f DEF Build
    <3>2. CASE UNCHANGED config /\ \E s \in {"drive", "round"} : To(p, s) BY <3>2, <1>t DEF To
    <3> QED BY <2>9, <3>1, <3>2 DEF Build
  <2>10. CASE Drive(p) BY <2>10, <1>q DEF Drive, Leave, Ended
  <2>11. CASE Round(p)
    <3>1. CASE Leave(p) BY <2>11, <3>1, <1>q DEF Round, Leave, Ended
    <3>2. CASE Fix(p, "turn") /\ UNCHANGED <<now, scope>> BY <2>11, <3>2, <1>t DEF Round
    <3> QED BY <2>11, <3>1, <3>2 DEF Round
  <2>12. CASE EndRound(p) BY <2>12, <1>t DEF EndRound, To
  <2>13. ASSUME NEW c \in due[p], Ran(p, c) \/ Rejected(p, c) \/ Capacity(p, c) \/ Transient(p, c) PROVE Kept
    BY <2>13, <1>u DEF Ran, Rejected, Capacity, Transient, Rest
  <2> QED BY <1>2, <2>1, <2>2, <2>3, <2>4, <2>5, <2>6, <2>7, <2>8, <2>9, <2>10, <2>11, <2>12, <2>13 DEF Steps
<1>3. ASSUME NEW p \in Launches, Signal(p) \/ KillLaunch(p) PROVE Kept
  <2>1. CASE Signal(p) BY <2>1, <1>q DEF Signal, Ended
  <2>2. CASE KillLaunch(p) BY <2>2, <1>t DEF KillLaunch, To
  <2> QED BY <1>3, <2>1, <2>2
<1>4. ASSUME NEW c \in Backends, Age(c) PROVE Kept
  BY <1>4, <1>u DEF Age
<1>5. CASE UNCHANGED launchVars BY <1>5, <1>u DEF launchVars
<1> QED BY <1>1, <1>2, <1>3, <1>4, <1>5 DEF LaunchNext

LEMMA SoleOwner == ASSUME LaunchTypeOK, SoleInv PROVE OneInstance
  BY DEF SoleInv, Sole, OneInstance, LaunchTypeOK, Picks

\* A backend that the ensemble left out is at most unmarked by a launch that
\* works on the same tree.
LEMMA LeftOutStep ==
  ASSUME LaunchTypeOK, [LaunchNext]_launchVars, SoleInv, LeftOutMarked,
         \A p \in Launches : PassInv(p) /\ TriedInv(p)
  PROVE  LeftOutMarked'
<1> USE LaunchAssumption DEF Fix, ensemble, files
<1>0. /\ step \in [Launches -> Pcs] /\ use \in [Launches -> Picks] /\ failed \in [Launches -> Picks]
  BY DEF LaunchTypeOK
<1>h. raced \subseteq raced' BY HistoryGrows
\* One that left a backend out holds its lock.
<1>o. ASSUME NEW p \in Launches, NEW b \in failed[p], Alive(p) PROVE step[p] \in {"round", "turn"} /\ b \in own[p]
  <2>1. step[p] \in {"round", "turn"}
    BY <1>0, <1>o DEF Alive, TriedInv, Pcs, Ended, Preparing, Locking
  <2>2. b \in use[p] BY DEF TriedInv, Tried
  <2> QED BY <2>1, <2>2 DEF PassInv, Trying
<1>s. ASSUME NEW p \in Launches, NEW b \in failed[p], Alive(p), NEW q \in Launches, q # p, Alive(q), b \in own[q]
      PROVE b \in raced
  <2>1. b \in Backends BY <1>0 DEF Picks
  <2> QED BY <1>s, <1>o, <2>1, SoleOwner DEF OneInstance
\* A step that leaves nothing out, and unmarks at most the backend its launch is at.
<1>g. ASSUME UNCHANGED failed, mark \subseteq mark',
             \A q \in Launches : Alive(q)' => Alive(q) \/ failed[q] = {}
      PROVE LeftOutMarked'
  BY <1>g, <1>h DEF LeftOutMarked
<1>t. ASSUME NEW p \in Launches, NEW s, Fix(p, s), Alive(p) \/ step[p] = "off", UNCHANGED failed, mark \subseteq mark'
      PROVE LeftOutMarked'
  <2>1. \A q \in Launches \ {p} : step'[q] = step[q] BY <1>0, <1>t
  <2>2. step[p] = "off" => failed[p] = {} BY DEF TriedInv
  <2> QED BY <1>t, <1>g, <2>1, <2>2 DEF Alive
<1>q. ASSUME NEW p \in Launches, NEW s, Quit(p, s), Alive(p), mark \subseteq mark' PROVE LeftOutMarked'
  BY <1>q, <1>t DEF Quit
<1>u. ASSUME UNCHANGED <<step, failed, mark>> PROVE LeftOutMarked'
  BY <1>u, <1>g DEF Alive
<1>1. ASSUME NEW p \in Launches, NEW w \in Scopes, NEW s \in SUBSET Backends, Main(p, w, s) PROVE LeftOutMarked'
  <2>1. PICK t \in {"fatal", "check"} : Fix(p, t) /\ UNCHANGED <<failed, mark>> /\ step[p] = "off"
    BY <1>1 DEF Main, To
  <2> QED BY <2>1, <1>t
<1>2. ASSUME NEW p \in Launches, Steps(p) PROVE LeftOutMarked'
  <2>a. Alive(p)
    <3>1. step[p] \notin Ended \cup {"off", "killed"}
      BY <1>2 DEF Steps, Check, Write, Mkdir, Remove, Remake, WritePid, Model, Outdated, Build, Drive, Round, EndRound,
         Ran, Rejected, Capacity, Transient, Turn, Ended
    <3> QED BY <3>1 DEF Alive
  <2>f. ASSUME Fail(p), mark \subseteq mark' PROVE LeftOutMarked' BY <2>f, <2>a, <1>q DEF Fail
  <2>1. CASE Check(p) BY <2>1, <2>a, <1>t DEF Check, To
  <2>o. ASSUME NEW s, NEW t, Onward(p, s, t), mark \subseteq mark' PROVE LeftOutMarked'
    <3>1. PICK r : Fix(p, r) BY <2>o DEF Onward
    <3> QED BY <2>o, <3>1, <2>a, <1>t DEF Onward
  <2>2. CASE Write(p) BY <2>2, <2>o DEF Write
  <2>3. CASE Mkdir(p) BY <2>3, <2>a, <2>f, <1>t DEF Mkdir, To
  <2>4. CASE Remove(p) BY <2>4, <2>a, <2>f, <1>t DEF Remove, To
  <2>5. CASE Remake(p) BY <2>5, <2>a, <2>f, <1>t DEF Remake, To
  <2>6. CASE WritePid(p) BY <2>6, <2>f, <2>o DEF WritePid
  <2>7. ASSUME NEW a \in {"acted", "substituted", "rejected", "unsafe", "failed"}, Model(p, a) PROVE LeftOutMarked'
    <3>0. step[p] = "model" BY <2>7 DEF Model
    <3>1. CASE Fail(p)
      <4>1. mark \subseteq mark' \/ a = "acted" BY <2>7 DEF Model
      <4>2. a # "acted"
        <5>1. SUFFICES ASSUME a = "acted" PROVE FALSE OBVIOUS
        <5>2. step'[p] = "fatal" BY <1>0, <3>1 DEF Fail, Quit
        <5>3. \E r \in {"model", "build"} : step' = [step EXCEPT ![p] = r] BY <2>7, <5>1 DEF Model, Onward
        <5> QED BY <1>0, <5>2, <5>3
      <4> QED BY <3>1, <4>1, <4>2, <2>f
    <3>2. CASE a = "acted"
      <4>1. Onward(p, "model", "build") /\ mark \ {now[p]} \subseteq mark' BY <2>7, <3>2 DEF Model
      <4>2. PICK r : Fix(p, r) BY <4>1 DEF Onward
      <4>3. UNCHANGED failed /\ \A q \in Launches \ {p} : step'[q] = step[q] BY <1>0, <4>1, <4>2 DEF Onward
      <4>4. failed[p] = {} /\ now[p] \in own[p] BY <3>0 DEF TriedInv, PassInv, Trying
      <4>5. ASSUME NEW q \in Launches, NEW b \in failed[q], Alive(q)', b \notin raced' PROVE b \in mark'
        <5>1. q # p /\ Alive(q) BY <4>3, <4>4, <4>5 DEF Alive
        <5>2. b \notin raced BY <4>5, <1>h
        <5>3. b # now[p] BY <2>a, <4>4, <5>1, <5>2, <1>s
        <5>4. b \in mark BY <5>1, <5>2 DEF LeftOutMarked
        <5> QED BY <4>1, <5>3, <5>4
      <4> QED BY <4>3, <4>5 DEF LeftOutMarked
    <3>3. CASE a = "failed" /\ tries[p] + 1 < Attempts BY <2>7, <3>3, <1>u DEF Model
    <3> QED BY <2>7, <3>1, <3>2, <3>3 DEF Model
  <2>8. CASE Outdated(p) BY <2>8, <2>f DEF Outdated
  <2>9. CASE Build(p)
    <3>1. CASE Fail(p) BY <2>9, <3>1, <2>f DEF Build
    <3>2. CASE \E s \in {"drive", "round"} : To(p, s) BY <2>9, <3>2, <2>a, <1>t DEF Build, To
    <3> QED BY <2>9, <3>1, <3>2 DEF Build
  <2>10. CASE Drive(p) BY <2>10, <2>a, <1>q DEF Drive, Leave
  <2>11. CASE Round(p)
    <3>1. CASE Leave(p) BY <2>11, <3>1, <2>a, <1>q DEF Round, Leave
    <3>2. CASE Fix(p, "turn") /\ UNCHANGED failed BY <2>11, <3>2, <2>a, <1>t DEF Round
    <3> QED BY <2>11, <3>1, <3>2 DEF Round
  <2>12. CASE EndRound(p) BY <2>12, <2>a, <1>t DEF EndRound, To
  <2>13. ASSUME NEW b \in due[p], Ran(p, b) \/ Rejected(p, b) \/ Capacity(p, b) \/ Transient(p, b)
         PROVE LeftOutMarked'
    <3>1. step[p] = "turn" /\ UNCHANGED <<step, raced, own>>
      BY <2>13 DEF Ran, Rejected, Capacity, Transient, Turn, Rest
    <3>2. b \in use[p] /\ b \notin stopped[p] /\ b \notin failed[p] /\ b \in own[p]
      BY <3>1 DEF TriedInv, PassInv, Trying
    \* Either b is left out and marked, or nothing is left out.
    <3>3. \/ failed' \in {failed, [failed EXCEPT ![p] = @ \cup {b}]} /\ mark' = mark \cup {b}
          \/ UNCHANGED failed /\ mark \ {b} \subseteq mark'
      <4>1. CASE Ran(p, b) BY <4>1 DEF Ran, Took
      <4>2. CASE Rejected(p, b) BY <4>2 DEF Rejected, Took
      <4>3. CASE Capacity(p, b) BY <4>3 DEF Capacity, Took
      <4>4. CASE Transient(p, b) BY <4>4 DEF Transient, Took
      <4> QED BY <2>13, <4>1, <4>2, <4>3, <4>4
    <3>4. ASSUME NEW q \in Launches, NEW c \in failed'[q], Alive(q)', c \notin raced' PROVE c \in mark'
      <4>1. Alive(q) /\ c \notin raced BY <3>1, <3>4 DEF Alive
      <4>2. CASE c \in failed[q]
        <5>1. c \in mark BY <4>1, <4>2 DEF LeftOutMarked
        <5>2. c # b BY <2>a, <3>2, <4>1, <4>2, <1>s
        <5> QED BY <3>3, <5>1, <5>2
      <4>3. CASE c \notin failed[q] BY <1>0, <3>3, <3>4, <4>3
      <4> QED BY <4>2, <4>3
    <3> QED BY <3>4 DEF LeftOutMarked
  <2> QED BY <1>2, <2>1, <2>2, <2>3, <2>4, <2>5, <2>6, <2>7, <2>8, <2>9, <2>10, <2>11, <2>12, <2>13 DEF Steps
<1>3. ASSUME NEW p \in Launches, Signal(p) \/ KillLaunch(p) PROVE LeftOutMarked'
  <2>1. CASE Signal(p) BY <2>1, <1>q DEF Signal
  <2>2. CASE KillLaunch(p) BY <2>2, <1>t DEF KillLaunch, To
  <2> QED BY <1>3, <2>1, <2>2
<1>4. ASSUME NEW b \in Backends, Age(b) PROVE LeftOutMarked'
  BY <1>4, <1>u DEF Age
<1>5. CASE UNCHANGED launchVars BY <1>5, <1>u DEF launchVars
<1> QED BY <1>1, <1>2, <1>3, <1>4, <1>5 DEF LaunchNext

LEMMA LaunchInvInit == LaunchInit => LaunchInv
<1> SUFFICES ASSUME LaunchInit PROVE LaunchInv
  OBVIOUS
<1> USE LaunchAssumption
<1>1. LaunchTypeOK BY LaunchTypeInit
<1>2. \A b \in Backends : locks[b].pid \in {Ownerless, Dead}
  <2>1. \A k \in {NoLock, [NoLock EXCEPT !.dir = TRUE, !.pid = Dead], [NoLock EXCEPT !.dir = TRUE, !.old = TRUE]} :
           k.pid \in {Ownerless, Dead}
    <3> DEFINE l == [NoLock EXCEPT !.dir = TRUE]
    <3>1. NoLock.pid = Ownerless /\ l.pid = Ownerless BY DEF NoLock
    <3>3. l \in InstanceLock BY DEF NoLock, InstanceLock
    <3> HIDE DEF l
    <3>2. [l EXCEPT !.pid = Dead].pid = Dead /\ [l EXCEPT !.old = TRUE].pid = Ownerless BY <3>1, <3>3 DEF InstanceLock
    <3> QED BY <3>1, <3>2 DEF l
  <2> QED BY <2>1 DEF LaunchInit
<1>8. Dead \notin Launches OBVIOUS
<1>9. Ownerless \notin Launches BY DEF Ownerless
<1>3. HeldInv BY <1>2, <1>8, <1>9, Zenon DEF HeldInv
<1>4. \A p \in Launches : step[p] = "off" /\ use[p] = {} /\ own[p] = {} /\ ran[p] = {} /\ stopped[p] = {}
                          /\ failed[p] = {} /\ total[p] = 0
  BY DEF LaunchInit
<1>5. SoleInv /\ ScopeInv /\ LeftOutMarked
  BY <1>4 DEF SoleInv, Sole, ScopeInv, LeftOutMarked, Taking
<1>6. Cardinality({}) = 0 BY FS_EmptySet
<1>7. \A p \in Launches : PassInv(p) /\ TriedInv(p)
  BY <1>4, <1>6 DEF PassInv, TriedInv, Tried, Preparing, Locking, Trying, Ended
<1> QED BY <1>1, <1>3, <1>5, <1>7 DEF LaunchInv

LEMMA LaunchInvStep == LaunchInv /\ [LaunchNext]_launchVars => LaunchInv'
  BY LaunchTypeStep, LockFacts, SoleStep, ScopeStep, LeftOutStep, PassStep, TriedStep DEF LaunchInv

LEMMA LaunchInvImplies == LaunchInv => OneInstance /\ LocksFreed /\ LeftOutMarked /\ EveryBackendTried
<1> SUFFICES ASSUME LaunchInv PROVE OneInstance /\ LocksFreed /\ LeftOutMarked /\ EveryBackendTried
  OBVIOUS
<1>1. OneInstance BY SoleOwner DEF LaunchInv
<1>2. LocksFreed BY DEF LaunchInv, HeldInv, LocksFreed, Alive, Ended
<1>3. EveryBackendTried BY DEF LaunchInv, TriedInv, Tried, EveryBackendTried
<1> QED BY <1>1, <1>2, <1>3 DEF LaunchInv

\* Two launches of one tree overlap only where a dead lock was taken over twice
\* at once, no launch that ended leaves its lock, what an ensemble leaves out is
\* marked and the rest had a turn, and a recorded scope stays.
THEOREM LaunchesAreKept == LaunchSpec => LaunchKept
<1>1. LaunchInv /\ [LaunchNext]_launchVars =>
         [\A b \in Backends : config[b] \in {Unrecorded, config'[b]} \/ b \in mixed]_launchVars
  BY ScopeStep DEF LaunchInv
<1>2. LaunchSpec => []LaunchInv
  BY LaunchInvInit, LaunchInvStep, PTL DEF LaunchSpec
<1>3. LaunchSpec => ScopeKept
  BY <1>1, <1>2, PTL DEF LaunchSpec, ScopeKept
<1> QED BY <1>2, <1>3, LaunchInvImplies, PTL DEF LaunchKept
=============================================================================
