------------------------- MODULE ClusterLaneProofs -------------------------
(***************************************************************************)
(* The workers beside the slots, for every value of their constants.  The  *)
(* expansion lane decides once per crash state and a lane that drained     *)
(* before the wall has settled what it was handed; an agent session leaves *)
(* nothing behind and reports its own status; a reading sweep keeps its    *)
(* budget and receipts; a fuzz campaign keeps its wall and its queue.      *)
(***************************************************************************)
EXTENDS ClusterLane, FuzzCampaign, Sweep, AgentSession, FiniteSetTheorems, SequenceTheorems, TLAPS

\* Every variable keeps its type.
THEOREM LaneTypeCorrect == Spec => []TypeOK
<1>1. Init => TypeOK
  <2> SUFFICES ASSUME Init PROVE TypeOK
    OBVIOUS
  <2>1. failed \in BOOLEAN /\ past \in BOOLEAN
    BY Zenon DEF Init
  <2>2. minted \in [States -> Nat]
    BY SMT DEF Init
  <2> QED BY <2>1, <2>2 DEF Init, TypeOK, Futures
<1>2. TypeOK /\ [Next]_vars => TypeOK'
  <2> SUFFICES ASSUME TypeOK, [Next]_vars PROVE TypeOK'
    OBVIOUS
  <2> USE DEF TypeOK, Futures
  <2>1. CASE Watch
    BY <2>1 DEF Watch, batch, files, driver
  <2>2. CASE Done
    BY <2>2 DEF Done, batch, files, driver
  <2>3. CASE ExpandScan
    BY <2>3 DEF ExpandScan, driver, Leaderships
  <2>4. CASE ExpandDecide
    BY <2>4 DEF ExpandDecide, driver, files
  <2>5. CASE ExpandRaise
    BY <2>5 DEF ExpandRaise, driver, files
  <2>6. ASSUME NEW c \in Crashes, ExpandMint(c) PROVE TypeOK'
    <3>1. minted' \in [States -> Nat]
      BY <2>6 DEF ExpandMint, States
    <3> QED BY <2>6, <3>1 DEF ExpandMint, driver, Siblings
  <2>7. ASSUME NEW c \in Crashes, FileCrash(c) \/ MoveCrash(c) PROVE TypeOK'
    BY <2>7 DEF FileCrash, MoveCrash, lane, batch, driver
  <2>8. CASE SweepBegin
    BY <2>8 DEF SweepBegin, lane, batch, files
  <2>9. CASE SweepHandOver
    BY <2>9 DEF SweepHandOver, Schedule, StartLocked, batch, files
  <2>10. CASE BarrierBegin
    BY <2>10 DEF BarrierBegin, lane, files
  <2>11. CASE BarrierHandOver
    BY <2>11 DEF BarrierHandOver, Schedule, StartLocked, batch, files
  <2>12. CASE DrainReturn
    BY <2>12 DEF DrainReturn, lane, batch, files
  <2>13. CASE WallPasses
    BY <2>13 DEF WallPasses, lane, batch, files
  <2>14. CASE UNCHANGED vars
    BY <2>14 DEF vars, lane, batch, files, driver
  <2> QED
    BY <2>1, <2>2, <2>3, <2>4, <2>5, <2>6, <2>7, <2>8, <2>9, <2>10, <2>11,
       <2>12, <2>13, <2>14 DEF Next
<1> QED BY <1>1, <1>2, PTL DEF Spec

-----------------------------------------------------------------------------
(* Once per crash state *)

Gone(s) == {c \in gone : StateOf[c] = s}

\* A bundle of the state is on disk with its marker.
MarkedBusy(s) == \E c \in disk \cap marker : StateOf[c] = s

\* A marked bundle accounts for one of its state's decisions and every moved
\* bundle for one; a leader yet to mint finds none but those of other moved
\* bundles, and is the only leader of its state.
MintInv ==
    /\ disk \cap gone = {} /\ leaders \subseteq disk \cup gone
    /\ \A s \in States : minted[s] <= Cardinality(Gone(s)) + (IF MarkedBusy(s) THEN 1 ELSE 0)
    /\ \A c \in leaders : StateOf[c] # NoState =>
          minted[StateOf[c]] <= Cardinality(Gone(StateOf[c]) \ {c})
    /\ \A c, d \in leaders : (StateOf[c] = StateOf[d] /\ StateOf[c] # NoState) => c = d

\* The moved bundles of a state are finitely many, with and without one.
LEMMA GoneFinite ==
    ASSUME TypeOK, NEW s, NEW c
    PROVE  /\ IsFiniteSet(Gone(s)) /\ Cardinality(Gone(s)) \in Nat
           /\ Cardinality(Gone(s) \ {c}) \in Nat
           /\ Cardinality(Gone(s) \ {c})
                = IF c \in Gone(s) THEN Cardinality(Gone(s)) - 1 ELSE Cardinality(Gone(s))
<1>1. IsFiniteSet(Gone(s))
  BY LaneAssumption, FS_Subset DEF TypeOK, Gone
<1>2. IsFiniteSet(Gone(s) \ {c})
  BY <1>1, FS_Subset
<1> QED BY <1>1, <1>2, FS_CardinalityType, FS_RemoveElement

\* What changes nothing but the lane, the driver and the markers keeps it,
\* as long as no marker of a bundle on disk is lost and no leader is added.
LEMMA MintKept ==
    ASSUME TypeOK, MintInv, minted' = minted, gone' = gone, disk \subseteq disk',
           disk' \cap gone' = {}, marker \subseteq marker', leaders' \subseteq leaders
    PROVE  MintInv'
<1>1. \A s : Gone(s)' = Gone(s) /\ (MarkedBusy(s) => MarkedBusy(s)')
  BY DEF Gone, MarkedBusy
<1>2. \A s \in States : minted'[s] <= Cardinality(Gone(s)') + (IF MarkedBusy(s)' THEN 1 ELSE 0)
  <2> SUFFICES ASSUME NEW s \in States
               PROVE  minted'[s] <= Cardinality(Gone(s)') + (IF MarkedBusy(s)' THEN 1 ELSE 0)
    OBVIOUS
  <2>1. minted[s] \in Nat /\ Cardinality(Gone(s)) \in Nat
    BY GoneFinite DEF TypeOK
  <2>2. minted[s] <= Cardinality(Gone(s)) + (IF MarkedBusy(s) THEN 1 ELSE 0)
    BY DEF MintInv
  <2> QED BY <1>1, <2>1, <2>2
<1>3. \A c \in leaders' : StateOf[c] # NoState =>
          minted'[StateOf[c]] <= Cardinality(Gone(StateOf[c])' \ {c})
  BY <1>1 DEF MintInv
<1> QED BY <1>2, <1>3 DEF MintInv

\* The leaders of a batch are bundles on disk that no marked bundle covers.
LEMMA ScanMints ==
    ASSUME TypeOK, MintInv, ExpandScan
    PROVE  MintInv'
<1> DEFINE known == {c \in (expanding \cap disk) \ marker : StateOf[c] \in ExpandedStates}
           cands == ((expanding \cap disk) \ marker) \ known
<1>1. PICK ls \in Leaderships(cands) : leaders' = ls \ attempted
  BY DEF ExpandScan
<1>2. UNCHANGED <<minted, gone, disk>> /\ marker' = marker \cup known
  BY DEF ExpandScan
<1>3. \A s : Gone(s)' = Gone(s) /\ (MarkedBusy(s) => MarkedBusy(s)')
  BY <1>2 DEF Gone, MarkedBusy
<1>4. \A s \in States : minted'[s] <= Cardinality(Gone(s)') + (IF MarkedBusy(s)' THEN 1 ELSE 0)
  <2> SUFFICES ASSUME NEW s \in States
               PROVE  minted'[s] <= Cardinality(Gone(s)') + (IF MarkedBusy(s)' THEN 1 ELSE 0)
    OBVIOUS
  <2>1. minted[s] \in Nat /\ Cardinality(Gone(s)) \in Nat
    BY GoneFinite DEF TypeOK
  <2>2. minted[s] <= Cardinality(Gone(s)) + (IF MarkedBusy(s) THEN 1 ELSE 0)
    BY DEF MintInv
  <2> QED BY <1>2, <1>3, <2>1, <2>2
<1>5. leaders' \subseteq cands
  BY <1>1 DEF Leaderships
<1>6. ASSUME NEW c \in leaders', StateOf[c] # NoState
      PROVE  minted'[StateOf[c]] <= Cardinality(Gone(StateOf[c])' \ {c})
  <2> DEFINE s == StateOf[c]
  <2>1. c \in Crashes /\ c \in disk /\ c \notin gone /\ s \in States /\ s \notin ExpandedStates
    BY <1>5, <1>6 DEF TypeOK, MintInv, States
  <2>2. ~MarkedBusy(s)
    BY <2>1, <1>6 DEF MarkedBusy, ExpandedStates
  <2>3. minted[s] <= Cardinality(Gone(s)) /\ minted[s] \in Nat
    <3>1. minted[s] \in Nat /\ Cardinality(Gone(s)) \in Nat
      BY <2>1, GoneFinite DEF TypeOK
    <3>2. minted[s] <= Cardinality(Gone(s)) + (IF MarkedBusy(s) THEN 1 ELSE 0)
      BY <2>1 DEF MintInv
    <3> QED BY <2>2, <3>1, <3>2
  <2>4. Gone(s)' \ {c} = Gone(s)
    BY <1>3, <2>1 DEF Gone
  <2> QED BY <1>2, <2>3, <2>4
<1>7. ASSUME NEW c \in leaders', NEW d \in leaders', StateOf[c] = StateOf[d], StateOf[c] # NoState
      PROVE  c = d
  <2>1. c \in ls /\ d \in ls /\ c \in cands /\ d \in cands /\ StateOf[c] \in States
    BY <1>1, <1>5, <1>7 DEF TypeOK, States
  <2>2. PICK l \in ls : ls \cap {b \in cands : StateOf[b] = StateOf[c]} = {l}
    BY <2>1 DEF Leaderships
  <2> QED BY <1>7, <2>1, <2>2
<1>8. disk' \cap gone' = {} /\ leaders' \subseteq disk' \cup gone'
  BY <1>2, <1>5 DEF MintInv
<1> QED BY <1>4, <1>6, <1>7, <1>8 DEF MintInv

\* A leader's rows are queued and, when the bundle is still there, marked.
LEMMA MintMints ==
    ASSUME TypeOK, MintInv, NEW c \in Crashes, ExpandMint(c)
    PROVE  MintInv'
<1> DEFINE s == StateOf[c]
<1>1. /\ c \in leaders /\ leaders' = leaders \ {c} /\ UNCHANGED <<disk, gone>>
      /\ marker \subseteq marker' /\ (c \in disk => c \in marker')
  BY DEF ExpandMint
<1>2. CASE s = NoState
  BY <1>1, <1>2, MintKept DEF ExpandMint, MintInv
<1>3. CASE s # NoState
  <2>1. s \in States /\ minted' = [minted EXCEPT ![s] = @ + 1]
    BY <1>3 DEF ExpandMint, States
  <2>2. minted[s] <= Cardinality(Gone(s) \ {c}) /\ minted[s] \in Nat
    BY <1>1, <1>3, <2>1 DEF MintInv, TypeOK
  <2>3. \A r : Gone(r)' = Gone(r) /\ (MarkedBusy(r) => MarkedBusy(r)')
    BY <1>1 DEF Gone, MarkedBusy
  <2>4. \A r \in States : minted'[r] <= Cardinality(Gone(r)') + (IF MarkedBusy(r)' THEN 1 ELSE 0)
    <3> SUFFICES ASSUME NEW r \in States
                 PROVE  minted'[r] <= Cardinality(Gone(r)) + (IF MarkedBusy(r)' THEN 1 ELSE 0)
      BY <2>3
    <3>1. minted[r] \in Nat /\ Cardinality(Gone(r)) \in Nat
      BY GoneFinite DEF TypeOK
    <3>2. CASE r # s
      <4>1. minted'[r] = minted[r]
        BY <2>1, <3>2 DEF TypeOK
      <4>2. minted[r] <= Cardinality(Gone(r)) + (IF MarkedBusy(r) THEN 1 ELSE 0)
        BY DEF MintInv
      <4> QED BY <2>3, <3>1, <4>1, <4>2
    <3>3. CASE r = s /\ c \in disk
      <4>1. MarkedBusy(s)' /\ minted'[r] = minted[s] + 1
        BY <1>1, <2>1, <3>3 DEF MarkedBusy, TypeOK
      <4>2. Cardinality(Gone(s) \ {c}) <= Cardinality(Gone(s)) /\ Cardinality(Gone(s) \ {c}) \in Nat
        BY GoneFinite
      <4> QED BY <2>2, <3>1, <3>3, <4>1, <4>2
    <3>4. CASE r = s /\ c \notin disk
      <4>1. c \in Gone(s) /\ minted'[r] = minted[s] + 1
        BY <1>1, <2>1, <3>4 DEF MintInv, Gone, TypeOK
      <4>2. Cardinality(Gone(s) \ {c}) = Cardinality(Gone(s)) - 1
        BY <4>1, GoneFinite
      <4> QED BY <2>2, <3>1, <3>4, <4>1, <4>2
    <3> QED BY <3>2, <3>3, <3>4
  <2>5. ASSUME NEW d \in leaders', StateOf[d] # NoState
        PROVE  minted'[StateOf[d]] <= Cardinality(Gone(StateOf[d])' \ {d})
    <3>1. d \in leaders /\ StateOf[d] # s /\ StateOf[d] \in States
      BY <1>1, <1>3, <2>5 DEF MintInv, TypeOK, States
    <3>2. minted'[StateOf[d]] = minted[StateOf[d]]
      BY <2>1, <3>1 DEF TypeOK
    <3> QED BY <2>3, <2>5, <3>1, <3>2 DEF MintInv
  <2> QED BY <1>1, <2>4, <2>5 DEF MintInv
<1> QED BY <1>2, <1>3

\* A moved bundle takes its marker along and counts as moved.
LEMMA MoveMints ==
    ASSUME TypeOK, MintInv, NEW c \in Crashes, MoveCrash(c)
    PROVE  MintInv'
<1> DEFINE s == StateOf[c]
<1>1. /\ c \in disk /\ c \notin gone /\ disk' = disk \ {c} /\ marker' = marker \ {c}
      /\ gone' = gone \cup {c} /\ UNCHANGED <<minted, leaders>>
  BY DEF MoveCrash, MintInv, batch
<1>2. Gone(s)' = Gone(s) \cup {c} /\ \A r : r # s => Gone(r)' = Gone(r)
  BY <1>1 DEF Gone
<1>3. Cardinality(Gone(s)') = Cardinality(Gone(s)) + 1
  <2>1. c \notin Gone(s)
    BY <1>1 DEF Gone
  <2> QED BY <1>2, <2>1, GoneFinite, FS_AddElement
<1>4. \A r \in States : minted'[r] <= Cardinality(Gone(r)') + (IF MarkedBusy(r)' THEN 1 ELSE 0)
  <2> SUFFICES ASSUME NEW r \in States
               PROVE  minted[r] <= Cardinality(Gone(r)') + (IF MarkedBusy(r)' THEN 1 ELSE 0)
    BY <1>1
  <2>1. /\ minted[r] \in Nat /\ Cardinality(Gone(r)) \in Nat
        /\ minted[r] <= Cardinality(Gone(r)) + (IF MarkedBusy(r) THEN 1 ELSE 0)
    BY GoneFinite DEF TypeOK, MintInv
  <2>2. r # s => (MarkedBusy(r) => MarkedBusy(r)')
    BY <1>1 DEF MarkedBusy
  <2>3. CASE r = s
    <3>1. Cardinality(Gone(r)') = Cardinality(Gone(r)) + 1
      BY <1>3, <2>3
    <3> QED BY <2>1, <3>1
  <2>4. CASE r # s
    <3>1. Gone(r)' = Gone(r)
      BY <1>2, <2>4
    <3> QED BY <2>1, <2>2, <2>4, <3>1
  <2> QED BY <2>3, <2>4
<1>5. ASSUME NEW d \in leaders', StateOf[d] # NoState
      PROVE  minted'[StateOf[d]] <= Cardinality(Gone(StateOf[d])' \ {d})
  <2> DEFINE r == StateOf[d]
  <2>1. d \in leaders /\ r \in States
    BY <1>1, <1>5 DEF TypeOK, States
  <2>2. minted[r] <= Cardinality(Gone(r) \ {d}) /\ minted[r] \in Nat
    BY <1>5, <2>1 DEF MintInv, TypeOK
  <2>3. IsFiniteSet(Gone(r)' \ {d})
    <3>1. IsFiniteSet(Gone(r)')
      BY <1>1, LaneAssumption, FS_Subset DEF TypeOK, Gone
    <3> QED BY <3>1, FS_Subset
  <2>4. Gone(r) \ {d} \subseteq Gone(r)' \ {d}
    BY <1>1 DEF Gone
  <2>5. Cardinality(Gone(r) \ {d}) <= Cardinality(Gone(r)' \ {d})
        /\ Cardinality(Gone(r) \ {d}) \in Nat /\ Cardinality(Gone(r)' \ {d}) \in Nat
    BY <2>3, <2>4, GoneFinite, FS_Subset, FS_CardinalityType
  <2> QED BY <1>1, <2>2, <2>5
<1>6. disk' \cap gone' = {} /\ leaders' \subseteq disk' \cup gone'
  BY <1>1 DEF MintInv
<1> QED BY <1>1, <1>4, <1>5, <1>6 DEF MintInv

\* For any bundles and crash states: one decision per crash state queues
\* rows, and one more for each bundle of the state that triage took away.
THEOREM MintedOnce == Spec => []MintOnce
<1>1. Init => MintInv
  <2> SUFFICES ASSUME Init PROVE MintInv
    OBVIOUS
  <2>1. \A s : Gone(s) = {}
    BY DEF Init, Gone
  <2> QED BY <2>1, FS_EmptySet DEF Init, MintInv
<1>2. TypeOK /\ MintInv /\ [Next]_vars => MintInv'
  <2> SUFFICES ASSUME TypeOK, MintInv, [Next]_vars PROVE MintInv'
    OBVIOUS
  <2>1. ASSUME UNCHANGED <<minted, gone, disk, marker>>, leaders' \subseteq leaders PROVE MintInv'
    BY <2>1, MintKept DEF MintInv
  <2>2. CASE ExpandScan
    BY <2>2, ScanMints
  <2>3. ASSUME NEW c \in Crashes, ExpandMint(c) \/ FileCrash(c) \/ MoveCrash(c) PROVE MintInv'
    <3>1. CASE FileCrash(c)
      <4>1. /\ UNCHANGED <<minted, gone, marker, leaders>> /\ disk \subseteq disk'
            /\ disk' \cap gone' = {}
        BY <3>1 DEF FileCrash, batch, MintInv
      <4> QED BY <4>1, MintKept
    <3> QED BY <2>3, <3>1, MintMints, MoveMints
  <2>4. CASE ExpandDecide \/ ExpandRaise
    BY <2>1, <2>4 DEF ExpandDecide, ExpandRaise, files
  <2> QED
    BY <2>1, <2>2, <2>3, <2>4
    DEF Next, vars, lane, batch, files, driver, Watch, Done, SweepBegin, SweepHandOver,
        BarrierBegin, BarrierHandOver, DrainReturn, WallPasses
<1>3. TypeOK /\ MintInv => MintOnce
  <2> SUFFICES ASSUME TypeOK, MintInv, NEW s \in States
               PROVE  minted[s] <= 1 + Cardinality(Gone(s))
    BY DEF MintOnce, Gone
  <2>1. minted[s] \in Nat /\ Cardinality(Gone(s)) \in Nat
    BY GoneFinite DEF TypeOK
  <2>2. minted[s] <= Cardinality(Gone(s)) + (IF MarkedBusy(s) THEN 1 ELSE 0)
    BY DEF MintInv
  <2> QED BY <2>1, <2>2
<1> QED BY <1>1, <1>2, <1>3, LaneTypeCorrect, PTL DEF Spec

-----------------------------------------------------------------------------
(* What a drain has settled *)

\* Where a bundle is that the barrier handed over: settled, queued, or in the
\* batch that has yet to scan it.  An idle lane has no backlog before the wall.
DrainInv ==
    /\ phase # "pool" => sweeping = "idle"
    /\ backlog \cup expanding \cup sweep \subseteq disk \cup gone
    /\ (~past /\ fut = "none") => backlog = {}
    /\ (~failed /\ fut \in {"decide", "mint", "done"}) => \A c \in expanding \cap disk : Settled(c)
    /\ (phase = "drain" /\ ~past /\ ~failed) =>
          \A c \in disk : Settled(c) \/ c \in backlog \/ (c \in expanding /\ fut = "scan")

\* Triage takes markers away only with their bundles.
LEMMA SettledKept ==
    ASSUME NEW c \in disk', attempted \subseteq attempted',
           \A d \in disk' : d \in marker => d \in marker', Settled(c)
    PROVE  Settled(c)'
BY DEF Settled

\* A scan settles every bundle of its batch that is on disk.
LEMMA ScanSettles ==
    ASSUME TypeOK, ExpandScan, NEW c \in expanding \cap disk
    PROVE  Settled(c)'
<1> DEFINE known == {b \in (expanding \cap disk) \ marker : StateOf[b] \in ExpandedStates}
           cands == ((expanding \cap disk) \ marker) \ known
<1>1. marker' = marker \cup known
  BY DEF ExpandScan
<1>2. PICK ls \in Leaderships(cands) : attempted' = attempted \cup (ls \ attempted)
  BY DEF ExpandScan
<1>3. CASE c \in cands
  <2>1. \E l \in ls : StateOf[l] = StateOf[c]
    <3>1. CASE StateOf[c] = NoState
      BY <1>3, <3>1 DEF Leaderships
    <3>2. CASE StateOf[c] # NoState
      <4>1. StateOf[c] \in States
        BY <3>2 DEF TypeOK, States
      <4>2. PICK l \in ls : ls \cap {b \in cands : StateOf[b] = StateOf[c]} = {l}
        BY <1>3, <4>1 DEF Leaderships
      <4> QED BY <4>2
    <3> QED BY <3>1, <3>2
  <2> QED BY <1>2, <2>1 DEF Settled
<1>4. CASE c \notin cands
  BY <1>1, <1>4 DEF Settled
<1> QED BY <1>3, <1>4

LEMMA DrainStep ==
    ASSUME TypeOK, DrainInv, [Next]_vars
    PROVE  DrainInv'
<1> USE DEF TypeOK, Futures
<1>1. ASSUME attempted \subseteq attempted', \A d \in disk' : d \in marker => d \in marker',
             NEW c \in disk', Settled(c)
      PROVE  Settled(c)'
  BY <1>1, SettledKept
<1>2. CASE ExpandScan
  <2>1. \A c \in expanding \cap disk : Settled(c)'
    BY <1>2, ScanSettles
  <2>2. /\ UNCHANGED <<backlog, expanding, failed, disk, gone, phase, sweep, sweeping, past>>
        /\ fut' \in {"decide", "done"} /\ marker \subseteq marker'
        /\ attempted \subseteq attempted' /\ fut = "scan"
    BY <1>2 DEF ExpandScan, driver
  <2>3. \A c \in disk : Settled(c) => Settled(c)'
    BY <2>2, <1>1
  <2> QED BY <2>1, <2>2, <2>3 DEF DrainInv
<1>3. CASE ExpandDecide
  <2>1. /\ UNCHANGED <<backlog, expanding, failed, disk, gone, marker, attempted, phase, sweep,
                       sweeping, past>>
        /\ fut' \in {"mint", "done"} /\ fut = "decide"
    BY <1>3 DEF ExpandDecide, driver, files
  <2> QED BY <2>1 DEF DrainInv, Settled
<1>4. ASSUME NEW c \in Crashes, ExpandMint(c) PROVE DrainInv'
  <2>1. /\ UNCHANGED <<backlog, expanding, failed, disk, gone, attempted, phase, sweep,
                       sweeping, past>>
        /\ fut' \in {"mint", "done"} /\ fut = "mint" /\ marker \subseteq marker'
    BY <1>4 DEF ExpandMint, driver
  <2>2. \A d \in disk : Settled(d) => Settled(d)'
    BY <2>1, <1>1
  <2> QED BY <2>1, <2>2 DEF DrainInv
<1>5. CASE ExpandRaise
  <2>1. failed' = TRUE /\ fut' = "done" /\ UNCHANGED <<backlog, expanding, files, driver>>
    BY <1>5 DEF ExpandRaise
  <2> QED BY <2>1 DEF DrainInv, driver, files
<1>6. ASSUME NEW c \in Crashes, FileCrash(c) PROVE DrainInv'
  <2>1. /\ phase = "pool" /\ disk' = disk \cup {c} /\ c \notin disk \cup gone
        /\ UNCHANGED <<lane, batch, gone, marker, driver>>
    BY <1>6 DEF FileCrash
  <2>2. expanding' \cap disk' = expanding \cap disk
    BY <2>1 DEF DrainInv, lane
  <2> QED BY <2>1, <2>2 DEF DrainInv, lane, batch, driver, Settled
<1>7. ASSUME NEW c \in Crashes, MoveCrash(c) PROVE DrainInv'
  <2>1. /\ disk' = disk \ {c} /\ marker' = marker \ {c} /\ gone' = gone \cup {c}
        /\ UNCHANGED <<lane, batch, driver>>
    BY <1>7 DEF MoveCrash
  <2>2. \A d \in disk' : Settled(d) => Settled(d)'
    BY <2>1 DEF Settled, batch
  <2> QED BY <2>1, <2>2 DEF DrainInv, lane, batch, driver
<1>8. CASE Watch
  BY <1>8 DEF Watch, DrainInv, batch, files, driver, Settled
<1>9. CASE Done
  <2>1. UNCHANGED <<failed, attempted, disk, gone, marker, driver>> /\ fut = "done"
    BY <1>9 DEF Done, batch, files
  <2>2. \A d : Settled(d)' = Settled(d)
    BY <2>1 DEF Settled
  <2>3. CASE past
    BY <1>9, <2>1, <2>2, <2>3 DEF Done, DrainInv, driver
  <2>4. CASE ~past
    <3>1. /\ backlog' = {} /\ expanding' = backlog \ marker
          /\ fut' = IF backlog \ marker = {} THEN "none" ELSE "scan"
      BY <1>9, <2>4 DEF Done
    <3>2. ASSUME phase = "drain", ~past, ~failed, NEW d \in disk
          PROVE  Settled(d) \/ (d \in expanding' /\ fut' = "scan")
      <4>1. Settled(d) \/ d \in backlog
        BY <2>1, <3>2 DEF DrainInv
      <4> QED BY <3>1, <4>1 DEF Settled
    <3> QED BY <2>1, <2>2, <2>4, <3>1, <3>2 DEF DrainInv, driver
  <2> QED BY <2>3, <2>4
<1>10. CASE SweepBegin
  <2>1. /\ phase = "pool" /\ sweep' \subseteq disk
        /\ UNCHANGED <<lane, batch, files, phase, past>>
    BY <1>10 DEF SweepBegin
  <2> QED BY <2>1 DEF DrainInv, lane, batch, files, Settled
<1>11. ASSUME NEW crashes \in SUBSET (disk \cup gone), NEW who, Schedule(crashes, who)
       PROVE  /\ backlog' \cup expanding' \subseteq disk \cup gone
              /\ fut' = "none" => backlog' = {}
              /\ fut' \in {"decide", "mint", "done"} => expanding' = expanding /\ fut' = fut
              /\ \A d \in crashes : \/ d \in marker \/ d \in backlog'
                                    \/ d \in expanding /\ fut' = fut /\ expanding' = expanding
                                    \/ d \in expanding' /\ fut' = "scan"
  <2>1. CASE fut # "none"
    BY <1>11, <2>1 DEF Schedule, DrainInv
  <2>2. CASE fut = "none"
    BY <1>11, <2>2 DEF Schedule, StartLocked, DrainInv
  <2> QED BY <2>1, <2>2
<1>12. CASE SweepHandOver
  <2>1. /\ sweeping = "triage" /\ Schedule(sweep, "sweep") /\ sweeping' = "idle" /\ sweep' = {}
        /\ UNCHANGED <<batch, files, phase, past>>
    BY <1>12 DEF SweepHandOver
  <2>2. phase = "pool" /\ sweep \subseteq disk \cup gone
    BY <2>1 DEF DrainInv
  <2>3. /\ backlog' \cup expanding' \subseteq disk \cup gone
        /\ fut' = "none" => backlog' = {}
        /\ fut' \in {"decide", "mint", "done"} => expanding' = expanding /\ fut' = fut
    BY <1>11, <2>1, <2>2
  <2> QED BY <2>1, <2>2, <2>3 DEF DrainInv, batch, files, Settled
<1>13. CASE BarrierBegin
  <2>1. /\ phase = "pool" /\ phase' = "barrier" /\ sweeping = "idle"
        /\ failed' = (failed /\ fut # "none")
        /\ UNCHANGED <<lane, attempted, files, sweep, sweeping, past>>
    BY <1>13 DEF BarrierBegin
  <2>2. (~failed' /\ fut \in {"decide", "mint", "done"}) => ~failed
    BY <2>1
  <2> QED BY <2>1, <2>2 DEF DrainInv, lane, files, Settled
<1>14. CASE BarrierHandOver
  <2>1. /\ phase = "barrier" /\ Schedule(disk \ attempted, "driver") /\ phase' = "drain"
        /\ UNCHANGED <<batch, files, sweep, sweeping, past>>
    BY <1>14 DEF BarrierHandOver
  <2>2. /\ backlog' \cup expanding' \subseteq disk \cup gone
        /\ fut' = "none" => backlog' = {}
        /\ fut' \in {"decide", "mint", "done"} => expanding' = expanding /\ fut' = fut
        /\ \A d \in disk \ attempted :
              \/ d \in marker \/ d \in backlog'
              \/ d \in expanding /\ fut' = fut /\ expanding' = expanding
              \/ d \in expanding' /\ fut' = "scan"
    BY <1>11, <2>1
  <2>3. \A d : Settled(d)' = Settled(d)
    BY <2>1 DEF Settled, batch, files
  <2>4. ASSUME ~failed, NEW d \in disk
        PROVE  Settled(d) \/ d \in backlog' \/ (d \in expanding' /\ fut' = "scan")
    <3>1. CASE d \in attempted \cup marker
      BY <3>1 DEF Settled
    <3>2. CASE d \in expanding /\ fut' = fut /\ expanding' = expanding
      BY <2>4, <3>2 DEF DrainInv
    <3> QED BY <2>2, <3>1, <3>2
  <2> QED BY <2>1, <2>2, <2>3, <2>4 DEF DrainInv, batch, files
<1>15. CASE DrainReturn
  <2>1. phase' \in {"pool", "ended"} /\ phase = "drain"
        /\ UNCHANGED <<lane, batch, files, sweep, sweeping, past>>
    BY <1>15 DEF DrainReturn
  <2> QED BY <2>1 DEF DrainInv, lane, batch, files, Settled
<1>16. CASE WallPasses
  BY <1>16 DEF WallPasses, DrainInv, lane, batch, files, Settled
<1>17. CASE UNCHANGED vars
  BY <1>17 DEF vars, DrainInv, lane, batch, files, driver, Settled
<1> QED
  BY <1>2, <1>3, <1>4, <1>5, <1>6, <1>7, <1>8, <1>9, <1>10, <1>12, <1>13, <1>14, <1>15, <1>16,
     <1>17 DEF Next

\* For any bundles, sweeps and raising batches: when drain returns before the
\* wall and no batch raised, every bundle on disk is settled.
THEOREM DrainsSettle == Spec => DrainSettles
<1>1. Init => DrainInv
  BY DEF Init, DrainInv
<1>2. TypeOK /\ DrainInv /\ [Next]_vars => DrainInv'
  BY DrainStep
<1>3. DrainInv /\ [Next]_vars =>
        [(phase = "drain" /\ phase' # "drain" /\ ~past /\ ~failed) =>
            \A c \in disk : Settled(c)]_vars
  <2> SUFFICES ASSUME DrainInv, Next, phase = "drain", phase' # "drain", ~past, ~failed
               PROVE  \A c \in disk : Settled(c)
    OBVIOUS
  <2>1. DrainReturn
    BY DEF Next, Watch, Done, ExpandScan, ExpandDecide, ExpandRaise, ExpandMint, FileCrash,
           MoveCrash, SweepBegin, SweepHandOver, BarrierBegin, BarrierHandOver, WallPasses,
           driver
  <2> QED BY <2>1 DEF DrainReturn, DrainInv
<1> QED BY <1>1, <1>2, <1>3, LaneTypeCorrect, PTL DEF Spec, DrainSettles

-----------------------------------------------------------------------------
(* AgentSession *)

\* Once the wrapper is gone the session is: nothing starts after it.
GoneInv ==
    /\ wrapper \in {"reaped", "tail", "gone"} => cli # "run"
    /\ wrapper = "gone" => ~bg
    /\ stage \in {"check", "over"} => wrapper = "gone"

\* A status is the CLI's own unless somebody ended it; an exit is the CLI's own,
\* or somebody asked for it and what he does next keeps it out of the status.
OwnInv ==
    /\ wrc \in Codes \cup {"signal"} => cli = wrc
    /\ cli \in Codes =>
         \/ alone \/ watch \in {"asked", "done"}
         \/ stage = "stop" \/ capped
         \/ wrapper \in {"escalate", "forward"} \/ wrc \in {"timeout", "forwarded"}
    /\ stage = "wait" => capped \/ wrapper = "gone"
    /\ stage \in {"poll", "sweep", "stop"} => ~capped
    /\ stage \notin {"check", "over"} => result = "none"
    /\ result \in {"ok", "fail"} => result = wrc /\ ~capped

SessionInv == SessionTypeOK /\ GoneInv /\ OwnInv

\* The types by kind of value.
FlagsOK == bg \in BOOLEAN /\ crash \in BOOLEAN /\ capped \in BOOLEAN /\ alone \in BOOLEAN
NumbersOK ==
    /\ calls \in 0 .. MaxCalls /\ seen \in 0 .. calls /\ limit \in 0 .. (MaxCalls + Grace)
    /\ attempt \in 1 .. 2
StepsOK ==
    /\ cli \in Codes \cup {"run", "signal"}
    /\ wrapper \in {"wait", "reaped", "tail", "escalate", "forward", "gone"}
    /\ wrc \in Statuses \cup {"none"} /\ (wrc # "none" <=> wrapper = "gone")
    /\ stage \in {"poll", "sweep", "stop", "wait", "check", "over"}
    /\ watch \in {"none", "on", "asked", "done"}
    /\ result \in Statuses \cup {"none", "checkpoint"}

\* Every variable keeps its type.
LEMMA SessionTypeStep ==
    ASSUME SessionInv, [SessionNext]_sessionVars
    PROVE  SessionTypeOK'
  <1>1. FlagsOK'
    <2> USE DEF SessionInv, SessionTypeOK, cliVars, callerVars, FlagsOK
    <2>1. CASE Works \/ Exits \/ Reaps \/ ClearAlarm
      BY <2>1, Zenon DEF Works, Exits, Reaps, ClearAlarm
    <2>2. CASE Leaves \/ Escalate \/ Forwarded \/ Alarm
      BY <2>2, Zenon DEF Leaves, Escalate, Forwarded, Killed, Leave, Alarm, Asked
    <2>3. CASE WatchdogAsks \/ WatchdogStops
      BY <2>3, Zenon DEF WatchdogAsks, WatchdogStops, Asked, Forward
    <2>4. CASE Poll \/ Collect \/ Conclude \/ Terminate
      BY <2>4, Zenon DEF Poll, Collect, Conclude, Terminate, Forward
    <2>5. CASE Sweep
      BY <2>5, Zenon DEF Sweep
    <2>6. CASE Retry
      BY <2>6, Zenon DEF Retry, Launched
    <2>7. CASE UNCHANGED sessionVars
      BY <2>7, Zenon DEF sessionVars
    <2> QED
      BY <2>1, <2>2, <2>3, <2>4, <2>5, <2>6, <2>7 DEF SessionNext, Wrapper, Caller
  <1>2. NumbersOK' /\ StepsOK'
    <2>0. NumbersOK /\ StepsOK /\ GoneInv
      BY DEF SessionInv, SessionTypeOK, NumbersOK, StepsOK
    <2> USE <2>0, SessionAssumption DEF NumbersOK, StepsOK, GoneInv, Codes, Statuses, cliVars, callerVars
    <2>1. CASE Works
      BY <2>1 DEF Works
    <2>2. CASE Exits
      BY <2>2 DEF Exits
    <2>3. CASE Reaps \/ ClearAlarm
      BY <2>3 DEF Reaps, ClearAlarm
    <2>4. CASE Leaves \/ Escalate \/ Forwarded
      BY <2>4 DEF Leaves, Escalate, Forwarded, Killed, Leave
    <2>5. CASE Alarm
      BY <2>5 DEF Alarm, Armed, Asked
    <2>6. CASE WatchdogAsks \/ WatchdogStops
      BY <2>6 DEF WatchdogAsks, WatchdogStops, Asked, Forward
    <2>7. CASE Poll
      BY <2>7 DEF Poll
    <2>8. CASE Sweep \/ Terminate
      BY <2>8 DEF Sweep, Terminate, Forward
    <2>9. CASE Collect \/ Conclude
      BY <2>9 DEF Collect, Conclude
    <2>10. CASE Retry
      BY <2>10 DEF Retry, Launched
    <2>11. CASE UNCHANGED sessionVars
      BY <2>11 DEF sessionVars
    <2> QED
      BY <2>1, <2>2, <2>3, <2>4, <2>5, <2>6, <2>7, <2>8, <2>9, <2>10, <2>11
      DEF SessionNext, Wrapper, Caller
  <1> QED BY <1>1, <1>2 DEF SessionTypeOK, FlagsOK, NumbersOK, StepsOK

\* Neither signal changes how a CLI that has ended did.
LEMMA AskedKeepsEnd == ASSUME Asked PROVE (cli # "run" => cli' = cli) /\ alone' = alone
  BY Zenon DEF Asked

LEMMA KilledEnds ==
    ASSUME Killed, StepsOK
    PROVE  cli' # "run" /\ (cli # "run" => cli' = cli) /\ (cli = "run" => cli' = "signal") /\ alone' = alone
  <1>1. cli' = (IF cli = "run" THEN "signal" ELSE cli) /\ alone' = alone
    BY Zenon DEF Killed
  <1> QED BY <1>1

LEMMA SweptCli ==
    ASSUME Sweep
    PROVE  /\ cli # "run" => cli' = cli
           /\ stage = "sweep" /\ stage' = "stop"
           /\ UNCHANGED <<calls, crash, alone, wrapper, wrc, watch, seen, limit, capped, attempt, result>>
  BY Zenon DEF Sweep

\* Nothing brings a process of the session back, short of starting it again.
LEMMA GoneStep ==
    ASSUME SessionInv, [SessionNext]_sessionVars
    PROVE  GoneInv'
  <1>1. (wrapper' = "gone" => ~bg')
    <2> USE DEF SessionInv, SessionTypeOK, GoneInv, cliVars, callerVars
    <2>1. CASE Works \/ Exits \/ Reaps \/ ClearAlarm
      BY <2>1, Zenon DEF Works, Exits, Reaps, ClearAlarm
    <2>2. CASE Leaves \/ Escalate \/ Forwarded \/ Alarm
      BY <2>2, Zenon DEF Leaves, Escalate, Forwarded, Killed, Leave, Alarm, Asked
    <2>3. CASE WatchdogAsks \/ WatchdogStops
      BY <2>3, Zenon DEF WatchdogAsks, WatchdogStops, Asked, Forward
    <2>4. CASE Poll \/ Collect \/ Conclude \/ Terminate
      BY <2>4, Zenon DEF Poll, Collect, Conclude, Terminate, Forward
    <2>5. CASE Sweep
      BY <2>5, Zenon DEF Sweep
    <2>6. CASE Retry
      BY <2>6, Zenon DEF Retry, Launched
    <2>7. CASE UNCHANGED sessionVars
      BY <2>7, Zenon DEF sessionVars
    <2> QED
      BY <2>1, <2>2, <2>3, <2>4, <2>5, <2>6, <2>7 DEF SessionNext, Wrapper, Caller
  <1>2. /\ wrapper' \in {"reaped", "tail", "gone"} => cli' # "run"
        /\ stage' \in {"check", "over"} => wrapper' = "gone"
    <2>0. StepsOK /\ GoneInv
      BY DEF SessionInv, SessionTypeOK, StepsOK
    <2> USE <2>0 DEF StepsOK, GoneInv, Codes, Statuses, cliVars, callerVars
    <2>1. CASE Works \/ Exits \/ Reaps \/ ClearAlarm
      BY <2>1 DEF Works, Exits, Reaps, ClearAlarm
    <2>2. CASE Leaves \/ Escalate \/ Forwarded \/ Alarm
      BY <2>2, AskedKeepsEnd, KilledEnds DEF Leaves, Escalate, Forwarded, Leave, Alarm, Armed
    <2>3. CASE WatchdogAsks \/ WatchdogStops
      BY <2>3 DEF WatchdogAsks, WatchdogStops, Asked, Forward
    <2>4. CASE Poll \/ Collect \/ Conclude \/ Terminate
      BY <2>4 DEF Poll, Collect, Conclude, Terminate, Forward
    <2>5. CASE Sweep
      BY <2>5 DEF Sweep
    <2>6. CASE Retry
      BY <2>6 DEF Retry, Launched
    <2>7. CASE UNCHANGED sessionVars
      BY <2>7 DEF sessionVars
    <2> QED
      BY <2>1, <2>2, <2>3, <2>4, <2>5, <2>6, <2>7 DEF SessionNext, Wrapper, Caller
  <1> QED BY <1>1, <1>2 DEF GoneInv

\* Whoever ends the CLI goes on to what keeps its exit out of the status.
LEMMA OwnStep ==
    ASSUME SessionInv, [SessionNext]_sessionVars
    PROVE  OwnInv'
  <1>0. StepsOK /\ GoneInv /\ OwnInv /\ alone \in BOOLEAN /\ capped \in BOOLEAN
    BY DEF SessionInv, SessionTypeOK, StepsOK
  <1> USE <1>0 DEF StepsOK, GoneInv, OwnInv, Codes, Statuses, cliVars, callerVars
  <1>1. CASE Works
    BY <1>1 DEF Works
  <1>2. CASE Exits
    BY <1>2 DEF Exits
  <1>3. CASE Reaps \/ ClearAlarm
    BY <1>3 DEF Reaps, ClearAlarm
  <1>4. CASE Leaves \/ Escalate \/ Forwarded
    BY <1>4 DEF Leaves, Escalate, Forwarded, Killed, Leave
  <1>5. CASE Alarm
    BY <1>5 DEF Alarm, Armed, Asked
  <1>6. CASE WatchdogAsks \/ WatchdogStops
    BY <1>6, AskedKeepsEnd DEF WatchdogAsks, WatchdogStops, Forward
  <1>7. CASE Poll
    BY <1>7 DEF Poll
  <1>8. CASE Sweep \/ Terminate
    BY <1>8, SweptCli DEF Terminate, Forward
  <1>9. CASE Collect \/ Conclude
    BY <1>9 DEF Collect, Conclude
  <1>10. CASE Retry
    BY <1>10 DEF Retry, Launched
  <1>11. CASE UNCHANGED sessionVars
    BY <1>11 DEF sessionVars
  <1> QED
    BY <1>1, <1>2, <1>3, <1>4, <1>5, <1>6, <1>7, <1>8, <1>9, <1>10, <1>11
    DEF SessionNext, Wrapper, Caller

LEMMA SessionInitInv == SessionInit => SessionInv
  <1> SUFFICES ASSUME SessionInit PROVE SessionInv
    OBVIOUS
  <1>1. FlagsOK
    BY Zenon DEF SessionInit, FlagsOK
  <1>2. NumbersOK /\ StepsOK
    BY SessionAssumption DEF SessionInit, NumbersOK, StepsOK, Codes, Statuses
  <1>3. GoneInv /\ OwnInv
    BY DEF SessionInit, GoneInv, OwnInv, Codes
  <1> QED BY <1>1, <1>2, <1>3 DEF SessionInv, SessionTypeOK, FlagsOK, NumbersOK, StepsOK

\* A session's state keeps its types: a status is there when the wrapper is gone.
THEOREM SessionTypeCorrect == SessionSpec => []SessionTypeOK
  <1>1. SessionInv /\ [SessionNext]_sessionVars => SessionInv'
    BY SessionTypeStep, GoneStep, OwnStep DEF SessionInv
  <1>2. SessionInv => SessionTypeOK
    BY DEF SessionInv
  <1> QED BY <1>1, <1>2, SessionInitInv, PTL DEF SessionSpec

\* When the caller goes on nothing of the session runs, and a status reported as
\* the CLI's own is the one it returned unasked.
THEOREM SessionsAreKept == SessionSpec => []SessionKept
  <1>1. SessionInv /\ [SessionNext]_sessionVars => SessionInv'
    BY SessionTypeStep, GoneStep, OwnStep DEF SessionInv
  <1>2. SessionInv => SessionKept
    BY DEF SessionInv, SessionTypeOK, GoneInv, OwnInv, NothingLeft, StatusTrue, SessionKept, Codes, Statuses
  <1> QED BY <1>1, <1>2, SessionInitInv, PTL DEF SessionSpec

-----------------------------------------------------------------------------
(* Sweep *)

Stops == {"", "interrupted", "budget", "exhausted", "incomplete", "backend"}
Jobs == {"idle", "loop", "charged", "asked", "leads"}
Receipts == [unit : Units, sha : Versions, by : {"agent", "sweep"}, shown : Versions]

\* The types by kind of state.
LedgersOK ==
    /\ src \in [Files -> Versions] /\ man \in [Files -> Versions] /\ offered \subseteq Files
    /\ receipts \subseteq Receipts
    /\ reads \subseteq [unit : Units, sha : Versions, shown : Versions]
    /\ leads \subseteq Units /\ held \subseteq Units
    /\ looked \in [Units -> Versions \cup {0}]
ProcessOK ==
    /\ job \in Jobs /\ queue \in Seq(Units)
    /\ (job \in {"charged", "asked", "leads"} => queue # <<>>)
    /\ psha \in [Files -> Versions \cup {0}] /\ open \subseteq Units
CallsOK ==
    /\ asked \in [Units -> [Versions -> Nat]]
    /\ forgiven \in [Units -> [Versions -> Nat]]
CountsOK ==
    /\ edits \in 0 .. MaxEdits /\ launches \in 0 .. MaxLaunches
    /\ marks \in 0 .. MaxMarks /\ kills \in Nat
    /\ fails \in 0 .. MaxFails /\ term \in BOOLEAN
MoneyOK ==
    /\ saved \in [spent : 0 .. TokenBudget + 1, stop : Stops]
    /\ spent \in 0 .. TokenBudget + 1 /\ paid \in Nat

\* A running sweep planned with the manifest's contents, a manifest is never of
\* a content newer than the checkout's, and every edit makes a new one.
VersionsInv ==
    /\ \A f \in Files : man[f] <= src[f] /\ src[f] <= edits + 1
    /\ job # "idle" => \A f \in Files : psha[f] \in Versions /\ psha[f] <= man[f]

\* What is spent is saved, the reply at hand excepted; what is paid was spent, or
\* forgotten by a kill.
SpentInv ==
    /\ job = "idle" => paid <= saved.spent + kills
    /\ job = "loop" => spent = saved.spent /\ paid <= spent + kills
    /\ job = "charged" => spent = saved.spent /\ spent \in 1 .. TokenBudget /\ paid + 1 <= spent + kills
    /\ job = "asked" => spent = saved.spent /\ spent \in 1 .. TokenBudget /\ paid <= spent + kills
    /\ job = "leads" => spent <= TokenBudget + 1 /\ saved.spent + 1 = spent /\ paid <= spent + kills

\* A unit is asked about at a content for the first time, or because no call
\* brought anything: else it was receipted at that content, the manifest has gone
\* on to another, or its call is still out.
Known(u, v) == (\E r \in receipts : r.unit = u /\ r.sha = v) \/ v < man[u[1]]
About(u, v) == u = Head(queue) /\ v = psha[u[1]]
Once(u, v) ==
    /\ asked[u][v] <= forgiven[u][v] + 1
    /\ asked[u][v] = forgiven[u][v] + 1 => Known(u, v) \/ (job = "asked" /\ About(u, v))
    /\ job = "charged" /\ About(u, v) => asked[u][v] <= forgiven[u][v]
OnceInv ==
    /\ \A u \in Units, v \in Versions : Once(u, v)
    /\ job \in {"charged", "asked"} => Head(queue) \in open

\* A unit that is no longer open, and every unit once a sweep said it was
\* exhausted, has a receipt.
Receipted(u) == \E r \in receipts : r.unit = u
OpenInv ==
    /\ job # "idle" => \A u \in Units \ open : Receipted(u)
    /\ saved.stop = "exhausted" => \A u \in Units : Receipted(u)

ReadInv ==
    /\ SweepTypeOK /\ VersionsInv /\ SpentInv /\ OnceInv /\ OpenInv /\ ReceiptIsOfContent

-----------------------------------------------------------------------------
LEMMA TypeParts == SweepTypeOK <=> LedgersOK /\ ProcessOK /\ CallsOK /\ CountsOK /\ MoneyOK
  BY Zenon DEF SweepTypeOK, LedgersOK, ProcessOK, CallsOK, CountsOK, MoneyOK, Stops, Jobs, Receipts

\* A unit is one of a file.
LEMMA UnitFile == \A u \in Units : u[1] \in Files
  BY DEF Units

\* There are finitely many units.
LEMMA ImageFinite ==
    ASSUME NEW S, NEW f, IsFiniteSet(S)
    PROVE  IsFiniteSet({f[x] : x \in S})
  <1> DEFINE T == {f[x] : x \in S}
             g == [x \in S |-> f[x]]
  <1>1. g \in [S -> T] /\ \A t \in T : \E x \in S : g[x] = t
    OBVIOUS
  <1>2. g \in Surjection(S, T)
    BY <1>1 DEF Surjection
  <1> HIDE DEF T, g
  <1>3. IsFiniteSet(T)
    BY <1>2, FS_Surjection
  <1> QED BY <1>3 DEF T

LEMMA UnitsFinite == IsFiniteSet(Units)
  <1> DEFINE At(f) == [i \in Nat |-> <<f, i>>]
             Of == [f \in Files |-> {At(f)[i] : i \in 1 .. UnitsOf[f]}]
  <1>1. ASSUME NEW f \in Files PROVE IsFiniteSet({At(f)[i] : i \in 1 .. UnitsOf[f]})
    <2>1. UnitsOf[f] \in Nat /\ IsFiniteSet(1 .. UnitsOf[f])
      BY SweepAssumption, FS_Interval
    <2> HIDE DEF At
    <2> QED BY <2>1, ImageFinite
  <1>2. IsFiniteSet({Of[f] : f \in Files})
    <2> HIDE DEF Of
    <2> QED BY SweepAssumption, ImageFinite
  <1>3. \A T \in {Of[f] : f \in Files} : IsFiniteSet(T)
    BY <1>1
  <1>4. Units = UNION {Of[f] : f \in Files}
    <2>1. ASSUME NEW f \in Files PROVE Of[f] = {<<f, i>> : i \in 1 .. UnitsOf[f]}
      <3>1. \A i \in 1 .. UnitsOf[f] : At(f)[i] = <<f, i>>
        BY SweepAssumption
      <3> HIDE DEF At
      <3> QED BY <3>1
    <2> HIDE DEF Of
    <2> QED BY <2>1 DEF Units
  <1> HIDE DEF Of
  <1> QED BY <1>2, <1>3, <1>4, FS_UNION

\* A plan is a sequence of units.
LEMMA PlansAreOfUnits == Plans \subseteq Seq(Units)
  <1> DEFINE rest == Units \ Covered
             n == Cardinality(rest)
  <1>1. n \in Nat
    BY UnitsFinite, FS_Subset, FS_CardinalityType
  <1>2. ASSUME NEW p \in Plans PROVE p \in [1 .. n -> Units]
    BY DEF Plans
  <1> HIDE DEF n
  <1>3. ASSUME NEW p \in [1 .. n -> Units] PROVE p \in Seq(Units)
    BY <1>1, SeqDef
  <1> QED BY <1>2, <1>3

-----------------------------------------------------------------------------
(* Steps *)

\* Where the sweep is, and the unit it is about.
LEMMA HeadOf ==
    ASSUME ProcessOK, queue # <<>>
    PROVE  Head(queue) \in Units /\ Head(queue)[1] \in Files /\ Tail(queue) \in Seq(Units)
  BY UnitFile DEF ProcessOK

\* The ledgers keep their types.
LEMMA LedgersStep ==
    ASSUME ReadInv, [SweepNext]_sweepVars
    PROVE  LedgersOK'
  <1>0. LedgersOK /\ ProcessOK /\ CountsOK /\ VersionsInv
    BY TypeParts DEF ReadInv
  <1> USE <1>0, SweepAssumption, UnitFile DEF LedgersOK, listed, process, billed, count, Versions, Receipts, CountsOK
  <1>1. ASSUME NEW w \in SUBSET Files, Rank(w) PROVE LedgersOK'
    BY <1>1 DEF Rank
  <1>2. ASSUME NEW f \in Files, Edit(f) PROVE LedgersOK'
    BY <1>2 DEF Edit
  <1>3. ASSUME NEW u \in Units, Look(u) PROVE LedgersOK'
    BY <1>3 DEF Look
  <1>4. ASSUME NEW u \in Units, Mark(u) PROVE LedgersOK'
    BY <1>4 DEF Mark
  <1>5. CASE Observe
    BY <1>5 DEF Observe
  <1>6. CASE Launch
    BY <1>6 DEF Launch
  <1>7. CASE StopSweep
    BY <1>7 DEF StopSweep, Finish
  <1>8. CASE PassOver \/ Charge \/ Send \/ Term
    BY <1>8 DEF PassOver, Charge, Send, Term
  <1>9. CASE Refund
    BY <1>9 DEF Refund, Finish
  <1>10. ASSUME NEW a, Reply(a) PROVE LedgersOK'
    <2>1. Head(queue) \in Units /\ psha[Head(queue)[1]] \in Versions
      BY <1>10, HeadOf DEF Reply, ProcessOK, VersionsInv
    <2> QED BY <1>10, <2>1 DEF Reply, Fail, Finish
  <1>11. CASE Leads
    BY <1>11 DEF Leads
  <1>12. CASE KillSweep
    BY <1>12 DEF KillSweep
  <1>13. CASE UNCHANGED sweepVars
    BY <1>13 DEF sweepVars
  <1> QED
    BY <1>1, <1>2, <1>3, <1>4, <1>5, <1>6, <1>7, <1>8, <1>9, <1>10, <1>11, <1>12, <1>13
    DEF SweepNext, SweepSteps

\* So does the sweep.
LEMMA ProcessStep ==
    ASSUME ReadInv, [SweepNext]_sweepVars
    PROVE  ProcessOK'
  <1>0. LedgersOK /\ ProcessOK
    BY TypeParts DEF ReadInv
  <1>q. queue # <<>> => Tail(queue) \in Seq(Units)
    BY <1>0, HeadOf
  <1>o. Open \subseteq Units
    BY <1>0 DEF Open, ProcessOK
  <1>e. Quit => ProcessOK'
    BY DEF Quit, ProcessOK, Jobs
  <1> USE <1>0 DEF ProcessOK, Jobs, listed, process, billed, count
  <1>1. ASSUME NEW w \in SUBSET Files, Rank(w) PROVE ProcessOK'
    BY <1>1 DEF Rank
  <1>2. ASSUME NEW f \in Files, Edit(f) PROVE ProcessOK'
    BY <1>2 DEF Edit
  <1>3. ASSUME NEW u \in Units, Look(u) \/ Mark(u) PROVE ProcessOK'
    BY <1>3 DEF Look, Mark
  <1>5. CASE Observe
    BY <1>5 DEF Observe
  <1>6. CASE Launch
    BY <1>6, PlansAreOfUnits DEF Launch, LedgersOK
  <1>7. CASE StopSweep
    BY <1>7, <1>e DEF StopSweep, Finish
  <1>8. CASE PassOver \/ Charge \/ Send \/ Term
    BY <1>8, <1>q, <1>o DEF PassOver, Charge, Send, Term
  <1>9. CASE Refund
    BY <1>9, <1>e DEF Refund, Finish
  <1>10. ASSUME NEW a, Reply(a) PROVE ProcessOK'
    BY <1>10, <1>e, <1>q, <1>o DEF Reply, Fail, Finish
  <1>11. CASE Leads
    BY <1>11, <1>e, <1>q DEF Leads
  <1>12. CASE KillSweep
    BY <1>12, <1>e DEF KillSweep
  <1>13. CASE UNCHANGED sweepVars
    BY <1>13 DEF sweepVars
  <1> QED
    BY <1>1, <1>2, <1>3, <1>5, <1>6, <1>7, <1>8, <1>9, <1>10, <1>11, <1>12, <1>13
    DEF SweepNext, SweepSteps

\* Counting one call more.
LEMMA CountedOf ==
    ASSUME NEW n \in [Units -> [Versions -> Nat]], NEW u \in Units, psha[u[1]] \in Versions
    PROVE  /\ Counted(n, u) \in [Units -> [Versions -> Nat]]
           /\ \A w \in Units, v \in Versions :
                 Counted(n, u)[w][v] = IF w = u /\ v = psha[u[1]] THEN n[w][v] + 1 ELSE n[w][v]
  BY DEF Counted

\* The unit a running sweep is about was planned with a content.
LEMMA PlannedWith ==
    ASSUME ReadInv, job \in {"charged", "asked", "leads"}
    PROVE  Head(queue) \in Units /\ psha[Head(queue)[1]] \in Versions
  BY TypeParts, HeadOf DEF ReadInv, ProcessOK, VersionsInv

\* The calls, the counters and the tokens keep their types.
LEMMA CallsStep ==
    ASSUME ReadInv, [SweepNext]_sweepVars
    PROVE  CallsOK'
  <1>0. CallsOK /\ ProcessOK
    BY TypeParts DEF ReadInv
  <1> USE <1>0 DEF CallsOK, listed, process, billed, count
  <1>1. ASSUME NEW w \in SUBSET Files, Rank(w) PROVE CallsOK'
    BY <1>1 DEF Rank
  <1>2. ASSUME NEW f \in Files, Edit(f) PROVE CallsOK'
    BY <1>2 DEF Edit
  <1>3. ASSUME NEW u \in Units, Look(u) \/ Mark(u) PROVE CallsOK'
    BY <1>3 DEF Look, Mark
  <1>5. CASE Observe \/ Launch \/ StopSweep \/ PassOver \/ Charge \/ Refund \/ Term \/ Leads
    BY <1>5 DEF Observe, Launch, StopSweep, PassOver, Charge, Refund, Term, Leads
  <1>6. CASE Send
    BY <1>6, PlannedWith, CountedOf DEF Send
  <1>7. ASSUME NEW a, Reply(a) PROVE CallsOK'
    <2>1. forgiven' \in {forgiven, Counted(forgiven, Head(queue))} /\ asked' = asked /\ job = "asked"
      BY <1>7 DEF Reply, Fail
    <2> QED BY <2>1, PlannedWith, CountedOf
  <1>8. CASE KillSweep
    <2>1. asked' = asked /\ ((job = "asked" /\ forgiven' = Counted(forgiven, Head(queue))) \/ forgiven' = forgiven)
      BY <1>8 DEF KillSweep
    <2> QED BY <2>1, PlannedWith, CountedOf
  <1>9. CASE UNCHANGED sweepVars
    BY <1>9 DEF sweepVars
  <1> QED
    BY <1>1, <1>2, <1>3, <1>5, <1>6, <1>7, <1>8, <1>9 DEF SweepNext, SweepSteps

\* The bounds hold.
LEMMA CountsStep ==
    ASSUME ReadInv, [SweepNext]_sweepVars
    PROVE  CountsOK'
  <1>0. CountsOK
    BY TypeParts DEF ReadInv
  <1>1. term' \in BOOLEAN
    <2> USE <1>0 DEF CountsOK, listed, process, billed, count
    <2>1. CASE (\E w \in SUBSET Files : Rank(w)) \/ (\E f \in Files : Edit(f))
      BY <2>1, Zenon DEF Rank, Edit
    <2>2. CASE (\E u \in Units : Look(u) \/ Mark(u)) \/ Observe \/ Launch
      BY <2>2, Zenon DEF Look, Mark, Observe, Launch
    <2>3. CASE StopSweep \/ PassOver \/ Charge \/ Refund \/ Send
      BY <2>3, Zenon DEF StopSweep, PassOver, Charge, Refund, Send, Finish, Quit
    <2>4. CASE Leads \/ Term \/ KillSweep
      BY <2>4, Zenon DEF Leads, Term, KillSweep, Quit
    <2>5. ASSUME NEW a, Reply(a) PROVE term' \in BOOLEAN
      BY <2>5, Zenon DEF Reply, Fail, Finish, Quit
    <2>6. CASE UNCHANGED sweepVars
      BY <2>6, Zenon DEF sweepVars
    <2> QED BY <2>1, <2>2, <2>3, <2>4, <2>5, <2>6 DEF SweepNext, SweepSteps
  <1>2. /\ edits' \in 0 .. MaxEdits /\ launches' \in 0 .. MaxLaunches
        /\ marks' \in 0 .. MaxMarks /\ kills' \in Nat /\ fails' \in 0 .. MaxFails
    <2> DEFINE Goal == /\ edits' \in 0 .. MaxEdits /\ launches' \in 0 .. MaxLaunches
                       /\ marks' \in 0 .. MaxMarks /\ kills' \in Nat /\ fails' \in 0 .. MaxFails
    <2> USE <1>0, SweepAssumption DEF CountsOK, listed, process, billed, count
    <2>1. ASSUME NEW w \in SUBSET Files, Rank(w) PROVE Goal
      BY <2>1 DEF Rank
    <2>2. ASSUME NEW f \in Files, Edit(f) PROVE Goal
      BY <2>2 DEF Edit
    <2>3. ASSUME NEW u \in Units, Look(u) \/ Mark(u) PROVE Goal
      BY <2>3 DEF Look, Mark
    <2>4. CASE Observe \/ Launch
      BY <2>4 DEF Observe, Launch
    <2>5. CASE StopSweep \/ PassOver \/ Charge \/ Refund \/ Send
      BY <2>5 DEF StopSweep, PassOver, Charge, Refund, Send, Finish, Quit
    <2>6. CASE Leads \/ Term \/ KillSweep
      BY <2>6 DEF Leads, Term, KillSweep, Quit
    <2>7. ASSUME NEW a, Reply(a) PROVE Goal
      BY <2>7 DEF Reply, Fail, Finish, Quit
    <2>8. CASE UNCHANGED sweepVars
      BY <2>8 DEF sweepVars
    <2> QED
      BY <2>1, <2>2, <2>3, <2>4, <2>5, <2>6, <2>7, <2>8 DEF SweepNext, SweepSteps
  <1> QED BY <1>1, <1>2 DEF CountsOK

\* What is spent is saved before it is needed: the budget holds over restarts.
LEMMA MoneyStep ==
    ASSUME ReadInv, [SweepNext]_sweepVars
    PROVE  MoneyOK' /\ SpentInv'
  <1>0. MoneyOK /\ SpentInv /\ job \in Jobs /\ kills \in Nat
    BY TypeParts DEF ReadInv, ProcessOK, CountsOK
  <1> DEFINE Still == UNCHANGED <<saved, job, spent, paid, kills>>
  <1>s. Still => MoneyOK' /\ SpentInv'
    BY <1>0 DEF MoneyOK, SpentInv
  <1>i. "interrupted" \in Stops
    BY DEF Stops
  <1>p. ASSUME NEW stop, NEW n, Persist(stop, n) PROVE saved'.spent = n /\ saved'.stop = stop /\ saved' = [spent |-> n, stop |-> stop]
    BY <1>p DEF Persist
  <1> USE <1>0, SweepAssumption DEF MoneyOK, SpentInv, Jobs, listed, process, billed, count
  <1>1. ASSUME NEW w \in SUBSET Files, Rank(w) PROVE Still
    BY <1>1 DEF Rank
  <1>2. ASSUME NEW f \in Files, Edit(f) PROVE Still
    BY <1>2 DEF Edit
  <1>3. ASSUME NEW u \in Units, Look(u) \/ Mark(u) PROVE Still
    BY <1>3 DEF Look, Mark
  <1>4. CASE Observe \/ PassOver \/ Term
    <2>1. Still
      BY <1>4 DEF Observe, PassOver, Term
    <2> QED BY <2>1, <1>s
  <1>5. CASE Launch
    BY <1>5 DEF Launch
  <1>6. CASE StopSweep
    <2>1. /\ \E stop \in Stops : Persist(stop, spent)
          /\ job = "loop" /\ job' = "idle" /\ spent' = 0 /\ paid' = paid /\ kills' = kills
      BY <1>6 DEF StopSweep, Finish, Quit, Verdict, Stops
    <2> QED BY <2>1, <1>p
  <1>7. CASE Charge
    <2>1. /\ Persist("interrupted", spent + 1)
          /\ job = "loop" /\ job' = "charged" /\ spent' = spent + 1 /\ spent + 1 <= TokenBudget
          /\ paid' = paid /\ kills' = kills
      BY <1>7 DEF Charge
    <2>2. saved' = [spent |-> spent + 1, stop |-> "interrupted"]
      BY <2>1 DEF Persist
    <2>3. MoneyOK'
      BY <2>1, <2>2, <1>i
    <2>4. SpentInv'
      BY <2>1, <2>2
    <2> QED BY <2>3, <2>4
  <1>8. CASE Refund
    <2>1. /\ Persist("interrupted", spent - 1)
          /\ job = "charged" /\ job' = "idle" /\ spent' = 0 /\ paid' = paid /\ kills' = kills
      BY <1>8 DEF Refund, Finish, Quit
    <2>2. saved' = [spent |-> spent - 1, stop |-> "interrupted"]
      BY <2>1 DEF Persist
    <2>3. MoneyOK'
      BY <2>1, <2>2, <1>i
    <2>4. SpentInv'
      BY <2>1, <2>2
    <2> QED BY <2>3, <2>4
  <1>9. CASE Send
    BY <1>9 DEF Send
  <1>10. ASSUME NEW a, Reply(a) PROVE MoneyOK' /\ SpentInv'
    <2>1. job = "asked" /\ kills' = kills
      BY <1>10 DEF Reply
    <2>2. CASE job' = "leads" /\ spent' = spent + 1 /\ saved' = saved /\ paid' \in {paid, paid + 1}
      BY <2>1, <2>2
    <2>3. ASSUME NEW cost \in {0, 1}, Fail(cost), paid' = paid + cost PROVE MoneyOK' /\ SpentInv'
      <3>1. /\ \E stop \in Stops : Persist(stop, spent + cost)
            /\ \/ job' = "idle" /\ spent' = 0
               \/ job' = "loop" /\ spent' = spent + cost
        BY <2>3 DEF Fail, Finish, Quit, Stops
      <3> QED BY <3>1, <2>1, <2>3, <1>p
    <2> QED BY <1>10, <2>2, <2>3 DEF Reply
  <1>11. CASE Leads
    <2>1. /\ Persist("interrupted", spent)
          /\ job = "leads" /\ paid' = paid /\ kills' = kills
          /\ \/ job' = "idle" /\ spent' = 0
             \/ job' = "loop" /\ spent' = spent
      BY <1>11 DEF Leads, Quit
    <2>2. saved' = [spent |-> spent, stop |-> "interrupted"]
      BY <2>1 DEF Persist
    <2>3. MoneyOK'
      BY <2>1, <2>2, <1>i
    <2>4. SpentInv'
      BY <2>1, <2>2
    <2> QED BY <2>3, <2>4
  <1>12. CASE KillSweep
    BY <1>12 DEF KillSweep, Quit
  <1>13. CASE UNCHANGED sweepVars
    <2>1. Still
      BY <1>13 DEF sweepVars
    <2> QED BY <2>1, <1>s
  <1> QED
    BY <1>s, <1>1, <1>2, <1>3, <1>4, <1>5, <1>6, <1>7, <1>8, <1>9, <1>10, <1>11, <1>12, <1>13
    DEF SweepNext, SweepSteps

\* Contents only move on.
LEMMA VersionsStep ==
    ASSUME ReadInv, [SweepNext]_sweepVars
    PROVE  VersionsInv' /\ \A f \in Files : man[f] <= man'[f]
  <1>0. LedgersOK /\ VersionsInv /\ edits \in Nat
    BY TypeParts, SweepAssumption DEF ReadInv, CountsOK
  <1> DEFINE Goal == VersionsInv' /\ \A f \in Files : man[f] <= man'[f]
  <1>s. UNCHANGED <<src, man, edits>> /\ (job' # "idle" => psha' = psha /\ job # "idle") => Goal
    BY <1>0 DEF LedgersOK, VersionsInv, Versions
  <1> USE DEF listed, process, billed, count
  <1>1. ASSUME NEW w \in SUBSET Files, Rank(w) PROVE Goal
    BY <1>1, <1>0 DEF Rank, LedgersOK, VersionsInv, Versions
  <1>2. ASSUME NEW f \in Files, Edit(f) PROVE Goal
    BY <1>2, <1>0 DEF Edit, LedgersOK, VersionsInv, Versions
  <1>3. ASSUME NEW u \in Units, Look(u) \/ Mark(u) PROVE Goal
    BY <1>3, <1>s DEF Look, Mark
  <1>4. CASE Observe \/ PassOver \/ Term \/ Charge \/ Send
    BY <1>4, <1>s DEF Observe, PassOver, Term, Charge, Send
  <1>5. CASE Launch
    BY <1>5, <1>0 DEF Launch, LedgersOK, VersionsInv, Versions
  <1>6. CASE StopSweep \/ Refund \/ KillSweep \/ Leads
    BY <1>6, <1>s DEF StopSweep, Refund, KillSweep, Leads, Finish, Quit
  <1>7. ASSUME NEW a, Reply(a) PROVE Goal
    BY <1>7, <1>s DEF Reply, Fail, Finish, Quit
  <1>8. CASE UNCHANGED sweepVars
    BY <1>8, <1>s DEF sweepVars
  <1> QED
    BY <1>1, <1>2, <1>3, <1>4, <1>5, <1>6, <1>7, <1>8 DEF SweepNext, SweepSteps

\* Receipts are never taken back.
LEMMA ReceiptsGrow ==
    ASSUME [SweepNext]_sweepVars
    PROVE  receipts \subseteq receipts'
  <1> USE DEF listed, process, billed, count
  <1>1. CASE (\E w \in SUBSET Files : Rank(w)) \/ (\E f \in Files : Edit(f)) \/ Observe \/ Launch
    BY <1>1 DEF Rank, Edit, Observe, Launch
  <1>2. ASSUME NEW u \in Units, Look(u) \/ Mark(u) PROVE receipts \subseteq receipts'
    BY <1>2 DEF Look, Mark
  <1>3. CASE StopSweep \/ PassOver \/ Charge \/ Refund \/ Send \/ Leads \/ Term \/ KillSweep
    BY <1>3 DEF StopSweep, PassOver, Charge, Refund, Send, Leads, Term, KillSweep
  <1>4. ASSUME NEW a, Reply(a) PROVE receipts \subseteq receipts'
    BY <1>4 DEF Reply
  <1>5. CASE UNCHANGED sweepVars
    BY <1>5 DEF sweepVars
  <1> QED BY <1>1, <1>2, <1>3, <1>4, <1>5 DEF SweepNext, SweepSteps

\* So what is known of a unit at a content stays known.
LEMMA KnownStep ==
    ASSUME ReadInv, [SweepNext]_sweepVars, NEW u \in Units, NEW v \in Versions, Known(u, v)
    PROVE  Known(u, v)'
  <1>1. LedgersOK /\ LedgersOK'
    BY LedgersStep, TypeParts DEF ReadInv
  <1>2. man[u[1]] \in Int /\ man'[u[1]] \in Int /\ man[u[1]] <= man'[u[1]] /\ v \in Int
    BY <1>1, VersionsStep, UnitFile DEF LedgersOK, Versions
  <1> QED BY <1>2, ReceiptsGrow DEF Known

\* A unit that may be asked about is one no call has brought anything about.
LEMMA ChargedIsNew ==
    ASSUME ReadInv, job = "loop", queue # <<>>, ~Skips(Head(queue)), NEW v \in Versions, About(Head(queue), v)
    PROVE  asked[Head(queue)][v] <= forgiven[Head(queue)][v]
  <1> DEFINE u == Head(queue)
  <1>0. LedgersOK /\ VersionsInv
    BY TypeParts DEF ReadInv
  <1>1. u \in Units /\ u[1] \in Files
    BY HeadOf, TypeParts DEF ReadInv
  <1>2. u \notin Covered /\ src[u[1]] = psha[u[1]] /\ v = psha[u[1]]
    BY DEF Skips, Open, About
  <1>3. man[u[1]] = v
    <2>1. psha[u[1]] <= man[u[1]] /\ man[u[1]] <= src[u[1]]
      BY <1>0, <1>1 DEF VersionsInv
    <2>2. psha[u[1]] \in Int /\ man[u[1]] \in Int /\ src[u[1]] \in Int
      BY <1>0, <1>1, <1>2 DEF LedgersOK, Versions
    <2> HIDE DEF u
    <2> QED BY <2>1, <2>2, <1>2
  <1>4. ~Known(u, v)
    BY <1>1, <1>2, <1>3 DEF Known, Covered, Versions
  <1>5. asked[u][v] \in Nat /\ forgiven[u][v] \in Nat
    BY <1>1, TypeParts DEF ReadInv, CallsOK
  <1> QED BY <1>1, <1>4, <1>5 DEF ReadInv, OnceInv, Once

\* A reply that is kept makes the unit known.
LEMMA KeptIsKnown ==
    ASSUME ReadInv, job = "asked", NEW u \in Units, NEW v \in Versions, About(u, v),
           u \in Open => Accepts(u), man' = man,
           receipts' = IF u \notin Open THEN receipts
                       ELSE receipts \cup {[unit |-> u, sha |-> man[u[1]], by |-> "sweep",
                                            shown |-> psha[u[1]]]}
    PROVE  Known(u, v)'
  <1>0. LedgersOK /\ VersionsInv /\ OnceInv
    BY TypeParts DEF ReadInv
  <1>1. u[1] \in Files /\ u \in open /\ v = psha[u[1]]
    BY <1>0, UnitFile DEF OnceInv, About
  <1>2. v <= man[u[1]] /\ man[u[1]] \in Int /\ v \in Int
    BY <1>0, <1>1 DEF LedgersOK, VersionsInv, Versions
  <1>3. ASSUME u \in Open PROVE Known(u, v)'
    <2>1. man[u[1]] = v
      BY <1>3, <1>1 DEF Accepts
    <2> DEFINE new == [unit |-> u, sha |-> man[u[1]], by |-> "sweep", shown |-> psha[u[1]]]
    <2>2. new \in receipts'
      BY <1>3
    <2>3. new.unit = u /\ new.sha = v
      BY <2>1
    <2> HIDE DEF new
    <2> QED BY <2>2, <2>3 DEF Known
  <1>4. ASSUME u \notin Open PROVE Known(u, v)'
    <2>1. u \in Covered /\ receipts' = receipts
      BY <1>1, <1>4 DEF Open
    <2>2. \E r \in receipts' : r.unit = u /\ r.sha = man[u[1]]
      BY <2>1 DEF Covered
    <2>3. v = man[u[1]] \/ v < man'[u[1]]
      BY <1>2
    <2> QED BY <2>2, <2>3 DEF Known
  <1> QED BY <1>3, <1>4

\* A content of a unit is paid for once, calls that brought nothing excepted.
LEMMA OnceStep ==
    ASSUME ReadInv, [SweepNext]_sweepVars
    PROVE  OnceInv'
  <1>0. CallsOK /\ ProcessOK /\ OnceInv /\ VersionsInv' /\ VersionsInv
    BY TypeParts, VersionsStep DEF ReadInv
  <1>k. \A u \in Units, v \in Versions : Known(u, v) => Known(u, v)'
    BY KnownStep
  <1>s. ASSUME UNCHANGED <<asked, forgiven, job, queue, psha, open>> PROVE OnceInv'
    <2>1. \A u \in Units, v \in Versions : About(u, v)' = About(u, v)
      BY <1>s DEF About
    <2> QED BY <1>s, <1>k, <1>0, <2>1 DEF OnceInv, Once
  <1>t. ASSUME UNCHANGED <<asked, forgiven>>, job # "asked", job' \notin {"charged", "asked"} PROVE OnceInv'
    BY <1>t, <1>k, <1>0 DEF OnceInv, Once
  <1>f. ASSUME job = "asked", asked' = asked, forgiven' = Counted(forgiven, Head(queue)),
               job' \notin {"charged", "asked"}
        PROVE  OnceInv'
    <2>1. ASSUME NEW u \in Units, NEW v \in Versions PROVE Once(u, v)'
      <3>1. asked[u][v] \in Nat /\ forgiven[u][v] \in Nat /\ Once(u, v)
        BY <1>0 DEF CallsOK, OnceInv
      <3>2. forgiven'[u][v] = IF About(u, v) THEN forgiven[u][v] + 1 ELSE forgiven[u][v]
        BY <1>f, <1>0, PlannedWith, CountedOf DEF CallsOK, About
      <3> QED BY <1>f, <1>k, <3>1, <3>2 DEF Once
    <2> QED BY <1>f, <2>1 DEF OnceInv
  <1> USE DEF listed, process, billed, count
  <1>1. CASE (\E w \in SUBSET Files : Rank(w)) \/ (\E f \in Files : Edit(f)) \/ Observe
    BY <1>1, <1>s DEF Rank, Edit, Observe
  <1>2. ASSUME NEW u \in Units, Look(u) \/ Mark(u) PROVE OnceInv'
    BY <1>2, <1>s DEF Look, Mark
  <1>3. CASE Term
    BY <1>3, <1>s DEF Term
  <1>4. CASE Launch \/ StopSweep \/ PassOver \/ Refund \/ Leads
    BY <1>4, <1>t DEF Launch, StopSweep, PassOver, Refund, Leads, Finish, Quit
  <1>5. CASE Charge
    <2>1. ASSUME NEW u \in Units, NEW v \in Versions PROVE Once(u, v)'
      <3>1. Once(u, v) /\ (About(u, v)' <=> About(u, v))
        BY <1>5, <1>0 DEF OnceInv, Charge, About
      <3>2. About(u, v) => asked[u][v] <= forgiven[u][v]
        BY <1>5, ChargedIsNew DEF Charge, About
      <3> QED BY <1>5, <1>k, <3>1, <3>2 DEF Once, Charge
    <2>2. Head(queue') \in open'
      BY <1>5 DEF Charge, Skips
    <2> QED BY <2>1, <2>2 DEF OnceInv
  <1>6. CASE Send
    <2>1. ASSUME NEW u \in Units, NEW v \in Versions PROVE Once(u, v)'
      <3>1. Once(u, v) /\ (About(u, v)' <=> About(u, v)) /\ asked[u][v] \in Nat /\ forgiven[u][v] \in Nat
        BY <1>6, <1>0 DEF OnceInv, Send, About, CallsOK
      <3>2. asked'[u][v] = IF About(u, v) THEN asked[u][v] + 1 ELSE asked[u][v]
        BY <1>6, <1>0, PlannedWith, CountedOf DEF Send, CallsOK, About
      <3> QED BY <1>6, <1>k, <3>1, <3>2 DEF Once, Send
    <2> QED BY <1>6, <1>0, <2>1 DEF OnceInv, Send
  <1>7. ASSUME NEW a, Reply(a) PROVE OnceInv'
    <2>1. job = "asked" /\ asked' = asked /\ man' = man
      BY <1>7 DEF Reply
    <2>2. CASE job' = "leads" /\ forgiven' = forgiven /\ (Head(queue) \in Open => Accepts(Head(queue)))
                /\ receipts' = IF Head(queue) \notin Open THEN receipts
                       ELSE receipts \cup {[unit |-> Head(queue), sha |-> man[Head(queue)[1]], by |-> "sweep",
                                            shown |-> psha[Head(queue)[1]]]}
      <3>1. ASSUME NEW u \in Units, NEW v \in Versions, About(u, v) PROVE Known(u, v)'
        <4>1. u = Head(queue)
          BY <3>1 DEF About
        <4> QED BY <3>1, <4>1, <2>1, <2>2, KeptIsKnown
      <3> QED BY <2>1, <2>2, <3>1, <1>k, <1>0 DEF OnceInv, Once
    <2>3. CASE \E cost : Fail(cost)
      BY <2>1, <2>3, <1>f DEF Fail, Finish, Quit
    <2> QED BY <1>7, <2>2, <2>3 DEF Reply
  <1>8. CASE KillSweep
    BY <1>8, <1>f, <1>t DEF KillSweep, Quit
  <1>9. CASE UNCHANGED sweepVars
    BY <1>9, <1>s DEF sweepVars
  <1> QED
    BY <1>1, <1>2, <1>3, <1>4, <1>5, <1>6, <1>7, <1>8, <1>9 DEF SweepNext, SweepSteps

\* A receipted unit stays receipted, and what is not open is receipted.
LEMMA OpenStep ==
    ASSUME ReadInv, [SweepNext]_sweepVars
    PROVE  OpenInv'
  <1>0. OpenInv /\ open \subseteq Units
    BY TypeParts DEF ReadInv, ProcessOK
  <1>r. \A u \in Units : Receipted(u) => Receipted(u)'
    BY ReceiptsGrow DEF Receipted
  <1>c. \A u \in Covered : Receipted(u)
    BY DEF Covered, Receipted
  <1>o. job # "idle" => \A u \in Units \ Open : Receipted(u)
    BY <1>0, <1>c DEF OpenInv, Open
  <1>s. ASSUME UNCHANGED saved, job' # "idle" => job # "idle" /\ open' \in {open, Open} PROVE OpenInv'
    BY <1>s, <1>0, <1>r, <1>o DEF OpenInv
  <1>w. ASSUME job # "idle", NEW stop, NEW n, Persist(stop, n), stop # "exhausted",
               job' # "idle" => open' \in {open, Open}
        PROVE  OpenInv'
    <2>1. saved'.stop # "exhausted"
      BY <1>w DEF Persist
    <2> QED BY <1>w, <2>1, <1>0, <1>r, <1>o DEF OpenInv
  <1> USE DEF listed, process, billed, count
  <1>1. CASE (\E w \in SUBSET Files : Rank(w)) \/ (\E f \in Files : Edit(f)) \/ Observe
    BY <1>1, <1>s DEF Rank, Edit, Observe
  <1>2. ASSUME NEW u \in Units, Look(u) \/ Mark(u) PROVE OpenInv'
    BY <1>2, <1>s DEF Look, Mark
  <1>3. CASE PassOver \/ Send \/ Term
    BY <1>3, <1>s DEF PassOver, Send, Term
  <1>4. CASE Launch
    <2>1. \A u \in Units \ open' : Receipted(u)'
      BY <1>4, <1>c, <1>r DEF Launch
    <2>2. saved' = saved
      BY <1>4 DEF Launch
    <2> QED BY <2>1, <2>2, <1>0, <1>r DEF OpenInv
  <1>5. CASE StopSweep
    <2>1. \E stop \in {"interrupted", "budget", Verdict} : Persist(stop, spent) /\ job = "loop" /\ job' = "idle"
      BY <1>5 DEF StopSweep, Finish, Quit
    <2>2. CASE Verdict = "exhausted"
      <3>1. \A u \in Units : Receipted(u)'
        BY <2>1, <2>2, <1>o, <1>r DEF Verdict
      <3> QED BY <2>1, <3>1 DEF OpenInv
    <2>3. CASE Verdict # "exhausted"
      BY <2>1, <2>3, <1>w
    <2> QED BY <2>2, <2>3
  <1>6. CASE Charge
    <2>1. job = "loop" /\ open' = Open /\ Persist("interrupted", spent + 1)
      BY <1>6 DEF Charge
    <2> QED BY <2>1, <1>w
  <1>7. CASE Refund
    <2>1. job = "charged" /\ job' = "idle" /\ Persist("interrupted", spent - 1)
      BY <1>7 DEF Refund, Finish, Quit
    <2> QED BY <2>1, <1>w
  <1>8. ASSUME NEW a, Reply(a) PROVE OpenInv'
    <2> DEFINE u == Head(queue)
    <2>1. job = "asked"
      BY <1>8 DEF Reply
    <2>2. ASSUME open' = Open \ {u}, saved' = saved,
                 receipts' = IF u \notin Open THEN receipts
                             ELSE receipts \cup {[unit |-> u, sha |-> man[u[1]], by |-> "sweep",
                                                  shown |-> psha[u[1]]]}
          PROVE  OpenInv'
      <3>1. ASSUME NEW w \in Units \ open' PROVE Receipted(w)'
        <4>1. CASE w = u /\ u \in Open
          <5> DEFINE new == [unit |-> u, sha |-> man[u[1]], by |-> "sweep", shown |-> psha[u[1]]]
          <5>1. new \in receipts' /\ new.unit = w
            BY <2>2, <4>1
          <5> HIDE DEF new, u
          <5> QED BY <5>1 DEF Receipted
        <4>2. CASE w \notin Open
          BY <2>1, <4>2, <1>o, <1>r
        <4> QED BY <2>2, <3>1, <4>1, <4>2
      <3> QED BY <2>2, <3>1, <1>0, <1>r DEF OpenInv
    <2>3. ASSUME NEW cost, Fail(cost) PROVE OpenInv'
      <3>1. \E stop \in {"interrupted", "backend"} : Persist(stop, spent + cost)
        BY <2>3 DEF Fail, Finish
      <3>2. job' # "idle" => open' = Open
        BY <2>3 DEF Fail, Finish, Quit
      <3> QED BY <2>1, <3>1, <3>2, <1>w
    <2> QED BY <1>8, <2>2, <2>3 DEF Reply
  <1>9. CASE Leads
    <2>1. job = "leads" /\ Persist("interrupted", spent) /\ (job' # "idle" => open' = open)
      BY <1>9 DEF Leads, Quit
    <2> QED BY <2>1, <1>w
  <1>10. CASE KillSweep
    BY <1>10, <1>s DEF KillSweep, Quit
  <1>11. CASE UNCHANGED sweepVars
    BY <1>11, <1>s DEF sweepVars
  <1> QED
    BY <1>1, <1>2, <1>3, <1>4, <1>5, <1>6, <1>7, <1>8, <1>9, <1>10, <1>11 DEF SweepNext, SweepSteps

\* The sweep only writes receipts of what it showed.
LEMMA ShownStep ==
    ASSUME ReadInv, [SweepNext]_sweepVars
    PROVE  ReceiptIsOfContent'
  <1>0. ReceiptIsOfContent /\ OnceInv
    BY DEF ReadInv
  <1>s. receipts' = receipts => ReceiptIsOfContent'
    BY <1>0 DEF ReceiptIsOfContent
  <1> USE DEF listed, process, billed, count
  <1>1. CASE (\E w \in SUBSET Files : Rank(w)) \/ (\E f \in Files : Edit(f)) \/ Observe \/ Launch
    BY <1>1, <1>s DEF Rank, Edit, Observe, Launch
  <1>2. ASSUME NEW u \in Units, Look(u) PROVE ReceiptIsOfContent'
    BY <1>2, <1>s DEF Look
  <1>3. ASSUME NEW u \in Units, Mark(u) PROVE ReceiptIsOfContent'
    BY <1>3, <1>0 DEF Mark, ReceiptIsOfContent
  <1>4. CASE StopSweep \/ PassOver \/ Charge \/ Refund \/ Send \/ Leads \/ Term \/ KillSweep
    BY <1>4, <1>s DEF StopSweep, PassOver, Charge, Refund, Send, Leads, Term, KillSweep
  <1>5. ASSUME NEW a, Reply(a) PROVE ReceiptIsOfContent'
    <2>1. CASE receipts' = receipts
      BY <2>1, <1>s
    <2>2. CASE receipts' # receipts
      <3>1. /\ man[Head(queue)[1]] = psha[Head(queue)[1]]
            /\ receipts' = receipts \cup {[unit |-> Head(queue), sha |-> man[Head(queue)[1]], by |-> "sweep",
                                           shown |-> psha[Head(queue)[1]]]}
        BY <1>5, <2>2 DEF Reply, Accepts
      <3> QED BY <3>1, <1>0 DEF ReceiptIsOfContent
    <2> QED BY <2>1, <2>2
  <1>6. CASE UNCHANGED sweepVars
    BY <1>6, <1>s DEF sweepVars
  <1> QED BY <1>1, <1>2, <1>3, <1>4, <1>5, <1>6 DEF SweepNext, SweepSteps

-----------------------------------------------------------------------------
(* The theorems *)

LEMMA ReadFirst == SweepInit => ReadInv
  <1> SUFFICES ASSUME SweepInit PROVE ReadInv
    OBVIOUS
  <1>a. "" \in Stops
    BY DEF Stops
  <1>b. 1 \in Versions /\ MaxEdits \in Nat
    BY SweepAssumption DEF Versions
  <1>c. /\ edits = 0 /\ launches = 0 /\ marks = 0 /\ kills = 0 /\ fails = 0 /\ spent = 0 /\ paid = 0
        /\ job = "idle" /\ open = {} /\ queue = <<>> /\ receipts = {}
    BY DEF SweepInit
  <1>1. LedgersOK
    BY <1>b DEF LedgersOK, SweepInit
  <1>2. ProcessOK
    <2>1. queue \in Seq(Units) /\ open \subseteq Units
      BY <1>c
    <2>3. psha \in [Files -> Versions \cup {0}]
      BY DEF SweepInit
    <2>2. job \in Jobs /\ job \notin {"charged", "asked", "leads"}
      BY <1>c DEF Jobs
    <2> QED BY <2>1, <2>2, <2>3 DEF ProcessOK
  <1>3. CallsOK
    BY DEF CallsOK, SweepInit
  <1>4. CountsOK
    <2>1. term \in BOOLEAN
      BY Zenon DEF SweepInit
    <2>2. /\ edits \in 0 .. MaxEdits /\ launches \in 0 .. MaxLaunches
          /\ marks \in 0 .. MaxMarks /\ kills \in Nat /\ fails \in 0 .. MaxFails
      BY <1>c, SweepAssumption
    <2> QED BY <2>1, <2>2 DEF CountsOK
  <1>s. saved = [spent |-> 0, stop |-> ""]
    BY DEF SweepInit
  <1>t. saved.spent = 0 /\ saved.stop = ""
    BY <1>s
  <1>5. MoneyOK
    <2>1. 0 \in 0 .. TokenBudget + 1 /\ paid \in Nat /\ spent = 0
      BY <1>c, SweepAssumption
    <2>2. saved \in [spent : 0 .. TokenBudget + 1, stop : Stops]
      BY <1>a, <1>s, <2>1
    <2> QED BY <2>1, <2>2 DEF MoneyOK
  <1>6. VersionsInv
    <2>1. \A f \in Files : man[f] = 1 /\ src[f] = 1
      BY DEF SweepInit
    <2> QED BY <2>1, <1>c DEF VersionsInv
  <1>7. SpentInv
    <2>3. paid = 0 /\ kills = 0 /\ saved.spent = 0
      BY <1>c, <1>t
    <2>1. paid <= saved.spent + kills
      BY <2>3
    <2>2. job \notin {"loop", "charged", "asked", "leads"}
      BY <1>c
    <2> QED BY <2>1, <2>2 DEF SpentInv
  <1>8. OnceInv
    <2>1. \A u \in Units, v \in Versions : asked[u][v] = 0 /\ forgiven[u][v] = 0
      BY DEF SweepInit
    <2> QED BY <2>1, <1>c DEF OnceInv, Once
  <1>9. OpenInv /\ ReceiptIsOfContent
    BY <1>c, <1>t DEF OpenInv, ReceiptIsOfContent
  <1> QED BY <1>1, <1>2, <1>3, <1>4, <1>5, <1>6, <1>7, <1>8, <1>9, TypeParts DEF ReadInv

LEMMA ReadStep == ReadInv /\ [SweepNext]_sweepVars => ReadInv'
  <1> SUFFICES ASSUME ReadInv, [SweepNext]_sweepVars PROVE ReadInv'
    OBVIOUS
  <1>1. SweepTypeOK'
    BY LedgersStep, ProcessStep, CallsStep, CountsStep, MoneyStep, TypeParts, PTL
  <1> QED BY <1>1, VersionsStep, MoneyStep, OnceStep, OpenStep, ShownStep DEF ReadInv

\* What is spent is bounded by what was ever saved.
LEMMA SpendIsBounded == ReadInv => SpendBounded
  <1> SUFFICES ASSUME ReadInv PROVE SpendBounded
    OBVIOUS
  <1>1. MoneyOK /\ SpentInv /\ job \in Jobs /\ kills \in Nat
    BY TypeParts DEF ReadInv, ProcessOK, CountsOK
  <1> QED BY <1>1, SweepAssumption DEF MoneyOK, SpentInv, Jobs, SpendBounded

\* The step that ends a sweep at its leads records them.
LEMMA LeadsStep ==
    ASSUME ReadInv, [SweepNext]_sweepVars, job = "leads", kills' = kills, job' = "idle"
    PROVE  held \subseteq leads'
  <1>0. kills \in Nat
    BY TypeParts DEF ReadInv, CountsOK
  <1> USE DEF listed, process, billed, count
  <1>1. CASE Leads
    BY <1>1 DEF Leads
  <1>2. ~ KillSweep
    BY <1>0 DEF KillSweep
  <1>3. (\E w \in SUBSET Files : Rank(w)) \/ (\E f \in Files : Edit(f)) \/ Observe \/ Launch \/ Term => FALSE
    BY DEF Rank, Edit, Observe, Launch, Term
  <1>4. (\E u \in Units : Look(u) \/ Mark(u)) => FALSE
    BY DEF Look, Mark
  <1>5. ~ (StopSweep \/ PassOver \/ Charge \/ Refund \/ Send)
    BY DEF StopSweep, PassOver, Charge, Refund, Send
  <1>6. \A a : ~ Reply(a)
    BY DEF Reply
  <1>7. ~ UNCHANGED sweepVars
    BY DEF sweepVars
  <1> QED BY <1>1, <1>2, <1>3, <1>4, <1>5, <1>6, <1>7 DEF SweepNext, SweepSteps

\* The step that ends a sweep as exhausted finds every unit receipted.
LEMMA ExhaustedStep ==
    ASSUME ReadInv, [SweepNext]_sweepVars, job = "loop", saved'.stop = "exhausted", job' = "idle"
    PROVE  \A u \in Units : \E r \in receipts : r.unit = u
  <1>0. OpenInv
    BY DEF ReadInv
  <1>c. \A u \in Covered : Receipted(u)
    BY DEF Covered, Receipted
  <1>o. Open = {} => \A u \in Units : Receipted(u)
    BY <1>0, <1>c DEF OpenInv, Open
  <1> USE DEF listed, process, billed, count
  <1>1. CASE StopSweep
    <2>1. \E stop \in {"interrupted", "budget", Verdict} : Persist(stop, spent)
      BY <1>1 DEF StopSweep, Finish
    <2>2. Verdict = "exhausted"
      BY <2>1 DEF Persist
    <2>3. Open = {}
      BY <2>2 DEF Verdict
    <2> QED BY <2>3, <1>o DEF Receipted
  <1>2. CASE KillSweep
    <2>1. saved' = saved
      BY <1>2 DEF KillSweep
    <2> QED BY <2>1, <1>0 DEF OpenInv, Receipted
  <1>3. (\E w \in SUBSET Files : Rank(w)) \/ (\E f \in Files : Edit(f)) \/ Observe \/ Launch \/ Term => FALSE
    BY DEF Rank, Edit, Observe, Launch, Term
  <1>4. (\E u \in Units : Look(u) \/ Mark(u)) => FALSE
    BY DEF Look, Mark
  <1>5. ~ (PassOver \/ Charge \/ Refund \/ Send \/ Leads)
    BY DEF PassOver, Charge, Refund, Send, Leads
  <1>6. \A a : ~ Reply(a)
    BY DEF Reply
  <1>7. ~ UNCHANGED sweepVars
    BY DEF sweepVars
  <1> QED BY <1>1, <1>2, <1>3, <1>4, <1>5, <1>6, <1>7 DEF SweepNext, SweepSteps

LEMMA ReadAlways == SweepSpec => []ReadInv
  BY ReadFirst, ReadStep, PTL DEF SweepSpec

\* Every variable of the sweep keeps its type (sweep.py, the ledgers).
THEOREM SweepTypeCorrect == SweepSpec => []SweepTypeOK
  <1>1. ReadInv => SweepTypeOK
    BY DEF ReadInv
  <1> QED BY <1>1, ReadAlways, PTL

\* The sweep keeps its budget, receipts what it showed, pays once for a content
\* of a unit, records the leads of what it receipted, and says exhausted only
\* when it is (sweep.py run, record_receipt).
THEOREM SweepsAreKept == SweepSpec => SweepKept
  <1>1. ReadInv => SpendBounded /\ ReceiptIsOfContent /\ PaidOnce
    BY SpendIsBounded DEF ReadInv, OnceInv, Once, PaidOnce
  <1>2. ReadInv /\ [SweepNext]_sweepVars
          => [(job = "leads" /\ kills' = kills /\ job' = "idle") => held \subseteq leads']_sweepVars
    BY LeadsStep
  <1>3. ReadInv /\ [SweepNext]_sweepVars
          => [(job = "loop" /\ saved'.stop = "exhausted" /\ job' = "idle") =>
                \A u \in Units : \E r \in receipts : r.unit = u]_sweepVars
    BY ExhaustedStep
  <1> QED
    BY <1>1, <1>2, <1>3, ReadAlways, PTL DEF SweepSpec, SweepKept, LeadsKept, ExhaustedIsReceipted

-----------------------------------------------------------------------------
(* FuzzCampaign *)

\* The types by kind of state.
KeptOK ==
    /\ stateFile \in [Harnesses -> HarnessState]
    /\ built \in [Harnesses -> 0 .. MaxBuilds]
    /\ corpus \in [Harnesses -> 0 .. MaxCorpus]
    /\ artifacts \in [Harnesses -> SUBSET Artifacts]
    /\ judged \subseteq Harnesses \X (0 .. MaxBuilds) \X Artifacts
    /\ killed \in 0 .. MaxKills
TurnOK ==
    /\ slot \in Procs \cup {Nobody}
    /\ untried \subseteq Harnesses /\ at \in Harnesses \cup {Unset}
    /\ route \subseteq Artifacts
    /\ verdict \in Quarantine \cup {"productive", "dry", Unset}
    /\ left \in Int
MemOK == mem \in [Procs -> [Harnesses -> HarnessState]]

\* A campaign past the slot's gate holds it, one at work on a harness has one, and
\* an ended one has no memory.
SlotInv ==
    \A p \in Procs :
        /\ doing[p] = "off" => mem[p] = Unloaded
        /\ doing[p] \notin {"off", "loaded"} => slot = p
        /\ doing[p] \in {"replay", "route", "settle", "merged"} => at \in Harnesses

FuzzInv == CampaignTypeOK /\ SlotInv /\ SeenIsJudged

LEMMA FuzzTypes == CampaignTypeOK <=> KeptOK /\ TurnOK /\ MemOK /\ doing \in [Procs -> Stages]
  BY Zenon DEF CampaignTypeOK, KeptOK, TurnOK, MemOK

-----------------------------------------------------------------------------
(* What the operators make of a harness's record *)

LEMMA FreshIs ==
    ASSUME NEW b \in 0 .. MaxBuilds
    PROVE  Fresh(b) \in HarnessState /\ Fresh(b).seen = {} /\ Fresh(b).quar = Unset
  BY CampaignAssumption DEF Fresh, HarnessState

LEMMA UnloadedIs ==
    /\ Unloaded \in [Harnesses -> HarnessState]
    /\ \A h \in Harnesses : Unloaded[h].seen = {} /\ Unloaded[h].quar = Unset
  <1>1. 0 \in 0 .. MaxBuilds
    BY CampaignAssumption
  <1> QED BY <1>1, FreshIs DEF Unloaded

\* A record is only taken up under the binary it is about.
LEMMA AddedIs ==
    ASSUME NEW s \in HarnessState, NEW b \in 0 .. MaxBuilds
    PROVE  /\ Added(s, b) \in HarnessState
           /\ \A a \in Added(s, b).seen : a \in s.seen /\ Added(s, b).bin = s.bin
  BY FreshIs DEF Added

LEMMA MarkedIs ==
    ASSUME NEW s \in HarnessState, NEW a \in Artifacts, NEW decided \in BOOLEAN
    PROVE  /\ Marked(s, a, decided) \in HarnessState
           /\ Marked(s, a, decided).bin = s.bin /\ Marked(s, a, decided).quar = s.quar
           /\ Marked(s, a, decided).seen = IF decided THEN s.seen \cup {a} ELSE s.seen
  <1>1. s.seen \cup {a} \in SUBSET Artifacts
    BY DEF HarnessState
  <1> QED BY <1>1 DEF Marked, HarnessState

LEMMA ReviveIs ==
    ASSUME NEW h, NEW s \in HarnessState
    PROVE  /\ Revive(h, s) \in HarnessState
           /\ Revive(h, s).bin = s.bin /\ Revive(h, s).seen = s.seen
           /\ Revive(h, s).quar # s.quar => s.quar \in Revivable /\ corpus[h] > s.cq
  <1> DEFINE t == [s EXCEPT !.quar = Unset, !.dry = 0, !.rep = 0]
  <1>1. 0 \in 0 .. SaturationSlices /\ 0 \in 0 .. RepeatSlices
    BY CampaignAssumption
  <1>2. t \in HarnessState /\ t.bin = s.bin /\ t.seen = s.seen
    BY <1>1 DEF HarnessState
  <1> HIDE DEF t
  <1>3. Revive(h, s) = IF s.quar \in Revivable /\ corpus[h] > s.cq THEN t ELSE s
    BY DEF Revive, t
  <1> QED BY <1>2, <1>3

LEMMA UptoIs ==
    ASSUME NEW n \in Nat, NEW bound \in Nat
    PROVE  Upto(n, bound) \in 0 .. bound
  BY DEF Upto

LEMMA RecordedIs ==
    ASSUME NEW s \in HarnessState, NEW o, NEW v, NEW size \in 0 .. MaxCorpus
    PROVE  /\ Recorded(s, o, v, size) \in HarnessState
           /\ Recorded(s, o, v, size).bin = s.bin /\ Recorded(s, o, v, size).seen = s.seen
           /\ Recorded(s, o, v, size).quar = s.quar
  <1> DEFINE since == Upto(s.since + 1, MergeEvery)
             dry == IF o.moved THEN 0 ELSE Upto(s.dry + 1, SaturationSlices)
             rep == IF o.art # {} /\ ~o.moved THEN Upto(s.rep + 1, RepeatSlices) ELSE 0
             noise == IF o.noisy /\ ~o.moved THEN Upto(s.noise + 1, NoiseSlices) ELSE 0
             cq == IF v \in Revivable THEN size ELSE s.cq
  <1>1. s.since + 1 \in Nat /\ s.dry + 1 \in Nat /\ s.rep + 1 \in Nat /\ s.noise + 1 \in Nat
    BY DEF HarnessState
  <1>2. /\ since \in 0 .. MergeEvery /\ dry \in 0 .. SaturationSlices
        /\ rep \in 0 .. RepeatSlices /\ noise \in 0 .. NoiseSlices
    <2>1. /\ Upto(s.since + 1, MergeEvery) \in 0 .. MergeEvery
          /\ Upto(s.dry + 1, SaturationSlices) \in 0 .. SaturationSlices
          /\ Upto(s.rep + 1, RepeatSlices) \in 0 .. RepeatSlices
          /\ Upto(s.noise + 1, NoiseSlices) \in 0 .. NoiseSlices
      BY <1>1, UptoIs, CampaignAssumption
    <2>2. 0 \in 0 .. SaturationSlices /\ 0 \in 0 .. RepeatSlices /\ 0 \in 0 .. NoiseSlices
      BY CampaignAssumption
    <2> QED BY <2>1, <2>2
  <1>3. cq \in 0 .. MaxCorpus
    BY DEF HarnessState
  <1>4. Recorded(s, o, v, size) = [s EXCEPT !.ran = TRUE, !.since = since, !.dry = dry,
                                            !.rep = rep, !.noise = noise, !.cq = cq]
    BY DEF Recorded, HarnessState
  <1> HIDE DEF since, dry, rep, noise, cq
  <1> QED BY <1>2, <1>3, <1>4 DEF HarnessState

LEMMA QuarantinedIs ==
    ASSUME NEW s \in HarnessState, NEW v \in Quarantine
    PROVE  /\ [s EXCEPT !.quar = v] \in HarnessState /\ [s EXCEPT !.quar = v].bin = s.bin
           /\ [s EXCEPT !.quar = v].seen = s.seen /\ [s EXCEPT !.quar = v].quar # Unset
  <1>1. v # Unset
    BY Zenon DEF Quarantine, Revivable, Unset
  <1> QED BY <1>1 DEF HarnessState

LEMMA MergedIs ==
    ASSUME NEW s \in HarnessState
    PROVE  /\ [s EXCEPT !.since = 0] \in HarnessState /\ [s EXCEPT !.since = 0].bin = s.bin
           /\ [s EXCEPT !.since = 0].seen = s.seen /\ [s EXCEPT !.since = 0].quar = s.quar
  BY CampaignAssumption DEF HarnessState

-----------------------------------------------------------------------------
(* Steps *)

\* What a step may make of the records a campaign has loaded.
MemMoves ==
    /\ mem' \in [Procs -> [Harnesses -> HarnessState]]
    /\ \A q \in Procs, h \in Harnesses :
          /\ \A a \in mem'[q][h].seen : <<h, mem'[q][h].bin, a>> \in judged'
          /\ mem[q][h].quar # Unset /\ mem'[q][h].quar = Unset /\ doing'[q] # "off" =>
                mem[q][h].quar \in Revivable /\ corpus[h] > mem[q][h].cq

LEMMA MemStays ==
    ASSUME FuzzInv, mem' = mem, judged \subseteq judged'
    PROVE  MemMoves
  BY FuzzTypes DEF FuzzInv, MemOK, SeenIsJudged, MemMoves

LEMMA OneMem ==
    ASSUME FuzzInv, NEW p \in Procs, NEW f \in [Harnesses -> HarnessState],
           mem' = [mem EXCEPT ![p] = f], judged \subseteq judged',
           \A h \in Harnesses :
              /\ \A a \in f[h].seen : <<h, f[h].bin, a>> \in judged'
              /\ mem[p][h].quar # Unset /\ f[h].quar = Unset /\ doing'[p] # "off" =>
                    mem[p][h].quar \in Revivable /\ corpus[h] > mem[p][h].cq
    PROVE  MemMoves
  BY FuzzTypes DEF FuzzInv, MemOK, SeenIsJudged, MemMoves

LEMMA OneRecord ==
    ASSUME FuzzInv, NEW p \in Procs, NEW h \in Harnesses, NEW t \in HarnessState,
           mem' = [mem EXCEPT ![p][h] = t], judged \subseteq judged',
           \A a \in t.seen : <<h, t.bin, a>> \in judged',
           t.quar = Unset => mem[p][h].quar = Unset
    PROVE  MemMoves
  <1> DEFINE f == [mem[p] EXCEPT ![h] = t]
  <1>1. f \in [Harnesses -> HarnessState] /\ mem' = [mem EXCEPT ![p] = f]
    BY FuzzTypes DEF FuzzInv, MemOK
  <1>2. \A g \in Harnesses : f[g] = IF g = h THEN t ELSE mem[p][g]
    BY FuzzTypes DEF FuzzInv, MemOK
  <1> HIDE DEF f
  <1>3. \A g \in Harnesses : \A a \in mem[p][g].seen : <<g, mem[p][g].bin, a>> \in judged'
    BY DEF FuzzInv, SeenIsJudged
  <1>4. ASSUME NEW g \in Harnesses
        PROVE  /\ \A a \in f[g].seen : <<g, f[g].bin, a>> \in judged'
               /\ f[g].quar = Unset => mem[p][g].quar = Unset
    <2>1. CASE g = h
      BY <1>2, <2>1
    <2>2. CASE g # h
      BY <1>2, <1>3, <2>2
    <2> QED BY <2>1, <2>2
  <1>5. \A g \in Harnesses :
           /\ \A a \in f[g].seen : <<g, f[g].bin, a>> \in judged'
           /\ mem[p][g].quar # Unset /\ f[g].quar = Unset /\ doing'[p] # "off" =>
                 mem[p][g].quar \in Revivable /\ corpus[g] > mem[p][g].cq
    BY <1>4
  <1> QED BY <1>1, <1>5, OneMem

\* A campaign that ends forgets.
LEMMA MemEnds ==
    ASSUME FuzzInv, NEW p \in Procs, Exit(p), judged' = judged
    PROVE  MemMoves
  <1>1. mem' = [mem EXCEPT ![p] = Unloaded] /\ doing'[p] = "off"
    BY FuzzTypes DEF FuzzInv, Exit, Goto
  <1> QED BY <1>1, UnloadedIs, OneMem

LEMMA MemStep ==
    ASSUME FuzzInv, [CampaignNext]_campaignVars
    PROVE  MemMoves
  <1>0. KeptOK /\ TurnOK /\ MemOK /\ SlotInv /\ SeenIsJudged /\ doing \in [Procs -> Stages]
    BY FuzzTypes DEF FuzzInv
  <1> USE DEF tree, turn
  <1>1. ASSUME NEW p \in Procs, Load(p) PROVE MemMoves
    <2> DEFINE f == [h \in Harnesses |-> Added(stateFile[h], built[h])]
    <2>1. \A h \in Harnesses : mem[p][h].quar = Unset
      BY <1>0, <1>1, UnloadedIs DEF SlotInv, Load
    <2>2. ASSUME NEW h \in Harnesses
          PROVE  f[h] \in HarnessState /\ \A a \in f[h].seen : <<h, f[h].bin, a>> \in judged
      BY <1>0, AddedIs DEF KeptOK, SeenIsJudged
    <2>3. mem' = [mem EXCEPT ![p] = f] /\ judged' = judged
      BY <1>1 DEF Load
    <2>4. f \in [Harnesses -> HarnessState]
      BY <2>2
    <2> HIDE DEF f
    <2> QED BY <2>1, <2>2, <2>3, <2>4, OneMem
  <1>2. ASSUME NEW p \in Procs, Enter(p) PROVE MemMoves
    BY <1>2, MemStays, MemEnds DEF Enter
  <1>3. ASSUME NEW p \in Procs, NEW h \in Harnesses, TakePending(p, h) PROVE MemMoves
    BY <1>3, MemStays DEF TakePending
  <1>4. ASSUME NEW p \in Procs, NEW a \in Artifacts, NEW decided \in BOOLEAN, Replay(p, a, decided)
        PROVE  MemMoves
    <2> DEFINE t == Marked(mem[p][at], a, decided)
    <2>1. at \in Harnesses /\ mem[p][at] \in HarnessState
      BY <1>0, <1>4 DEF SlotInv, Replay, MemOK
    <2>2. mem' = [mem EXCEPT ![p][at] = t]
      BY <1>4 DEF Replay
    <2>3. /\ judged \subseteq judged'
          /\ decided => <<at, mem[p][at].bin, a>> \in judged'
      BY <1>4 DEF Replay
    <2>4. t \in HarnessState /\ t.bin = mem[p][at].bin /\ t.quar = mem[p][at].quar
          /\ \A b \in t.seen : b \in mem[p][at].seen \/ (decided /\ b = a)
      <3>1. t \in HarnessState /\ t.bin = mem[p][at].bin /\ t.quar = mem[p][at].quar
        BY <2>1, MarkedIs
      <3>2. t.seen = IF decided THEN mem[p][at].seen \cup {a} ELSE mem[p][at].seen
        BY <2>1, MarkedIs
      <3> HIDE DEF t
      <3> QED BY <3>1, <3>2
    <2>5. \A b \in mem[p][at].seen : <<at, mem[p][at].bin, b>> \in judged
      BY <1>0, <2>1 DEF SeenIsJudged
    <2> HIDE DEF t
    <2>6. \A b \in t.seen : <<at, t.bin, b>> \in judged'
      BY <2>3, <2>4, <2>5
    <2> QED BY <2>1, <2>2, <2>3, <2>4, <2>6, OneRecord
  <1>5. ASSUME NEW p \in Procs, EndReplay(p) PROVE MemMoves
    <2>1. CASE mem' = mem
      BY <1>5, <2>1, MemStays DEF EndReplay
    <2>2. CASE mem' # mem
      <3> DEFINE f == [h \in Harnesses |-> Revive(h, mem[p][h])]
      <3>1. mem' = [mem EXCEPT ![p] = f] /\ judged' = judged
        BY <1>5, <2>2 DEF EndReplay
      <3>2. ASSUME NEW h \in Harnesses
            PROVE  /\ f[h] \in HarnessState /\ \A a \in f[h].seen : <<h, f[h].bin, a>> \in judged
                   /\ f[h].quar # mem[p][h].quar => mem[p][h].quar \in Revivable /\ corpus[h] > mem[p][h].cq
        BY <1>0, ReviveIs DEF MemOK, SeenIsJudged
      <3>3. f \in [Harnesses -> HarnessState]
        BY <3>2
      <3> HIDE DEF f
      <3>4. ASSUME NEW h \in Harnesses
            PROVE  /\ \A a \in f[h].seen : <<h, f[h].bin, a>> \in judged'
                   /\ mem[p][h].quar # Unset /\ f[h].quar = Unset =>
                         mem[p][h].quar \in Revivable /\ corpus[h] > mem[p][h].cq
        BY <3>1, <3>2
      <3> QED BY <3>1, <3>3, <3>4, OneMem
    <2> QED BY <2>1, <2>2
  <1>6. ASSUME NEW p \in Procs, NEW h \in Harnesses, NEW o \in Outcomes, RunSlice(p, h, o) PROVE MemMoves
    <2>1. \E v : \E size \in 0 .. MaxCorpus : mem' = [mem EXCEPT ![p][h] = Recorded(mem[p][h], o, v, size)]
      <3> DEFINE s == mem[p][h]
                 drop == Classify(o, s) = "startup-crash" /\ Dropped(h, o, s)
                 v == IF drop THEN "productive" ELSE Classify(o, s)
                 size == IF drop THEN corpus[h] - 1
                         ELSE IF o.moved THEN Upto(corpus[h] + 1, MaxCorpus) ELSE corpus[h]
      <3>1. corpus[h] \in 0 .. MaxCorpus /\ (drop => corpus[h] > 0)
        BY <1>0 DEF KeptOK, Dropped
      <3>2. Upto(corpus[h] + 1, MaxCorpus) \in 0 .. MaxCorpus
        <4>1. corpus[h] + 1 \in Nat /\ MaxCorpus \in Nat
          BY <3>1, CampaignAssumption
        <4> QED BY <4>1, UptoIs
      <3>3. mem' = [mem EXCEPT ![p][h] = Recorded(mem[p][h], o, v, size)]
        BY <1>6 DEF RunSlice
      <3> HIDE DEF drop
      <3>4. size \in 0 .. MaxCorpus
        BY <3>1, <3>2, CampaignAssumption
      <3> HIDE DEF s, v, size
      <3> QED BY <3>3, <3>4
    <2>2. judged' = judged
      BY <1>6 DEF RunSlice
    <2>3. mem[p][h] \in HarnessState
      BY <1>0 DEF MemOK
    <2>4. \A a \in mem[p][h].seen : <<h, mem[p][h].bin, a>> \in judged
      BY <1>0 DEF SeenIsJudged
    <2>5. PICK t \in HarnessState :
             /\ mem' = [mem EXCEPT ![p][h] = t]
             /\ t.bin = mem[p][h].bin /\ t.seen = mem[p][h].seen /\ t.quar = mem[p][h].quar
      <3>1. PICK v : \E size \in 0 .. MaxCorpus : mem' = [mem EXCEPT ![p][h] = Recorded(mem[p][h], o, v, size)]
        BY <2>1
      <3>2. PICK size \in 0 .. MaxCorpus : mem' = [mem EXCEPT ![p][h] = Recorded(mem[p][h], o, v, size)]
        BY <3>1
      <3> DEFINE r == Recorded(mem[p][h], o, v, size)
      <3>3. r \in HarnessState /\ r.bin = mem[p][h].bin /\ r.seen = mem[p][h].seen /\ r.quar = mem[p][h].quar
        BY <2>3, RecordedIs
      <3>4. mem' = [mem EXCEPT ![p][h] = r]
        BY <3>2
      <3> HIDE DEF r
      <3> QED BY <3>3, <3>4
    <2>6. \A a \in t.seen : <<h, t.bin, a>> \in judged'
      BY <2>2, <2>4, <2>5
    <2> QED BY <2>2, <2>5, <2>6, OneRecord
  <1>7. ASSUME NEW p \in Procs, Settle(p) PROVE MemMoves
    <2>0. at \in Harnesses /\ judged' = judged
      BY <1>0, <1>7 DEF SlotInv, Settle
    <2>1. CASE verdict \notin Quarantine
      BY <1>7, <2>0, <2>1, MemStays DEF Settle
    <2>2. CASE verdict \in Quarantine
      <3> DEFINE t == [mem[p][at] EXCEPT !.quar = verdict]
      <3>1. mem[p][at] \in HarnessState /\ \A a \in mem[p][at].seen : <<at, mem[p][at].bin, a>> \in judged
        BY <1>0, <2>0 DEF MemOK, SeenIsJudged
      <3>2. mem' = [mem EXCEPT ![p][at] = t]
        BY <1>7, <2>2, <1>0, <2>0 DEF Settle, MemOK
      <3>3. t \in HarnessState /\ t.bin = mem[p][at].bin /\ t.seen = mem[p][at].seen /\ t.quar # Unset
        BY <3>1, <2>2, QuarantinedIs
      <3> HIDE DEF t
      <3> QED BY <2>0, <3>1, <3>2, <3>3, OneRecord
    <2> QED BY <2>1, <2>2
  <1>8. ASSUME NEW p \in Procs, Merge(p) PROVE MemMoves
    <2> DEFINE t == [mem[p][at] EXCEPT !.since = 0]
    <2>0. at \in Harnesses /\ judged' = judged
      BY <1>0, <1>8 DEF SlotInv, Merge
    <2>1. mem[p][at] \in HarnessState /\ \A a \in mem[p][at].seen : <<at, mem[p][at].bin, a>> \in judged
      BY <1>0, <2>0 DEF MemOK, SeenIsJudged
    <2>2. mem' = [mem EXCEPT ![p][at] = t]
      BY <1>8, <1>0, <2>0 DEF Merge, MemOK
    <2>3. t \in HarnessState /\ t.bin = mem[p][at].bin /\ t.seen = mem[p][at].seen /\ t.quar = mem[p][at].quar
      BY <2>1, MergedIs
    <2> HIDE DEF t
    <2> QED BY <2>0, <2>1, <2>2, <2>3, OneRecord
  <1>9. ASSUME NEW p \in Procs, Rename(p) \/ Save(p) PROVE MemMoves
    BY <1>9, MemStays DEF Rename, Save
  <1>10. ASSUME NEW p \in Procs, EndCampaign(p) \/ KillCampaign(p) PROVE MemMoves
    BY <1>10, MemEnds DEF EndCampaign, KillCampaign
  <1>11. ASSUME NEW h \in Harnesses, Rebuild(h) PROVE MemMoves
    BY <1>11, MemStays DEF Rebuild
  <1>12. CASE UNCHANGED campaignVars
    BY <1>12, MemStays DEF campaignVars
  <1> QED
    BY <1>1, <1>2, <1>3, <1>4, <1>5, <1>6, <1>7, <1>8, <1>9, <1>10, <1>11, <1>12 DEF CampaignNext, Step

\* What the campaigns leave on disk keeps its type.
LEMMA KeptStep ==
    ASSUME FuzzInv, [CampaignNext]_campaignVars
    PROVE  KeptOK'
  <1>0. KeptOK /\ TurnOK /\ MemOK /\ SlotInv
    BY FuzzTypes DEF FuzzInv
  <1>z. 0 \in 0 .. MaxCorpus /\ 1 \in 0 .. MaxCorpus
    BY CampaignAssumption
  <1>c. ASSUME NEW h \in Harnesses, NEW n \in 0 .. MaxCorpus, corpus' = [corpus EXCEPT ![h] = n],
               UNCHANGED <<stateFile, built, artifacts, judged, killed>>
        PROVE  KeptOK'
    BY <1>c, <1>0 DEF KeptOK
  <1>u. ASSUME UNCHANGED <<stateFile, built, corpus, artifacts, judged, killed>> PROVE KeptOK'
    BY <1>u, <1>0 DEF KeptOK
  <1> USE DEF tree, turn
  <1>1. ASSUME NEW p \in Procs, Load(p) \/ Enter(p) \/ EndReplay(p) \/ Settle(p) PROVE KeptOK'
    BY <1>1, <1>u DEF Load, Enter, EndReplay, Settle
  <1>2. ASSUME NEW p \in Procs, NEW h \in Harnesses, TakePending(p, h) PROVE KeptOK'
    <2>1. corpus' = [corpus EXCEPT ![h] = IF corpus[h] = 0 THEN 1 ELSE corpus[h]]
      BY <1>2, <1>0 DEF TakePending, KeptOK
    <2>2. (IF corpus[h] = 0 THEN 1 ELSE corpus[h]) \in 0 .. MaxCorpus
      BY <1>0, <1>z DEF KeptOK
    <2>3. UNCHANGED <<stateFile, built, artifacts, judged, killed>>
      BY <1>2 DEF TakePending
    <2> QED BY <2>1, <2>2, <2>3, <1>c
  <1>3. ASSUME NEW p \in Procs, NEW a \in Artifacts, NEW decided \in BOOLEAN, Replay(p, a, decided)
        PROVE  KeptOK'
    <2>1. at \in Harnesses
      BY <1>0, <1>3 DEF SlotInv, Replay
    <2>2. mem[p][at] \in HarnessState
      BY <1>0, <2>1 DEF MemOK
    <2>3. mem[p][at].bin \in 0 .. MaxBuilds
      BY <2>2 DEF HarnessState
    <2>4. judged' \subseteq Harnesses \X (0 .. MaxBuilds) \X Artifacts
      BY <1>0, <1>3, <2>1, <2>3 DEF Replay, KeptOK
    <2>5. UNCHANGED <<stateFile, built, corpus, artifacts, killed>>
      BY <1>3 DEF Replay
    <2> QED BY <2>4, <2>5, <1>0 DEF KeptOK
  <1>4. ASSUME NEW p \in Procs, NEW h \in Harnesses, NEW o \in Outcomes, RunSlice(p, h, o) PROVE KeptOK'
    <2>1. \E size \in 0 .. MaxCorpus : corpus' = [corpus EXCEPT ![h] = size]
      <3> DEFINE drop == Classify(o, mem[p][h]) = "startup-crash" /\ Dropped(h, o, mem[p][h])
                 size == IF drop THEN corpus[h] - 1
                         ELSE IF o.moved THEN Upto(corpus[h] + 1, MaxCorpus) ELSE corpus[h]
      <3>1. corpus[h] \in 0 .. MaxCorpus /\ (drop => corpus[h] > 0)
        BY <1>0 DEF KeptOK, Dropped
      <3>2. corpus[h] + 1 \in Nat /\ MaxCorpus \in Nat
        BY <3>1, CampaignAssumption
      <3>3. Upto(corpus[h] + 1, MaxCorpus) \in 0 .. MaxCorpus
        BY <3>2, UptoIs
      <3>4. corpus' = [corpus EXCEPT ![h] = size]
        BY <1>4 DEF RunSlice
      <3> HIDE DEF drop
      <3>5. size \in 0 .. MaxCorpus
        BY <3>1, <3>2, <3>3
      <3> HIDE DEF size
      <3> QED BY <3>4, <3>5
    <2>2. o.art \in SUBSET Artifacts
      BY DEF Outcomes
    <2>3. artifacts' \in [Harnesses -> SUBSET Artifacts]
      BY <1>0, <1>4, <2>2 DEF RunSlice, KeptOK
    <2>4. UNCHANGED <<stateFile, built, judged, killed>>
      BY <1>4 DEF RunSlice
    <2> QED BY <2>1, <2>3, <2>4, <1>0 DEF KeptOK
  <1>5. ASSUME NEW p \in Procs, Merge(p) PROVE KeptOK'
    <2>1. at \in Harnesses
      BY <1>0, <1>5 DEF SlotInv, Merge
    <2> QED BY <1>5, <2>1, <1>c, <1>u, <1>z DEF Merge
  <1>6. ASSUME NEW p \in Procs, Rename(p) PROVE KeptOK'
    <2>1. at \in Harnesses
      BY <1>0, <1>6 DEF SlotInv, Rename
    <2> QED BY <1>6, <2>1, <1>c, <1>z DEF Rename
  <1>7. ASSUME NEW p \in Procs, Save(p) \/ EndCampaign(p) PROVE KeptOK'
    <2>1. stateFile' = mem[p] /\ UNCHANGED <<built, corpus, artifacts, judged, killed>>
      BY <1>7 DEF Save, EndCampaign
    <2> QED BY <2>1, <1>0 DEF KeptOK, MemOK
  <1>8. ASSUME NEW h \in Harnesses, Rebuild(h) PROVE KeptOK'
    <2>1. built' \in [Harnesses -> 0 .. MaxBuilds]
      BY <1>8, <1>0, CampaignAssumption DEF Rebuild, KeptOK
    <2>2. UNCHANGED <<stateFile, corpus, artifacts, judged, killed>>
      BY <1>8 DEF Rebuild
    <2> QED BY <2>1, <2>2, <1>0 DEF KeptOK
  <1>9. ASSUME NEW p \in Procs, KillCampaign(p) PROVE KeptOK'
    BY <1>9, <1>0, CampaignAssumption DEF KillCampaign, KeptOK
  <1>10. CASE UNCHANGED campaignVars
    BY <1>10, <1>u DEF campaignVars
  <1> QED
    BY <1>1, <1>2, <1>3, <1>4, <1>5, <1>6, <1>7, <1>8, <1>9, <1>10 DEF CampaignNext, Step

\* A verdict is one of classify's.
LEMMA ClassifyIs ==
    ASSUME NEW o, NEW s
    PROVE  Classify(o, s) \in Quarantine \cup {"productive", "dry"}
  BY Zenon DEF Classify, Quarantine, Revivable

\* So does the turn of the campaign that holds the slot.
LEMMA TurnStep ==
    ASSUME FuzzInv, [CampaignNext]_campaignVars
    PROVE  TurnOK' /\ doing' \in [Procs -> Stages]
  <1>0. KeptOK /\ TurnOK /\ doing \in [Procs -> Stages]
    BY FuzzTypes DEF FuzzInv
  <1> DEFINE Goal == TurnOK' /\ doing' \in [Procs -> Stages]
  <1>g. ASSUME NEW p \in Procs, NEW there \in Stages, Goto(p, there) PROVE doing' \in [Procs -> Stages]
    BY <1>g, <1>0 DEF Goto
  <1>s. \A there \in {"off", "loaded", "pending", "replay", "select", "route", "settle", "merged"} : there \in Stages
    BY DEF Stages
  <1>i. Idle => TurnOK'
    BY <1>0 DEF Idle, TurnOK
  <1>e. ASSUME NEW p \in Procs, Exit(p) PROVE doing' \in [Procs -> Stages]
    BY <1>e, <1>g, <1>s DEF Exit
  <1>u. UNCHANGED turn => TurnOK'
    BY <1>0 DEF turn, TurnOK
  <1> USE CampaignAssumption DEF turn
  <1>1. ASSUME NEW p \in Procs, Load(p) PROVE Goal
    BY <1>1, <1>g, <1>s, <1>u DEF Load
  <1>2. ASSUME NEW p \in Procs, Enter(p) PROVE Goal
    <2>1. CASE Exit(p) /\ UNCHANGED turn
      BY <2>1, <1>e, <1>u
    <2>2. CASE slot' = p /\ left' = Wall /\ untried' = Harnesses /\ UNCHANGED <<at, route, verdict>> /\ Goto(p, "pending")
      BY <2>2, <1>0, <1>g, <1>s DEF TurnOK
    <2> QED BY <1>2, <2>1, <2>2 DEF Enter
  <1>3. ASSUME NEW p \in Procs, NEW h \in Harnesses, TakePending(p, h) PROVE Goal
    <2>1. Pending(h, mem[p][h]) \subseteq Artifacts
      BY <1>0 DEF Pending, KeptOK
    <2> QED BY <1>3, <2>1, <1>0, <1>g, <1>s DEF TakePending, TurnOK
  <1>4. ASSUME NEW p \in Procs, NEW a \in Artifacts, NEW decided \in BOOLEAN, Replay(p, a, decided) PROVE Goal
    <2>1. left' \in Int
      BY <1>4, <1>0 DEF Replay, ReplayTimes, TurnOK
    <2> QED BY <1>4, <2>1, <1>0 DEF Replay, TurnOK
  <1>5. ASSUME NEW p \in Procs, EndReplay(p) \/ Settle(p) PROVE Goal
    BY <1>5, <1>0, <1>g, <1>s DEF EndReplay, Settle, TurnOK
  <1>6. ASSUME NEW p \in Procs, NEW h \in Harnesses, NEW o \in Outcomes, RunSlice(p, h, o) PROVE Goal
    <2>1. left' \in Int
      BY <1>6, <1>0 DEF RunSlice, Window, TurnOK
    <2>2. verdict' \in Quarantine \cup {"productive", "dry", Unset}
      BY <1>6, ClassifyIs DEF RunSlice
    <2>3. route' \subseteq Artifacts
      BY <1>6 DEF RunSlice, Outcomes
    <2>4. at' = h /\ Goto(p, "route") /\ UNCHANGED <<slot, untried>>
      BY <1>6 DEF RunSlice
    <2> QED BY <2>1, <2>2, <2>3, <2>4, <1>0, <1>g, <1>s DEF TurnOK
  <1>7. ASSUME NEW p \in Procs, Merge(p) PROVE Goal
    <2>1. left' \in Int
      BY <1>7, <1>0 DEF Merge, TurnOK
    <2>2. UNCHANGED <<slot, untried, at, route, verdict>> /\ (doing' = doing \/ Goto(p, "merged"))
      BY <1>7 DEF Merge
    <2> QED BY <2>1, <2>2, <1>0, <1>g, <1>s DEF TurnOK
  <1>8. ASSUME NEW p \in Procs, Rename(p) PROVE Goal
    BY <1>8, <1>g, <1>s, <1>u DEF Rename
  <1>9. ASSUME NEW p \in Procs, Save(p) PROVE Goal
    BY <1>9, <1>0, <1>g, <1>s DEF Save, TurnOK
  <1>10. ASSUME NEW p \in Procs, EndCampaign(p) \/ KillCampaign(p) PROVE Goal
    BY <1>10, <1>e, <1>i, <1>u DEF EndCampaign, KillCampaign
  <1>11. ASSUME NEW h \in Harnesses, Rebuild(h) PROVE Goal
    BY <1>11, <1>0, <1>u DEF Rebuild
  <1>12. CASE UNCHANGED campaignVars
    BY <1>12, <1>0, <1>u DEF campaignVars
  <1> QED
    BY <1>1, <1>2, <1>3, <1>4, <1>5, <1>6, <1>7, <1>8, <1>9, <1>10, <1>11, <1>12 DEF CampaignNext, Step

\* One campaign at a time works, on one harness, and an ended one forgets.
LEMMA SlotStep ==
    ASSUME FuzzInv, [CampaignNext]_campaignVars
    PROVE  SlotInv'
  <1>0. SlotInv /\ doing \in [Procs -> Stages] /\ MemOK
    BY FuzzTypes DEF FuzzInv
  <1>n. Nobody \notin Procs
    BY CampaignAssumption
  <1>e. ASSUME NEW p \in Procs, Exit(p), IF slot = p THEN Idle ELSE UNCHANGED turn PROVE SlotInv'
    <2>1. ASSUME NEW q \in Procs PROVE doing'[q] = (IF q = p THEN "off" ELSE doing[q]) /\ mem'[q] = IF q = p THEN Unloaded ELSE mem[q]
      BY <1>e, <1>0 DEF Exit, Goto, MemOK
    <2>2. slot' = IF slot = p THEN Nobody ELSE slot
      BY <1>e DEF Idle, turn
    <2>3. slot # p => at' = at
      BY <1>e DEF turn
    <2> QED BY <2>1, <2>2, <2>3, <1>0, <1>n DEF SlotInv
  <1>h. ASSUME NEW p \in Procs, slot = p, slot' = p, NEW there, doing' = [doing EXCEPT ![p] = there],
               there # "off", there \in {"replay", "route", "settle", "merged"} => at' \in Harnesses,
               \A q \in Procs \ {p} : mem'[q] = mem[q]
        PROVE  SlotInv'
    BY <1>h, <1>0 DEF SlotInv
  <1>a. \A p \in Procs : doing[p] \notin {"off", "loaded"} => slot = p
    BY <1>0 DEF SlotInv
  <1>m. ASSUME NEW p \in Procs, NEW h, NEW t, mem' = [mem EXCEPT ![p][h] = t] PROVE \A q \in Procs \ {p} : mem'[q] = mem[q]
    BY <1>m, <1>0 DEF MemOK
  <1>r. ASSUME NEW p \in Procs, NEW f, mem' = [mem EXCEPT ![p] = f] PROVE \A q \in Procs \ {p} : mem'[q] = mem[q]
    BY <1>r, <1>0 DEF MemOK
  <1> USE DEF Goto, turn
  <1>1. ASSUME NEW p \in Procs, Load(p) PROVE SlotInv'
    <2>1. doing' = [doing EXCEPT ![p] = "loaded"] /\ UNCHANGED <<slot, at>>
      BY <1>1 DEF Load
    <2>2. \A q \in Procs \ {p} : mem'[q] = mem[q]
      BY <1>1, <1>r DEF Load
    <2> QED BY <2>1, <2>2, <1>0 DEF SlotInv
  <1>2. ASSUME NEW p \in Procs, Enter(p) PROVE SlotInv'
    <2>1. CASE slot = Nobody
      <3>1. slot' = p /\ doing' = [doing EXCEPT ![p] = "pending"] /\ UNCHANGED <<at, mem>>
        BY <1>2, <2>1 DEF Enter
      <3>2. \A q \in Procs : doing[q] \in {"off", "loaded"}
        BY <2>1, <1>a, <1>n
      <3> QED BY <3>1, <3>2, <1>0 DEF SlotInv
    <2>2. CASE slot # Nobody
      <3>1. Exit(p) /\ UNCHANGED <<slot, at>>
        BY <1>2, <2>2 DEF Enter
      <3>2. ASSUME NEW q \in Procs PROVE doing'[q] = (IF q = p THEN "off" ELSE doing[q]) /\ mem'[q] = IF q = p THEN Unloaded ELSE mem[q]
        BY <3>1, <1>0 DEF Exit, MemOK
      <3> QED BY <3>1, <3>2, <1>0 DEF SlotInv
    <2> QED BY <2>1, <2>2
  <1>3. ASSUME NEW p \in Procs, NEW h \in Harnesses, TakePending(p, h) PROVE SlotInv'
    <2>1. doing[p] = "pending" /\ doing' = [doing EXCEPT ![p] = "replay"] /\ at' = h /\ slot' = slot /\ mem' = mem
      BY <1>3 DEF TakePending
    <2> QED BY <2>1, <1>a, <1>h
  <1>4. ASSUME NEW p \in Procs, NEW a \in Artifacts, NEW decided \in BOOLEAN, Replay(p, a, decided)
        PROVE  SlotInv'
    <2>1. /\ doing[p] \in {"replay", "route"} /\ UNCHANGED <<doing, slot, at>>
          /\ mem' = [mem EXCEPT ![p][at] = Marked(mem[p][at], a, decided)]
      BY <1>4 DEF Replay
    <2>2. \A q \in Procs \ {p} : mem'[q] = mem[q]
      BY <2>1, <1>m
    <2> QED BY <2>1, <2>2, <1>0 DEF SlotInv
  <1>5. ASSUME NEW p \in Procs, EndReplay(p) PROVE SlotInv'
    <2>1. /\ doing[p] = "replay" /\ slot' = slot
          /\ \/ doing' = [doing EXCEPT ![p] = "pending"] \/ doing' = [doing EXCEPT ![p] = "select"]
      BY <1>5 DEF EndReplay
    <2>2. \A q \in Procs \ {p} : mem'[q] = mem[q]
      BY <1>5, <1>r DEF EndReplay
    <2> QED BY <2>1, <2>2, <1>a, <1>h
  <1>6. ASSUME NEW p \in Procs, NEW h \in Harnesses, NEW o \in Outcomes, RunSlice(p, h, o) PROVE SlotInv'
    <2>1. doing[p] = "select" /\ doing' = [doing EXCEPT ![p] = "route"] /\ at' = h /\ slot' = slot
      BY <1>6 DEF RunSlice
    <2>2. \A q \in Procs \ {p} : mem'[q] = mem[q]
      BY <1>6, <1>m DEF RunSlice
    <2> QED BY <2>1, <2>2, <1>a, <1>h
  <1>7. ASSUME NEW p \in Procs, Settle(p) PROVE SlotInv'
    <2>1. doing[p] = "route" /\ doing' = [doing EXCEPT ![p] = "settle"] /\ at' = at /\ slot' = slot
      BY <1>7 DEF Settle
    <2>2. at \in Harnesses
      BY <2>1, <1>0 DEF SlotInv
    <2>3. \A q \in Procs \ {p} : mem'[q] = mem[q]
      BY <1>7, <1>0 DEF Settle, MemOK
    <2> QED BY <2>1, <2>2, <2>3, <1>a, <1>h
  <1>8. ASSUME NEW p \in Procs, Merge(p) PROVE SlotInv'
    <2>1. /\ doing[p] = "settle" /\ at' = at /\ slot' = slot
          /\ doing' = [doing EXCEPT ![p] = "merged"] \/ doing' = doing
      BY <1>8 DEF Merge
    <2>2. at \in Harnesses
      BY <2>1, <1>0 DEF SlotInv
    <2>3. \A q \in Procs \ {p} : mem'[q] = mem[q]
      BY <1>8, <1>0 DEF Merge, MemOK
    <2>4. CASE doing' = [doing EXCEPT ![p] = "merged"]
      BY <2>1, <2>2, <2>3, <2>4, <1>a, <1>h
    <2>5. CASE doing' = doing
      BY <2>1, <2>3, <2>5, <1>0 DEF SlotInv
    <2> QED BY <2>1, <2>4, <2>5
  <1>9. ASSUME NEW p \in Procs, Rename(p) PROVE SlotInv'
    <2>1. doing[p] = "merged" /\ doing' = [doing EXCEPT ![p] = "settle"] /\ at' = at /\ slot' = slot /\ mem' = mem
      BY <1>9 DEF Rename
    <2>2. at \in Harnesses
      BY <2>1, <1>0 DEF SlotInv
    <2> QED BY <2>1, <2>2, <1>a, <1>h
  <1>10. ASSUME NEW p \in Procs, Save(p) PROVE SlotInv'
    <2>1. doing[p] = "settle" /\ doing' = [doing EXCEPT ![p] = "select"] /\ slot' = slot /\ mem' = mem
      BY <1>10 DEF Save
    <2> QED BY <2>1, <1>a, <1>h
  <1>11. ASSUME NEW p \in Procs, EndCampaign(p) PROVE SlotInv'
    <2>1. slot = p
      BY <1>11, <1>a DEF EndCampaign
    <2> QED BY <1>11, <2>1, <1>e DEF EndCampaign
  <1>12. ASSUME NEW p \in Procs, KillCampaign(p) PROVE SlotInv'
    BY <1>12, <1>e DEF KillCampaign
  <1>13. ASSUME NEW h \in Harnesses, Rebuild(h) PROVE SlotInv'
    BY <1>13, <1>0 DEF Rebuild, SlotInv
  <1>14. CASE UNCHANGED campaignVars
    BY <1>14, <1>0 DEF campaignVars, SlotInv
  <1> QED
    BY <1>1, <1>2, <1>3, <1>4, <1>5, <1>6, <1>7, <1>8, <1>9, <1>10, <1>11, <1>12, <1>13, <1>14
    DEF CampaignNext, Step

\* What is saved is what the campaign that saves had in memory.
LEMMA SavedStep ==
    ASSUME FuzzInv, [CampaignNext]_campaignVars
    PROVE  /\ judged \subseteq judged'
           /\ stateFile' = stateFile \/ \E p \in Procs : stateFile' = mem[p]
  <1> USE DEF tree
  <1>1. ASSUME NEW p \in Procs, Step(p) \/ KillCampaign(p)
        PROVE  /\ judged \subseteq judged'
               /\ stateFile' = stateFile \/ stateFile' = mem[p]
    BY <1>1 DEF Step, Load, Enter, TakePending, Replay, EndReplay, RunSlice, Settle, Merge, Rename, Save,
                EndCampaign, KillCampaign
  <1> QED BY <1>1 DEF CampaignNext, Rebuild, campaignVars

LEMMA SeenStep ==
    ASSUME FuzzInv, [CampaignNext]_campaignVars
    PROVE  SeenIsJudged'
  <1>1. MemMoves /\ SeenIsJudged
    BY MemStep DEF FuzzInv
  <1>2. ASSUME NEW h \in Harnesses PROVE \A a \in stateFile'[h].seen : <<h, stateFile'[h].bin, a>> \in judged'
    BY <1>1, SavedStep DEF SeenIsJudged
  <1> QED BY <1>1, <1>2 DEF MemMoves, SeenIsJudged

\* The wall is not outrun by a step that starts within it.
LEMMA WallStep ==
    ASSUME OverrunsCovered, FuzzInv, WallKept, [CampaignNext]_campaignVars
    PROVE  WallKept'
  <1>0. /\ left \in Int /\ left >= 0 /\ Wall \in Nat /\ Slice \in Nat /\ Slack \in Nat /\ MergeReserve \in Nat
        /\ Reserve \in Nat \ {0} /\ MinSlice \in Nat \ {0}
        /\ Slack <= Reserve /\ Slice + Slack <= MergeReserve + Reserve
    BY FuzzTypes, CampaignAssumption DEF FuzzInv, TurnOK, WallKept, OverrunsCovered
  <1> USE DEF turn
  <1>1. ASSUME NEW p \in Procs, NEW a \in Artifacts, NEW decided \in BOOLEAN, Replay(p, a, decided) PROVE left' >= 0
    <2>1. left >= Reserve /\ \E d \in {1, IF left > Reserve THEN left ELSE Reserve} : left' = left - d
      BY <1>1 DEF Replay, ReplayTimes
    <2> QED BY <2>1, <1>0
  <1>2. ASSUME NEW p \in Procs, NEW h \in Harnesses, NEW o \in Outcomes, RunSlice(p, h, o) PROVE left' >= 0
    <2>1. Window >= MinSlice /\ \E d \in {1, Window + Slack} : left' = left - d
      BY <1>2 DEF RunSlice
    <2>2. Window \in Int /\ Window <= left - Reserve
      BY <1>0 DEF Window
    <2> QED BY <2>1, <2>2, <1>0
  <1>3. ASSUME NEW p \in Procs, Merge(p) PROVE left' >= 0
    <2>1. left >= MergeReserve + Reserve /\ \E d \in {1, Slice + Slack} : left' = left - d
      BY <1>3 DEF Merge, MergeDue
    <2> QED BY <2>1, <1>0
  <1>4. ASSUME NEW p \in Procs, Enter(p) \/ EndCampaign(p) \/ KillCampaign(p) PROVE left' >= 0
    <2>1. left' \in {left, Wall, 0}
      BY <1>4 DEF Enter, EndCampaign, KillCampaign, Idle
    <2> QED BY <2>1, <1>0
  <1>5. ASSUME NEW p \in Procs, Load(p) \/ EndReplay(p) \/ Settle(p) \/ Rename(p) \/ Save(p) PROVE left' >= 0
    BY <1>5, <1>0 DEF Load, EndReplay, Settle, Rename, Save
  <1>6. ASSUME NEW p \in Procs, NEW h \in Harnesses, TakePending(p, h) PROVE left' >= 0
    BY <1>6, <1>0 DEF TakePending
  <1>7. CASE (\E h \in Harnesses : Rebuild(h)) \/ UNCHANGED campaignVars
    BY <1>7, <1>0 DEF Rebuild, campaignVars, WallKept
  <1> QED BY <1>1, <1>2, <1>3, <1>4, <1>5, <1>6, <1>7 DEF CampaignNext, Step, WallKept

-----------------------------------------------------------------------------
(* The theorems *)

LEMMA FuzzFirst == CampaignInit => FuzzInv
  <1> SUFFICES ASSUME CampaignInit PROVE FuzzInv
    OBVIOUS
  <1>z. 0 \in 0 .. MaxBuilds /\ 0 \in 0 .. MaxCorpus /\ 0 \in 0 .. MaxKills
    BY CampaignAssumption
  <1>f. \A h \in Harnesses : stateFile[h] = Fresh(0)
    BY DEF CampaignInit
  <1>m. \A p \in Procs : mem[p] = Unloaded
    BY DEF CampaignInit
  <1>1. KeptOK
    BY <1>z, FreshIs DEF CampaignInit, KeptOK
  <1>2. TurnOK
    BY DEF CampaignInit, TurnOK
  <1>3. MemOK
    BY UnloadedIs DEF CampaignInit, MemOK
  <1>4. doing \in [Procs -> Stages] /\ \A p \in Procs : doing[p] = "off"
    <2>1. "off" \in Stages
      BY DEF Stages
    <2> QED BY <2>1 DEF CampaignInit
  <1>5. SlotInv
    BY <1>4, <1>m DEF SlotInv
  <1>6. SeenIsJudged
    BY <1>f, <1>m, <1>z, FreshIs, UnloadedIs DEF SeenIsJudged
  <1> QED BY <1>1, <1>2, <1>3, <1>4, <1>5, <1>6, FuzzTypes DEF FuzzInv

LEMMA FuzzStep == FuzzInv /\ [CampaignNext]_campaignVars => FuzzInv'
  <1> SUFFICES ASSUME FuzzInv, [CampaignNext]_campaignVars PROVE FuzzInv'
    OBVIOUS
  <1>1. MemOK'
    BY MemStep DEF MemMoves, MemOK
  <1>2. CampaignTypeOK'
    <2>1. (KeptOK /\ TurnOK /\ MemOK /\ doing \in [Procs -> Stages])'
      BY <1>1, KeptStep, TurnStep
    <2> QED BY <2>1, FuzzTypes, PTL
  <1> QED BY <1>2, SlotStep, SeenStep DEF FuzzInv

LEMMA FuzzAlways == CampaignSpec => []FuzzInv
  BY FuzzFirst, FuzzStep, PTL DEF CampaignSpec

\* Every variable of a campaign keeps its type (fuzz_campaign.py).
THEOREM CampaignTypeCorrect == CampaignSpec => []CampaignTypeOK
  <1>1. FuzzInv => CampaignTypeOK
    BY DEF FuzzInv
  <1> QED BY <1>1, FuzzAlways, PTL

\* A campaign marks as seen only what a probe judged under that binary, brings a
\* harness back only for a grown corpus, and stays within its wall when what a
\* slice or a merge may run over is held back (fuzz_campaign.py run, revive).
THEOREM CampaignsAreKept == OverrunsCovered => (CampaignSpec => CampaignKept)
  <1>1. FuzzInv => SeenIsJudged
    BY DEF FuzzInv
  <1>2. CampaignInit => WallKept
    BY DEF CampaignInit, WallKept
  <1>3. OverrunsCovered /\ FuzzInv /\ WallKept /\ [CampaignNext]_campaignVars => WallKept'
    BY WallStep
  <1>4. FuzzInv /\ [CampaignNext]_campaignVars
          => [\A p \in Procs, h \in Harnesses :
                mem[p][h].quar # Unset /\ mem'[p][h].quar = Unset /\ doing'[p] # "off" =>
                    mem[p][h].quar \in Revivable /\ corpus[h] > mem[p][h].cq]_campaignVars
    BY MemStep DEF MemMoves
  <1> SUFFICES ASSUME OverrunsCovered PROVE CampaignSpec => CampaignKept
    OBVIOUS
  <1>5. FuzzInv /\ WallKept /\ [CampaignNext]_campaignVars => WallKept'
    BY <1>3
  <1> QED
    BY <1>1, <1>2, <1>4, <1>5, FuzzAlways, PTL DEF CampaignSpec, CampaignKept, RotationEarned
=============================================================================
