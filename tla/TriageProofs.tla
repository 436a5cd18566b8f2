---------------------------- MODULE TriageProofs ----------------------------
(***************************************************************************)
(* Proofs about Triage.  Besides its types, the invariant says where a     *)
(* pass may be for what it works on (PathInv), what a current published    *)
(* verdict rests on (PublishedInv), and that a bundle's pending count stays *)
(* behind the barriers it has met (PendInv).                               *)
(*                                                                         *)
(* The second half is about TargetSetup: what a setup has settled by the   *)
(* stage it is at (StageInv, WholeInv), that what it built is there        *)
(* (MadeInv), and that every sanitizer is done or still to be (DoneInv).   *)
(***************************************************************************)
EXTENDS Triage, TargetSetup, FiniteSetTheorems, TLAPS

-----------------------------------------------------------------------------
(* Types *)

Arts == [kind : Kinds, class : {"memory", "discard", "demote", "none"}, proof : {"no", "clear", "ambiguous"},
         pinned : BOOLEAN, demoted : BOOLEAN, exported : BOOLEAN]
Whys == {"", "hard", "aged", "quality", "trigger", "publication"}
Qualities == [acc : 0..AcceptQuorum, rej : 0..Quorum]
Files == Review \cup {None, Stale}
Receipts == [state : Final \cup {"none", "pending", "rejected"}, cur : BOOLEAN]
Pends == [sig : Gaps \cup {"", "bundle", "fields"}, n : 0..PendingMax]
Steps == {"idle", "begin", "admit", "quality", "export", "fields", "first", "second",
          "resolution", "final", "settle", "move"}
Passes == [pc : Steps, barrier : BOOLEAN, expired : BOOLEAN, tried : SUBSET Slots]

ArtOK == art \in Arts /\ lane \in {"active", "rejected"} /\ why \in Whys /\ gap \in Gaps \cup {"none"}
ReportOK == /\ fields \in Verdicts \cup {"incomplete"} /\ fills \in 0..(FillMax + 1)
            /\ quality \in Qualities /\ quality.acc + quality.rej < AcceptQuorum + Quorum
            /\ vote \in [Slots -> Files]
PassOK == receipt \in Receipts /\ pend \in Pends /\ pass \in Passes
BoundOK == trouble \in 0..MaxTrouble /\ changes \in 0..MaxChanges /\ barriers \in 0..PendingMax

-----------------------------------------------------------------------------
(* The inductive invariant *)

\* _bump_promotion_pending ran at most once for each barrier before this one.
PendInv ==
    /\ pend.n < PendingMax /\ pend.n <= barriers
    /\ pass.pc # "idle" /\ pass.barrier => pend.n < barriers

\* The steps a finding's pass may be at: a pinned one is never voted on, and an
\* unpinned one is reviewed only once the quality gate has accepted it.
PathInv ==
    art.kind = "finding" =>
        /\ pass.pc # "export"
        /\ art.pinned => pass.pc \in {"idle", "begin", "fields", "final", "move"}
        /\ ~art.pinned =>
              /\ art.class = "discard" => pass.pc \in {"idle", "begin", "move"}
              /\ pass.pc = "fields" => Accepted \/ Refused
              /\ pass.pc \in {"first", "second", "resolution", "settle"} => Accepted

\* A published verdict is one the same reviews would give again, and nothing a
\* pass over it does before its conclusion asks for another review.
PublishedInv ==
    Published =>
        /\ art.kind = "crash" /\ Resolved => pass.pc \in {"idle", "begin"}
        /\ art.kind = "finding" => fields # "incomplete"
        /\ art.kind = "finding" /\ ~art.pinned =>
              /\ Accepted /\ art.class # "discard"
              /\ Resolved => /\ pass.pc \in {"idle", "begin", "final"}
                             /\ Disposition = "accepted" /\ Publication = "reportable"

-----------------------------------------------------------------------------
(* Lemmas on the constants and on the shapes of the values *)

\* The numeric constants are naturals, and the quorums and PendingMax positive.
LEMMA Numbers ==
    /\ Quorum \in Nat /\ Quorum >= 1 /\ AcceptQuorum \in Nat /\ AcceptQuorum >= 1
    /\ PendingMax \in Nat /\ PendingMax >= 1 /\ FillMax \in Nat
    /\ MaxTrouble \in Nat /\ MaxChanges \in Nat
BY TriageAssumption DEF TriageAssumption

\* A reviewer answers with a review.
LEMMA Inputs == Answers \subseteq Review
BY TriageAssumption DEF TriageAssumption

\* TypeOK, in four parts that leave the record sets folded.
LEMMA TypeParts == TypeOK <=> ArtOK /\ ReportOK /\ PassOK /\ BoundOK
BY DEF TypeOK, ArtOK, ReportOK, PassOK, BoundOK, Arts, Whys, Qualities, Files, Receipts, Pends,
    Steps, Passes

\* The same for the next state.
LEMMA TypePartsPrimed == TypeOK' <=> ArtOK' /\ ReportOK' /\ PassOK' /\ BoundOK'
BY TypeParts, PTL

\* Marking the review files stale, or annotating the report, keeps their type.
LEMMA VotesTyped ==
    ASSUME NEW v \in [Slots -> Files]
    PROVE  /\ Staled(v) \in [Slots -> Files]
           /\ Annotated(v) \in [Slots -> Files]
<1>1. Staled(v) \in [Slots -> Files]
  BY DEF Staled, Files
<1>2. Annotated(v) \in [Slots -> Files]
  BY DEF Annotated, Files
<1> QED BY <1>1, <1>2

\* Every update of a pass yields a pass.
LEMMA PassTyped ==
    ASSUME PassOK
    PROVE  /\ Idle \in Passes
           /\ \A step \in Steps : [pass EXCEPT !.pc = step] \in Passes
           /\ [pass EXCEPT !.pc = "begin", !.tried = {}] \in Passes
           /\ [Idle EXCEPT !.pc = "begin", !.barrier = TRUE] \in Passes
           /\ [Idle EXCEPT !.pc = "begin"] \in Passes
           /\ [pass EXCEPT !.expired = TRUE] \in Passes
           /\ \A step \in Steps, t \in SUBSET Slots : [pass EXCEPT !.pc = step, !.tried = @ \cup t] \in Passes
BY DEF PassOK, Passes, Steps, Idle

\* A written receipt, and one that went out of date, are receipts.
LEMMA ReceiptTyped ==
    ASSUME PassOK
    PROVE  /\ \A st \in Final \cup {"none", "pending", "rejected"} :
                  [state |-> st, cur |-> TRUE] \in Receipts
           /\ \A b \in BOOLEAN : [receipt EXCEPT !.cur = b] \in Receipts
BY DEF PassOK, Receipts

\* No votes at all leave both quorums short.
LEMMA QualityTyped ==
    /\ [acc |-> 0, rej |-> 0] \in Qualities
    /\ [acc |-> 0, rej |-> 0].acc + [acc |-> 0, rej |-> 0].rej < AcceptQuorum + Quorum
BY Numbers DEF Qualities

\* A cleared pending file, and one that counts, are pending files.
LEMMA PendTyped ==
    /\ [sig |-> "", n |-> 0] \in Pends
    /\ \A sig \in Gaps \cup {"bundle", "fields"}, n \in 0..PendingMax : [sig |-> sig, n |-> n] \in Pends
<1>1. 0 \in 0..PendingMax
  BY Numbers
<1> QED BY <1>1 DEF Pends

\* The bounds and the history of barriers stay in their ranges.
LEMMA TroubleTyped ==
    ASSUME BoundOK
    PROVE  /\ Trouble => trouble' \in 0..MaxTrouble
           /\ Change => changes' \in 0..MaxChanges
           /\ (IF barriers < PendingMax THEN barriers + 1 ELSE barriers) \in 0..PendingMax
BY Numbers DEF BoundOK, Trouble, Change

\* Write and Outdated yield a receipt.
LEMMA ReceiptShapes ==
    ASSUME PassOK
    PROVE  /\ \A st \in Final \cup {"none", "pending", "rejected"} :
                  Write(st) => receipt' \in Receipts
           /\ Outdated => receipt' \in Receipts
BY ReceiptTyped DEF Write, Outdated

\* To and End yield a pass.
LEMMA PassShapes ==
    ASSUME PassOK
    PROVE  /\ \A step \in Steps : To(step) => pass' \in Passes
           /\ End => pass' \in Passes
BY PassTyped DEF To, End

-----------------------------------------------------------------------------
(* The invariant holds at first and is kept by every step *)

\* Every step keeps the types.
LEMMA TypeStep ==
    ASSUME TypeOK, [Next]_vars
    PROVE  TypeOK'
<1> SUFFICES ArtOK' /\ ReportOK' /\ PassOK' /\ BoundOK'
  BY TypePartsPrimed
<1>0. ArtOK /\ ReportOK /\ PassOK /\ BoundOK
  BY TypeParts
<1> USE <1>0 DEF ArtOK, ReportOK, PassOK, BoundOK, place, report, bounds
<1>1. CASE StartBarrier
  <2>1. ArtOK' BY <1>1 DEF StartBarrier, Routed, Arts, Whys, Kinds
  <2>2. ReportOK' BY <1>1, VotesTyped, QualityTyped DEF StartBarrier, Files
  <2>3. PassOK' BY <1>1, PassTyped, ReceiptTyped DEF StartBarrier, Write, Outdated
  <2>4. BoundOK' BY <1>1, TroubleTyped DEF StartBarrier
  <2> QED BY <2>1, <2>2, <2>3, <2>4
<1>2. CASE StartSweep BY <1>2, PassTyped DEF StartSweep
<1>3. CASE Classify
  <2>1. ArtOK' /\ ReportOK' /\ BoundOK' BY <1>3 DEF Classify, Reject, Whys
  <2>2. PassOK' BY <1>3, PassShapes, ReceiptShapes DEF Classify, Reject, Steps
  <2> QED BY <2>1, <2>2
<1>4. CASE Admit BY <1>4, PassTyped, ReceiptTyped
    DEF Admit, HoldPending, Conclude, Write, End, To, Steps
<1>5. CASE QualityRound
  <2>1. ArtOK' /\ BoundOK' BY <1>5, TroubleTyped
      DEF QualityRound, Cut, HoldPending, Conclude, Reject, Whys
  <2>2. ReportOK'
    BY <1>5, Numbers
        DEF QualityRound, Cut, HoldPending, Conclude, Reject, Accepted, Refused, Qualities
  <2>3. PassOK' BY <1>5, PassTyped, ReceiptTyped
      DEF QualityRound, Cut, HoldPending, Conclude, Write, End, To, Reject, Outdated, Steps
  <2> QED BY <2>1, <2>2, <2>3
<1>6. CASE Export
  <2>1. ArtOK' BY <1>6 DEF Export, Demote, Arts, Kinds
  <2>2. ReportOK' BY <1>6, VotesTyped, QualityTyped DEF Export, Demote
  <2>3. PassOK' BY <1>6, PassTyped, ReceiptTyped, PendTyped
      DEF Export, Demote, End, To, Outdated, Steps
  <2>4. BoundOK' BY <1>6, Numbers DEF Export, Trouble
  <2> QED BY <2>1, <2>2, <2>3, <2>4
<1>7. CASE Fill
  <2>1. ArtOK' /\ BoundOK' BY <1>7, Numbers DEF Fill, Trouble
  <2>2. ReportOK' BY <1>7, Numbers, VotesTyped, QualityTyped DEF Fill, FieldsOwed
  <2>3. PassOK' BY <1>7, PassTyped, ReceiptTyped DEF Fill, To, AfterFields, Outdated, Steps
  <2> QED BY <2>1, <2>2, <2>3
<1>8. ASSUME NEW s \in Slots, Ask(s) PROVE ArtOK' /\ ReportOK' /\ PassOK' /\ BoundOK'
  <2>1. ArtOK' /\ BoundOK' BY <1>8, Numbers DEF Ask, Trouble
  <2>2. ReportOK' BY <1>8, Inputs DEF Ask, Files
  <2>3. After(s) \in Steps BY DEF After, Slots, Reviews, Steps
  <2>4. receipt' \in Receipts
    <3>1. [receipt EXCEPT !.cur = receipt.cur /\ vote[s] = None] \in Receipts
      BY DEF Receipts
    <3> QED BY <1>8, <3>1, ReceiptShapes DEF Ask
  <2>5. pass' \in Passes
    <3>1. {s} \in SUBSET Slots /\ {} \in SUBSET Slots
      OBVIOUS
    <3>2. /\ [pass EXCEPT !.pc = After(s), !.tried = @ \cup {s}] \in Passes
          /\ [pass EXCEPT !.pc = After(s), !.tried = @ \cup {}] \in Passes
          /\ [pass EXCEPT !.pc = After(s)] \in Passes
      BY <2>3, <3>1, PassTyped
    <3> QED BY <1>8, <3>2 DEF Ask, To
  <2>6. PassOK' BY <1>8, <2>4, <2>5 DEF Ask
  <2> QED BY <2>1, <2>2, <2>6
<1>9. CASE Settle
  <2>1. ArtOK' BY <1>9 DEF Settle, HoldPending, ConcludeFinding, Conclude, Reject, Publish, Whys
  <2>2. ReportOK' /\ BoundOK' BY <1>9
      DEF Settle, HoldPending, ConcludeFinding, Conclude, Reject, Publish
  <2>3. Publication \notin {"not-reportable", "unsettled"} => Publication \in Final \cup {"pending"}
    BY DEF Publication, Final
  <2>4. PassOK' BY <1>9, <2>3, PassShapes, ReceiptShapes
      DEF Settle, HoldPending, ConcludeFinding, Conclude, Reject, Publish, Steps
  <2> QED BY <2>1, <2>2, <2>4
<1>10. CASE Move BY <1>10, PassTyped DEF Move, End
<1>11. CASE Kill BY <1>11, PassShapes, TroubleTyped DEF Kill
<1>12. CASE Expire BY <1>12, PassTyped, TroubleTyped DEF Expire
<1>13. CASE Edit BY <1>13, VotesTyped, QualityTyped, ReceiptShapes, TroubleTyped DEF Edit
<1>14. CASE PolicyChange BY <1>14, VotesTyped, ReceiptShapes, TroubleTyped DEF PolicyChange
<1>15. CASE NewVersion BY <1>15, VotesTyped, TroubleTyped DEF NewVersion
<1>17. CASE Finish
  <2>1. BoundOK' BY <1>17, TroubleTyped DEF Finish, ConcludePinned
  <2>3. Publication \notin {"not-reportable", "unsettled"} => Publication \in Final \cup {"pending"}
    BY DEF Publication, Final
  <2>4. CASE ConcludeCrash
    <3>1. CASE Demote
      <4>1. ArtOK' BY <3>1 DEF Demote, Arts, Kinds
      <4>2. ReportOK' BY <3>1, VotesTyped, QualityTyped DEF Demote
      <4>3. PassOK' BY <3>1, PassTyped, PassShapes, ReceiptShapes, PendTyped DEF Demote
      <4> QED BY <2>1, <4>1, <4>2, <4>3
    <3>2. ASSUME NEW sig \in Gaps \cup {"bundle", "fields"}, Hold(sig)
          PROVE  ArtOK' /\ ReportOK' /\ PassOK' /\ BoundOK'
      <4>1. ArtOK' /\ ReportOK' BY <3>2 DEF Hold, HoldPending, Conclude, Reject, Whys
      <4> DEFINE n == IF pend.sig = sig THEN pend.n + 1 ELSE 1
      <4>2. n < PendingMax => n \in 0..PendingMax
        <5>1. pend \in Pends OBVIOUS
        <5>2. pend.n \in 0..PendingMax BY <5>1 DEF Pends
        <5> QED BY <5>2, Numbers
      <4> HIDE DEF n
      <4>3. pend' \in Pends
        <5>1. \/ pend' = pend \/ pend' = [sig |-> "", n |-> 0]
              \/ n < PendingMax /\ pend' = [sig |-> sig, n |-> n]
          BY <3>2 DEF Hold, HoldPending, n
        <5> QED BY <4>2, <5>1, PendTyped
      <4>4. receipt' \in Receipts BY <3>2, ReceiptShapes DEF Hold, HoldPending, Conclude, Reject
      <4>5. pass' \in Passes BY <3>2, PassShapes DEF Hold, HoldPending, Conclude, Reject, Steps
      <4> QED BY <2>1, <4>1, <4>3, <4>4, <4>5
    <3>3. CASE Cut
      BY <2>1, <3>3, PassShapes, ReceiptShapes DEF Cut, HoldPending, Conclude
    <3>4. CASE ClearPend /\ (Reject("hard") \/ Conclude("pending") \/ Reject("trigger") \/ Publish)
      <4>1. ArtOK' /\ ReportOK' BY <3>4 DEF Conclude, Reject, Publish, Whys
      <4>2. pend' \in Pends BY <3>4, PendTyped DEF ClearPend
      <4>3. receipt' \in Receipts BY <3>4, <2>3, ReceiptShapes DEF Conclude, Reject, Publish
      <4>4. pass' \in Passes BY <3>4, PassShapes DEF Conclude, Reject, Publish, Steps
      <4> QED BY <2>1, <4>1, <4>2, <4>3, <4>4
    <3> QED BY <2>4, <3>1, <3>2, <3>3, <3>4 DEF ConcludeCrash
  <2>5. CASE ConcludePinned
    BY <2>1, <2>5, PassShapes, ReceiptShapes DEF ConcludePinned, Conclude, Final
  <2>6. CASE \/ Cut \/ (Reject("quality") /\ UNCHANGED pend)
             \/ To("quality") /\ UNCHANGED <<place, gap, report, receipt, pend>>
    <3>1. ArtOK' /\ ReportOK' BY <2>6 DEF Cut, HoldPending, Conclude, Reject, Whys
    <3>2. PassOK' BY <2>6, PassShapes, ReceiptShapes DEF Cut, HoldPending, Conclude, Reject, Steps
    <3> QED BY <2>1, <3>1, <3>2
  <2>7. CASE ConcludeFinding
    <3>1. ArtOK' /\ ReportOK' BY <2>7 DEF ConcludeFinding, Conclude, Reject, Publish, Whys
    <3>2. PassOK' BY <2>7, <2>3, PassShapes, ReceiptShapes
        DEF ConcludeFinding, Conclude, Reject, Publish, Steps
    <3> QED BY <2>1, <3>1, <3>2
  <2> QED BY <1>17, <2>4, <2>5, <2>6, <2>7 DEF Finish
<1>16. CASE UNCHANGED vars BY <1>16 DEF vars
<1> QED BY <1>1, <1>2, <1>3, <1>4, <1>5, <1>6, <1>7, <1>8, <1>9, <1>10, <1>11, <1>12, <1>13,
    <1>14, <1>15, <1>16, <1>17 DEF Next, PassStep

\* To moves the pass and leaves the rest of it; End leaves an idle one.
LEMMA PassMoves ==
    ASSUME PassOK
    PROVE  /\ \A step : To(step) => /\ pass'.pc = step /\ pass'.barrier = pass.barrier
                                    /\ pass'.expired = pass.expired /\ pass'.tried = pass.tried
           /\ End => pass'.pc = "idle" /\ pass'.barrier = FALSE
BY DEF PassOK, Passes, To, End, Idle

\* Only a barrier counts, once, and ages a bundle only at its PendingMax-th.
LEMMA PendStep ==
    ASSUME TypeOK, PendInv, AgedAtBarriers, [Next]_vars
    PROVE  PendInv' /\ AgedAtBarriers'
<1>0. PassOK /\ BoundOK
  BY TypeParts
<1>00. pend.n \in Nat /\ barriers \in Nat /\ barriers <= PendingMax /\ PendingMax \in Nat /\ PendingMax >= 1
  <2>1. pend \in Pends /\ barriers \in 0..PendingMax BY <1>0 DEF PassOK, BoundOK
  <2>2. pend.n \in 0..PendingMax BY <2>1 DEF Pends
  <2> QED BY <2>1, <2>2, Numbers
<1>x. pass \in Passes
  BY <1>0 DEF PassOK
<1> USE DEF place, report, bounds
<1> DEFINE Same == pass'.pc = "idle" \/ ~pass'.barrier \/ (pass'.barrier = pass.barrier /\ pass.pc # "idle")
           Calm == /\ (pend' = pend \/ pend' = [sig |-> "", n |-> 0]) /\ barriers' = barriers /\ Same
                   /\ why' = why \/ why' # "aged"
<1>c. Calm => PendInv' /\ AgedAtBarriers'
  <2> SUFFICES ASSUME Calm PROVE PendInv' /\ AgedAtBarriers'
    OBVIOUS
  <2>1. [sig |-> "", n |-> 0].n = 0
    OBVIOUS
  <2>2. pend'.n = pend.n \/ pend'.n = 0
    BY <2>1
  <2>4. barriers' = barriers /\ Same /\ (why' = why \/ why' # "aged")
    OBVIOUS
  <2> HIDE DEF Calm
  <2>3. pend'.n \in Nat /\ pend'.n <= pend.n
    BY <1>00, <2>2
  <2>5. PendInv' BY <1>00, <2>3, <2>4 DEF PendInv
  <2> QED BY <1>00, <2>4, <2>5 DEF AgedAtBarriers
<1>1. CASE StartBarrier
  <2>1. why' \in {why, ""} /\ pend' = pend BY <1>1 DEF StartBarrier
  <2>2. barriers' = IF barriers < PendingMax THEN barriers + 1 ELSE barriers
    BY <1>1 DEF StartBarrier
  <2>3. pend.n < barriers' /\ pend.n <= barriers' /\ (barriers = PendingMax => barriers' = PendingMax)
    BY <1>00, <2>2 DEF PendInv
  <2> QED BY <1>00, <2>1, <2>3 DEF PendInv, AgedAtBarriers
<1> USE <1>0, <1>x, PassMoves
<1>2. CASE StartSweep BY <1>2, <1>c DEF StartSweep, Idle
<1>3. CASE Classify BY <1>3, <1>c DEF Classify, Reject
<1>4. CASE Admit BY <1>4, <1>c DEF Admit, HoldPending, Conclude
<1>5. CASE QualityRound
  <2>1. pass' = pass \/ Same
    BY <1>5 DEF QualityRound, Cut, HoldPending, Conclude, Reject
  <2> QED BY <1>5, <1>c, <2>1 DEF QualityRound, Cut, HoldPending, Conclude, Reject
<1>6. CASE Export
  <2>1. Same BY <1>6 DEF Export, Demote, Passes
  <2>2. pend' = pend \/ pend' = [sig |-> "", n |-> 0] BY <1>6 DEF Export, Demote
  <2> QED BY <1>6, <1>c, <2>1, <2>2 DEF Export, Demote
<1>7. CASE Fill BY <1>7, <1>c DEF Fill
<1>8. ASSUME NEW s \in Slots, Ask(s) PROVE PendInv' /\ AgedAtBarriers'
  <2>1. Same BY <1>8 DEF Ask, Passes, Slots, Reviews
  <2> QED BY <1>8, <2>1, <1>c DEF Ask
<1>9. CASE Settle BY <1>9, <1>c DEF Settle, HoldPending, ConcludeFinding, Conclude, Reject, Publish
<1>10. CASE Move BY <1>10, <1>c DEF Move
<1>11. CASE Kill BY <1>11, <1>c DEF Kill
<1>12. CASE Expire BY <1>12, <1>c DEF Expire, Passes
<1>13. CASE Edit \/ PolicyChange \/ NewVersion BY <1>13
    DEF PendInv, AgedAtBarriers, Edit, PolicyChange, NewVersion
<1>16. CASE UNCHANGED vars BY <1>16 DEF PendInv, AgedAtBarriers, vars
<1>17. CASE Finish
  <2>00. pass.pc = "final" BY <1>17 DEF Finish
  <2>0. barriers' = barriers BY <1>17 DEF Finish
  <2>1. CASE Demote BY <2>00, <2>0, <2>1, <1>c DEF Demote, Passes
  <2>2. ASSUME NEW sig, Hold(sig) PROVE PendInv' /\ AgedAtBarriers'
    <3>1. pass.pc = "final" BY <1>17 DEF Finish
    <3>2. CASE HoldPending BY <2>0, <3>2, <1>c DEF HoldPending, Conclude
    <3> DEFINE n == IF pend.sig = sig THEN pend.n + 1 ELSE 1
    <3>3. n \in Nat /\ n <= pend.n + 1 BY <1>00
    <3>4. CASE /\ pass.barrier /\ n < PendingMax
               /\ pend' = [sig |-> sig, n |-> n] /\ Conclude("pending")
      <4>1. pend'.n = n /\ pass'.pc = "idle" /\ why' = why BY <3>4, <1>0, PassMoves DEF Conclude
      <4>2. n <= barriers BY <1>00, <3>1, <3>3, <3>4 DEF PendInv
      <4> HIDE DEF n
      <4> QED BY <1>00, <2>0, <3>4, <4>1, <4>2 DEF PendInv, AgedAtBarriers
    <3>5. CASE /\ pass.barrier /\ ~(n < PendingMax)
               /\ pend' = [sig |-> "", n |-> 0] /\ Reject("aged")
      <4>1. pend'.n = 0 /\ pass'.barrier = pass.barrier /\ why' = "aged" BY <3>5, <1>0,
          PassMoves DEF Reject
      <4> HIDE DEF n
      <4>3. pend.n < barriers /\ ~(n < PendingMax) BY <3>1, <3>5 DEF PendInv
      <4>2. barriers = PendingMax BY <1>00, <3>3, <4>3
      <4> QED BY <1>00, <2>0, <3>1, <4>1, <4>2 DEF PendInv, AgedAtBarriers
    <3> QED BY <2>2, <3>2, <3>4, <3>5 DEF Hold
  <2>4. CASE /\ ClearPend \/ UNCHANGED pend
             /\ Reject("hard") \/ Reject("trigger") \/ Reject("quality") \/ Conclude("pending") \/ Publish
    <3>1. Same BY <2>00, <2>4 DEF Publish, Conclude, Reject
    <3>2. why' = why \/ why' # "aged" BY <2>4 DEF Publish, Conclude, Reject
    <3>3. pend' = pend \/ pend' = [sig |-> "", n |-> 0] BY <2>4 DEF ClearPend
    <3> QED BY <2>0, <3>1, <3>2, <3>3, <1>c
  <2>5. CASE ConcludePinned BY <2>0, <2>5, <1>c DEF ConcludePinned, Conclude
  <2>6. CASE To("quality") /\ UNCHANGED <<place, gap, report, receipt, pend>>
    BY <2>00, <2>0, <2>6, <1>c
  <2>7. CASE ConcludeFinding
    BY <2>00, <2>0, <2>7, <1>c DEF ConcludeFinding, Conclude, Reject, Publish
  <2>3. CASE Cut BY <2>0, <2>3, <1>c DEF Cut, HoldPending, Conclude
  <2> QED BY <1>17, <2>1, <2>2, <2>3, <2>4, <2>5, <2>6, <2>7 DEF Finish, ConcludeCrash
<1> QED BY <1>1, <1>2, <1>3, <1>4, <1>5, <1>6, <1>7, <1>8, <1>9, <1>10, <1>11, <1>12, <1>13,
    <1>16, <1>17 DEF Next, PassStep

\* Every step keeps PathInv.
LEMMA PathStep ==
    ASSUME TypeOK, PathInv, [Next]_vars
    PROVE  PathInv'
<1>0. PassOK
  BY TypeParts
<1>x. pass \in Passes
  BY <1>0 DEF PassOK
<1>c. pass'.pc \in {"idle", "begin", "move"} => PathInv'
  BY DEF PathInv
<1>d. art' = art /\ quality' = quality /\ pass'.pc = pass.pc => PathInv'
  BY DEF PathInv, Accepted, Refused
<1> USE <1>0, <1>x, PassMoves DEF place, report, bounds
<1>1. CASE StartBarrier \/ StartSweep
  BY <1>1, <1>c DEF StartBarrier, StartSweep, Idle
<1>3. CASE Classify
  <2>1. CASE pass'.pc \notin {"idle", "move"}
    BY <1>3, <2>1 DEF Classify, Reject, PathInv, Accepted, Refused
  <2> QED BY <1>c, <2>1
<1>4. CASE Admit
  <2>1. CASE HoldPending BY <2>1, <1>c DEF HoldPending, Conclude
  <2>2. CASE To("quality") /\ art' = art
    BY <1>4, <2>2 DEF Admit, PathInv
  <2> QED BY <1>4, <2>1, <2>2 DEF Admit
<1>5. CASE QualityRound
  <2>0. pass.pc = "quality" BY <1>5 DEF QualityRound
  <2>1. CASE pass'.pc \in {"idle", "move"} BY <1>c, <2>1
  <2>2. CASE Accepted /\ To("fields") /\ art' = art /\ quality' = quality
    BY <2>0, <2>2 DEF PathInv, Accepted
  <2>3. CASE pass' = pass /\ art' = art
    BY <2>0, <2>3 DEF PathInv
  <2> QED BY <1>5, <2>1, <2>2, <2>3 DEF QualityRound, Cut, HoldPending, Conclude, Reject
<1>6. CASE Export
  <2>0. pass.pc = "export" /\ art.kind # "finding" BY <1>6 DEF Export, PathInv
  <2>1. CASE Demote BY <2>0, <2>1, <1>c DEF Demote, Passes
  <2>2. CASE art' \in {art, [art EXCEPT !.exported = TRUE]}
    <3>1. art'.kind = art.kind
      <4>1. art \in Arts BY TypeParts DEF ArtOK
      <4> QED BY <2>2, <4>1 DEF Arts
    <3> QED BY <2>0, <3>1 DEF PathInv
  <2> QED BY <1>6, <2>1, <2>2 DEF Export
<1>7. CASE Fill
  BY <1>7 DEF Fill, AfterFields, PathInv, Accepted, Refused
<1>8. ASSUME NEW s \in Slots, Ask(s) PROVE PathInv'
  <2>0. pass.pc = s /\ art' = art /\ quality' = quality BY <1>8 DEF Ask
  <2>1. pass'.pc = After(s) BY <1>8 DEF Ask, Passes
  <2> QED BY <2>0, <2>1 DEF After, Slots, Reviews, PathInv, Accepted
<1>9. CASE Settle
  BY <1>9, <1>c DEF Settle, HoldPending, ConcludeFinding, Conclude, Reject, Publish
<1>10. CASE Move \/ Kill
  BY <1>10, <1>c DEF Move, Kill
<1>12. CASE Expire
  BY <1>12, <1>d DEF Expire, Passes
<1>13. CASE Edit \/ PolicyChange \/ NewVersion
  BY <1>13, <1>c DEF Edit, PolicyChange, NewVersion
<1>16. CASE UNCHANGED vars
  BY <1>16, <1>d DEF vars
<1>17. CASE Finish
  <2>00. pass.pc = "final" BY <1>17 DEF Finish
  <2>1. CASE Demote BY <2>00, <2>1, <1>c DEF Demote, Passes
  <2>2. ASSUME NEW sig, Hold(sig) PROVE PathInv'
    BY <2>2, <1>c DEF Hold, HoldPending, Conclude, Reject
  <2>3. CASE Cut BY <2>00, <2>3, <1>c DEF Cut, HoldPending, Conclude
  <2>4. CASE Reject("hard") \/ Reject("trigger") \/ Reject("quality") \/ Conclude("pending") \/ Publish
    BY <2>4, <1>c DEF Publish, Conclude, Reject
  <2>5. CASE ConcludePinned BY <2>5, <1>c DEF ConcludePinned, Conclude
  <2>6. CASE /\ ~art.pinned /\ art.kind = "finding" /\ To("quality")
             /\ UNCHANGED <<place, gap, report, receipt, pend>>
    BY <2>00, <2>6 DEF PathInv
  <2>7. CASE ConcludeFinding
    BY <2>7, <1>c DEF ConcludeFinding, Conclude, Reject, Publish
  <2> QED BY <1>17, <2>1, <2>2, <2>3, <2>4, <2>5, <2>6, <2>7 DEF Finish, ConcludeCrash
<1> QED BY <1>1, <1>3, <1>4, <1>5, <1>6, <1>7, <1>8, <1>9, <1>10, <1>12, <1>13, <1>16, <1>17
    DEF Next, PassStep

\* The decisions are functions of the artifact, its fields and its reviews.
LEMMA SameReviews ==
    ASSUME UNCHANGED <<art, fields, vote, quality>>
    PROVE  /\ Resolved' = Resolved /\ Disposition' = Disposition /\ Publication' = Publication
           /\ Accepted' = Accepted
<1>1. \A s : Cur(s)' = Cur(s)
  BY DEF Cur
<1>2. Sources(vote)' = Sources(vote)
  BY DEF Sources, Open
<1>3. Resolved' = Resolved
  BY <1>1, <1>2 DEF Resolved, Open
<1>4. \A S : RejectionKind(S)' = RejectionKind(S)
  BY <1>1 DEF RejectionKind
<1>5. \A S : Disproved(S)' = Disproved(S)
  BY <1>1, <1>4 DEF Disproved, Dispositive, DispositiveKinds
<1>6. Disposition' = Disposition
  BY <1>1, <1>2, <1>5 DEF Disposition, Open
<1>7. \A S : Fit(S)' = Fit(S)
  BY <1>1 DEF Fit
<1>8. Deciding' = Deciding
  BY <1>1 DEF Deciding
<1>9. Publication' = Publication
  BY <1>1, <1>3, <1>4, <1>7, <1>8 DEF Publication
<1> QED BY <1>3, <1>6, <1>9 DEF Accepted

\* When every review has gone stale, only a proof still settles anything.
LEMMA StaleReviews ==
    ASSUME vote' = Staled(vote), art' = art, fields' = fields, vote \in [Slots -> Files]
    PROVE  /\ Resolved' => art.proof # "no"
           /\ art.proof # "no" => Resolved /\ Disposition' = "accepted"
           /\ art.proof # "no" /\ fields # "contract-flag" => Publication' = "reportable"
<1>1. \A s \in Slots : Cur(s)' = "none"
  BY DEF Cur, Staled, None, Stale
<1>2. "first" \in Slots /\ "second" \in Slots /\ "resolution" \in Slots
  BY DEF Slots, Reviews
<1>3. Resolved' => art.proof # "no"
  BY <1>1, <1>2 DEF Resolved
<1>4. Deciding' \subseteq Slots
  BY <1>2 DEF Deciding, Slots
<1>5. {s \in Deciding' : Cur(s)' = "Reject"} = {}
  BY <1>1, <1>4
<1>6. RejectionKind(Deciding)' = ""
  <2> DEFINE rejects == {s \in Deciding : Cur(s) = "Reject"}
  <2>1. rejects' = {} BY <1>5
  <2>2. Cardinality({}) = 0 BY FS_EmptySet
  <2>3. ~(Cardinality(rejects') >= 2) BY <2>1, <2>2
  <2> QED BY <2>3 DEF RejectionKind
<1> QED BY <1>3, <1>6 DEF Resolved, Disposition, Publication

\* Every step keeps PublishedInv.
LEMMA PublishedStep ==
    ASSUME TypeOK, PathInv, PublishedInv, [Next]_vars
    PROVE  PublishedInv'
<1>0. PassOK /\ ReportOK /\ ArtOK
  BY TypeParts
<1>x. pass \in Passes /\ receipt \in Receipts
  BY <1>0 DEF PassOK
<1>k. ASSUME UNCHANGED <<art, fields, vote, quality>>, Published' => Published,
             pass'.pc \in {"idle", "begin", pass.pc} \/ pass.pc \notin {"idle", "begin", "final"}
      PROVE  PublishedInv'
  BY <1>k, SameReviews DEF PublishedInv
<1>n. ~Published' => PublishedInv'
  BY DEF PublishedInv
<1>o. Outdated => ~Published'
  BY <1>x DEF Outdated, Published, Receipts
<1>w. \A st : Write(st) => (Published' <=> st \in Final)
  BY DEF Write, Published
<1>s. "pending" \notin Final /\ "rejected" \notin Final
  BY DEF Final
<1>r. receipt' = receipt => (Published' <=> Published)
  BY DEF Published
<1> USE <1>0, PassMoves DEF place, report, bounds
<1>1. CASE StartBarrier
  <2>1. CASE ~Published' BY <2>1, <1>n
  <2>2. CASE Published'
    <3>1. UNCHANGED <<art, vote, quality, receipt, fields>> /\ pass'.pc = "begin"
      BY <1>1, <2>2, <1>o, <1>w, <1>s DEF StartBarrier, Idle
    <3> QED BY <3>1, <1>k, <1>r
  <2> QED BY <2>1, <2>2
<1>2. CASE StartSweep
  BY <1>2, <1>k, <1>r DEF StartSweep, Idle
<1>3. CASE Classify
  <2>1. CASE Reject("publication") BY <2>1, <1>n, <1>w, <1>s DEF Reject
  <2>2. CASE End /\ UNCHANGED <<place, gap, report, receipt, pend>> BY <2>2, <1>k, <1>r
  <2>3. CASE /\ ~(End /\ UNCHANGED <<place, gap, report, receipt, pend>>) /\ ~Reject("publication")
    <3>1. UNCHANGED <<art, fields, vote, quality, receipt>>
      BY <1>3, <2>3 DEF Classify
    <3>2. CASE ~Published BY <3>1, <3>2, <1>n, <1>r
    <3>3. CASE Published /\ art.kind = "crash"
      <4>1. ~Resolved BY <1>3, <2>3, <3>3 DEF Classify
      <4> QED BY <3>1, <3>3, <4>1, SameReviews DEF PublishedInv
    <3>4. CASE Published /\ art.kind = "finding" /\ art.pinned
      BY <3>1, <3>4, SameReviews DEF PublishedInv
    <3>5. CASE Published /\ art.kind = "finding" /\ ~art.pinned
      <4>1. Accepted /\ fields # "incomplete" /\ ~Refused BY <3>5 DEF PublishedInv, Refused
      <4>2. ~Resolved \/ pass'.pc = "final" BY <1>3, <2>3, <3>5, <4>1 DEF Classify
      <4> QED BY <3>1, <3>5, <4>2, SameReviews DEF PublishedInv
    <3>6. art.kind \in Kinds BY DEF ArtOK, Arts
    <3> QED BY <3>2, <3>3, <3>4, <3>5, <3>6 DEF Kinds
  <2> QED BY <2>1, <2>2, <2>3
<1>4. CASE Admit
  <2>1. CASE HoldPending BY <2>1, <1>n, <1>w, <1>s DEF HoldPending, Conclude
  <2> QED BY <1>4, <2>1, <1>k, <1>r DEF Admit
<1>c. ASSUME Cut PROVE PublishedInv'
  <2>1. CASE HoldPending BY <2>1, <1>n, <1>w, <1>s DEF HoldPending, Conclude
  <2> QED BY <1>c, <2>1, <1>k, <1>r DEF Cut
<1>5. CASE QualityRound
  <2>1. CASE Cut BY <2>1, <1>c
  <2>2. CASE HoldPending BY <2>2, <1>n, <1>w, <1>s DEF HoldPending, Conclude
  <2>3. CASE Reject("quality") BY <2>3, <1>n, <1>w, <1>s DEF Reject
  <2>4. CASE Outdated BY <2>4, <1>n, <1>o
  <2>5. CASE To("fields") /\ UNCHANGED <<place, gap, report, receipt, pend, trouble>>
    BY <1>5, <2>5, <1>k, <1>r DEF QualityRound
  <2> QED BY <1>5, <2>1, <2>2, <2>3, <2>4, <2>5 DEF QualityRound
<1>6. CASE Export
  <2>1. CASE Outdated BY <2>1, <1>n, <1>o
  <2> QED BY <1>6, <2>1, <1>k, <1>r DEF Export, Demote
<1>7. CASE Fill
  <2>1. CASE Outdated BY <2>1, <1>n, <1>o
  <2> QED BY <1>7, <2>1, <1>k, <1>r DEF Fill
<1>8. ASSUME NEW s \in Slots, Ask(s) PROVE PublishedInv'
  <2>1. CASE Outdated BY <2>1, <1>n, <1>o
  <2>2. pass.pc \notin {"idle", "begin", "final"} /\ UNCHANGED <<art, fields, quality>>
    BY <1>8 DEF Ask, Slots, Reviews
  <2>3. CASE vote' = vote /\ receipt' = receipt BY <2>2, <2>3, <1>k, <1>r
  <2>4. CASE /\ vote' = [vote EXCEPT ![s] = None]
             /\ receipt' = [receipt EXCEPT !.cur = @ /\ vote[s] = None]
    <3>1. Published' => Published /\ vote[s] = None
      BY <2>4, <1>x DEF Published, Receipts
    <3>2. CASE ~Published' BY <3>2, <1>n
    <3>3. CASE Published'
      <4>1. vote' = vote BY <2>4, <3>1, <3>3 DEF ReportOK
      <4> QED BY <2>2, <3>1, <4>1, <1>k
    <3> QED BY <3>2, <3>3
  <2> QED BY <1>8, <2>1, <2>3, <2>4 DEF Ask
<1>f. ASSUME Conclude(Publication), pass.pc \in {"final", "settle"},
             art.kind = "finding", ~art.pinned, Accepted, fields # "incomplete",
             Disposition = "accepted", Publication \notin {"not-reportable", "unsettled"}
      PROVE  PublishedInv'
  <2>1. UNCHANGED <<art, fields, vote, quality>> /\ pass'.pc = "idle" BY <1>f DEF Conclude
  <2>2. CASE Publication \notin Final BY <1>f, <2>2, <1>n, <1>w DEF Conclude
  <2>3. CASE Publication \in {"reportable"}
    <3>1. art.class # "discard" BY <1>f DEF PathInv
    <3> QED BY <1>f, <2>1, <2>3, <3>1, SameReviews DEF PublishedInv
  <2> QED BY <1>f, <2>2, <2>3 DEF Final
<1>g. ASSUME ConcludeFinding, pass.pc \in {"final", "settle"},
             art.kind = "finding", ~art.pinned, Accepted
      PROVE  PublishedInv'
  <2>1. CASE Conclude("pending") BY <2>1, <1>n, <1>w, <1>s DEF Conclude
  <2>2. CASE Reject("trigger") \/ Reject("publication") BY <2>2, <1>n, <1>w, <1>s DEF Reject
  <2>3. CASE /\ Disposition \notin {"pending", "rejected", "not-reportable"}
             /\ ~(Disposition = "accepted" /\ fields = "incomplete") /\ Publish
    <3>1. Disposition = "accepted"
      <4>1. \A S : Disproved(S) \in {"not-reportable", "rejected", "accepted"} BY DEF Disproved
      <4> QED BY <2>3, <4>1 DEF Disposition
    <3> QED BY <1>f, <1>g, <2>2, <2>3, <3>1 DEF Publish
  <2> QED BY <1>g, <2>1, <2>2, <2>3 DEF ConcludeFinding
<1>9. CASE Settle
  <2>1. CASE HoldPending BY <2>1, <1>n, <1>w, <1>s DEF HoldPending, Conclude
  <2>2. CASE ConcludeFinding
    <3>1. pass.pc = "settle" BY <1>9 DEF Settle
    <3>2. CASE art.kind = "finding"
      <4>1. ~art.pinned /\ Accepted BY <3>1, <3>2 DEF PathInv
      <4> QED BY <1>g, <2>2, <3>1, <3>2, <4>1
    <3>3. CASE art.kind = "crash"
      <4>1. UNCHANGED art /\ pass'.pc \in {"idle", "move"}
        BY <2>2 DEF ConcludeFinding, Conclude, Reject, Publish
      <4>2. CASE pass'.pc = "idle" BY <3>3, <4>1, <4>2 DEF PublishedInv
      <4>3. CASE Reject("trigger") \/ Reject("publication") BY <4>3, <1>n, <1>w, <1>s DEF Reject
      <4> QED BY <2>2, <4>1, <4>2, <4>3 DEF ConcludeFinding, Conclude, Reject, Publish
    <3> QED BY <3>2, <3>3 DEF ArtOK, Arts, Kinds
  <2> QED BY <1>9, <2>1, <2>2 DEF Settle
<1>17. CASE Finish
  <2>0. pass.pc = "final" BY <1>17 DEF Finish
  <2>1. CASE Cut BY <2>1, <1>c
  <2>2. CASE art.kind = "crash" /\ ConcludeCrash
    <3>1. CASE Demote BY <3>1, <1>n, <1>o DEF Demote
    <3>2. ASSUME NEW sig, Hold(sig) PROVE PublishedInv'
      BY <3>2, <1>n, <1>w, <1>s DEF Hold, HoldPending, Conclude, Reject
    <3>3. CASE Reject("hard") \/ Reject("trigger") \/ Conclude("pending")
      BY <3>3, <1>n, <1>w, <1>s DEF Reject, Conclude
    <3>4. CASE Publish
      <4>1. CASE Reject("publication") BY <4>1, <1>n, <1>w, <1>s DEF Reject
      <4>2. CASE Conclude(Publication)
        BY <2>2, <4>2 DEF PublishedInv, Conclude
      <4> QED BY <3>4, <4>1, <4>2 DEF Publish
    <3> QED BY <2>1, <2>2, <3>1, <3>2, <3>3, <3>4 DEF ConcludeCrash
  <2>3. CASE art.kind = "finding" /\ art.pinned /\ ConcludePinned
    <3>1. UNCHANGED <<art, fields>> BY <2>3 DEF ConcludePinned, Conclude
    <3>2. CASE fields = "incomplete"
      BY <2>3, <3>2, <1>n, <1>w, <1>s DEF ConcludePinned, Conclude
    <3> QED BY <2>3, <3>1, <3>2 DEF PublishedInv
  <2>4. CASE art.kind = "finding" /\ ~art.pinned /\ Accepted /\ ConcludeFinding
    BY <1>g, <2>0, <2>4
  <2>5. CASE Reject("quality") BY <2>5, <1>n, <1>w, <1>s DEF Reject
  <2>6. CASE /\ art.kind = "finding" /\ ~art.pinned /\ ~Accepted
             /\ UNCHANGED <<place, gap, report, receipt, pend>>
    <3>1. ~Published BY <2>6 DEF PublishedInv
    <3> QED BY <2>6, <3>1, <1>n, <1>r
  <2> QED BY <1>17, <2>1, <2>2, <2>3, <2>4, <2>5, <2>6 DEF Finish
<1>16. CASE UNCHANGED vars
  BY <1>16, <1>k, <1>r DEF vars
<1>10. CASE Move
  BY <1>10, <1>k, <1>r DEF Move
<1>11. CASE Kill
  BY <1>11, <1>k, <1>r DEF Kill
<1>12. CASE Expire
  BY <1>12, <1>x, <1>k, <1>r DEF Expire, Passes
<1>13. CASE Edit \/ PolicyChange
  BY <1>13, <1>n, <1>o DEF Edit, PolicyChange
<1>14. CASE NewVersion
  <2>1. CASE ~Published BY <1>14, <2>1, <1>n, <1>r DEF NewVersion
  <2>2. CASE Published
    <3>1. UNCHANGED <<art, fields, quality>> /\ pass'.pc = "idle" /\ vote' = Staled(vote)
      BY <1>14 DEF NewVersion
    <3>2. Accepted' = Accepted BY <3>1 DEF Accepted
    <3>3. vote \in [Slots -> Files] BY DEF ReportOK
    <3> QED BY <2>2, <3>1, <3>2, <3>3, StaleReviews DEF PublishedInv, Publication
  <2> QED BY <2>1, <2>2
<1> QED BY <1>1, <1>2, <1>3, <1>4, <1>5, <1>6, <1>7, <1>8, <1>9, <1>10, <1>11, <1>12, <1>13,
    <1>14, <1>16, <1>17 DEF Next, PassStep

-----------------------------------------------------------------------------
(* What the steps that reject, publish or repeat have seen *)

\* There are finitely many review files.
LEMMA SlotsFinite == IsFiniteSet(Slots)
<1>1. IsFiniteSet({"first"})
  BY FS_Singleton
<1>2. IsFiniteSet({"first"} \cup {"second"})
  BY <1>1, FS_AddElement
<1>3. IsFiniteSet(({"first"} \cup {"second"}) \cup {"resolution"})
  BY <1>2, FS_AddElement
<1>4. Slots = ({"first"} \cup {"second"}) \cup {"resolution"}
  BY DEF Slots, Reviews
<1> QED BY <1>3, <1>4

\* The scopes a review file may give.
Fits == {"within", "outside"} \cup {"unclear", ""}

\* There are finitely many of them.
LEMMA FitsFinite == IsFiniteSet(Fits)
<1>1. IsFiniteSet({"within"} \cup {"outside"})
  BY FS_Singleton, FS_AddElement
<1>2. IsFiniteSet(({"within"} \cup {"outside"}) \cup {"unclear"})
  BY <1>1, FS_AddElement
<1>3. IsFiniteSet((({"within"} \cup {"outside"}) \cup {"unclear"}) \cup {""})
  BY <1>2, FS_AddElement
<1>4. Fits = (({"within"} \cup {"outside"}) \cup {"unclear"}) \cup {""}
  BY DEF Fits
<1> QED BY <1>3, <1>4

\* What a review file says is one of the known verdicts and scopes.
LEMMA FilesSay ==
    ASSUME NEW r \in Files
    PROVE  r.fit \in Fits /\ r.v \in {"Promote", "Reject", "Uncertain", "none", "stale"}
<1>1. CASE r \in Review BY <1>1 DEF Review, Fits
<1>2. CASE r = None BY <1>2, Zenon DEF None, Fits
<1>3. CASE r = Stale BY <1>3, Zenon DEF Stale, Fits
<1> QED BY <1>1, <1>2, <1>3 DEF Files

\* A dispositive set of reviews has two disproofs in it.
LEMMA TwoDisproofs ==
    ASSUME NEW S \in SUBSET Slots, Dispositive(S)
    PROVE  Cardinality(Disproofs) >= 2
<1> DEFINE R == {s \in S : Cur(s) = "Reject"}
<1>1. R \subseteq Disproofs
  BY DEF Dispositive, Disproofs
<1>2. IsFiniteSet(Disproofs)
  BY SlotsFinite, FS_Subset DEF Disproofs
<1>3. Cardinality(R) <= Cardinality(Disproofs) /\ IsFiniteSet(R)
  BY <1>1, <1>2, FS_Subset
<1>4. Cardinality(R) >= 2
  BY DEF Dispositive
<1>5. Cardinality(R) \in Nat /\ Cardinality(Disproofs) \in Nat
  BY <1>2, <1>3, FS_CardinalityType
<1> QED BY <1>3, <1>4, <1>5

\* A step that rejects as unreachable or disproved has two disproofs before it.
LEMMA RejectedStep ==
    ASSUME [Next]_vars, why' = "trigger", why # "trigger"
    PROVE  Cardinality(Disproofs) >= 2
<1> USE DEF place
<1>1. CASE CrashRejected
  BY <1>1, TwoDisproofs DEF CrashRejected, Slots, Reviews
<1>2. CASE Disposition = "rejected"
  <2>1. PICK S \in SUBSET Slots : Disproved(S) = "rejected"
    BY <1>2 DEF Disposition, Slots, Reviews
  <2> QED BY <2>1, TwoDisproofs DEF Disproved
<1>3. ConcludeFinding => Disposition = "rejected"
  BY DEF ConcludeFinding, Conclude, Reject, Publish
<1>4. CASE Finish
  BY <1>1, <1>2, <1>3, <1>4
      DEF Finish, ConcludeCrash, ConcludePinned, Cut, HoldPending, Hold, Demote,
     Conclude, Reject, Publish
<1>5. CASE Settle
  BY <1>2, <1>3, <1>5 DEF Settle, HoldPending, Conclude
<1> QED BY <1>4, <1>5
    DEF Next, PassStep, vars, StartBarrier, StartSweep, Classify, Admit, QualityRound,
           Export, Fill, Ask, Move, Kill, Expire, Edit, PolicyChange, NewVersion, Cut, HoldPending,
           Conclude, Reject, Demote

\* When the deciding reviews agree on the threat model, each that keeps the
\* artifact places it there.
LEMMA FitIsOne ==
    ASSUME ReportOK, NEW S \in SUBSET Slots, Fit(S) = "within",
           \A s \in S : Cur(s) \in {"Promote", "none"}
    PROVE  \A s \in S : Cur(s) = "Promote" => vote[s].fit = "within"
<1> DEFINE of(vs) == {vote[s].fit : s \in {t \in S : Cur(t) \in vs}}
<1>1. of({"Uncertain"}) = {}
  OBVIOUS
<1>2. Cardinality(of({"Uncertain"})) # 1
  BY <1>1, FS_EmptySet
<1>3. Cardinality(of({"Promote", "Reject"})) = 1 /\ Only(of({"Promote", "Reject"})) = "within"
  BY <1>2 DEF Fit
<1>4. of({"Promote", "Reject"}) \subseteq Fits
  BY FilesSay DEF ReportOK
<1>5. IsFiniteSet(of({"Promote", "Reject"}))
  BY <1>4, FitsFinite, FS_Subset
<1>6. PICK x : of({"Promote", "Reject"}) = {x}
  BY <1>3, <1>5, FS_Singleton
<1>7. x = "within"
  BY <1>3, <1>6 DEF Only
<1> QED BY <1>6, <1>7

\* What PublishedInScope asks of a reportable artifact.
InScope ==
    /\ fields \in {"promote", "out-of-model"}
    /\ \/ art.proof # "no" \/ art.pinned
       \/ /\ {Cur(s) : s \in Deciding} \ {"none"} = {"Promote"}
          /\ \A s \in Deciding : Cur(s) = "Promote" => vote[s].fit = "within"

\* _final_publication_state says reportable only of what is in scope.
LEMMA ReportableInScope ==
    ASSUME ReportOK, Publication = "reportable", fields # "incomplete",
           art.proof # "no" \/ \E s \in Deciding : Cur(s) # "none"
    PROVE  InScope
<1>1. fields \in {"promote", "out-of-model"}
  BY DEF ReportOK, Verdicts, Publication
<1>2. CASE art.proof = "no"
  <2>1. Deciding \in SUBSET Slots
    BY DEF Deciding, Slots
  <2>2. \A s \in Slots : Cur(s) \in {"Promote", "Reject", "Uncertain", "none"}
    BY FilesSay DEF ReportOK, Cur
  <2>3. {Cur(s) : s \in Deciding} \cap {"Reject", "Uncertain"} = {} /\ Fit(Deciding) # "outside"
    BY <1>2 DEF Publication
  <2>4. \A s \in Deciding : Cur(s) \in {"Promote", "none"}
    BY <2>1, <2>2, <2>3
  <2>5. {Cur(s) : s \in Deciding} \ {"none"} = {"Promote"}
    BY <1>2, <2>4
  <2>6. Fit(Deciding) = "within"
    BY <1>2, <2>3, <2>5 DEF Publication
  <2> QED BY <1>1, <2>1, <2>4, <2>5, <2>6, FitIsOne DEF InScope
<1> QED BY <1>1, <1>2 DEF InScope

\* A step that publishes as reportable publishes what is in scope.
LEMMA PublishedInScopeStep ==
    ASSUME TypeOK, [Next]_vars,
           receipt' = [state |-> "reportable", cur |-> TRUE], receipt # receipt'
    PROVE  InScope
<1>0. ReportOK /\ ArtOK /\ PassOK
  BY TypeParts
<1>o. ~Outdated
  BY DEF Outdated
<1>w. \A st : Write(st) => st = "reportable"
  BY DEF Write
<1>a. \A s \in Slots : ~Ask(s)
  <2> SUFFICES ASSUME NEW s \in Slots, Ask(s) PROVE FALSE
    OBVIOUS
  <2>1. receipt' = [receipt EXCEPT !.cur = @ /\ vote[s] = None]
    BY <1>o DEF Ask
  <2>2. receipt'.cur = (receipt.cur /\ vote[s] = None) /\ receipt'.state = receipt.state
    BY <1>0, <2>1 DEF PassOK, Receipts
  <2>3. receipt.cur /\ receipt.state = "reportable"
    BY <2>2
  <2> QED BY <1>0, <2>3 DEF PassOK, Receipts
<1>1. CASE Finish \/ Settle
  <2>1. CASE Conclude(Publication) /\ art.kind = "crash" /\ ConcludeCrash
    <3>1. Publication = "reportable"
      BY <2>1, <1>w DEF Conclude
    <3>2. fields # "incomplete" /\ (art.proof = "clear" \/ CrashRejected \/ ~\A s \in Deciding : Cur(s) = "none")
      BY <2>1, <1>w, <1>o DEF ConcludeCrash, Cut, HoldPending, Hold, Demote, Conclude, Reject
    <3>3. ~CrashRejected
      BY <2>1, <1>w, <1>o DEF ConcludeCrash, Cut, HoldPending, Hold, Demote, Conclude, Reject
    <3> QED BY <1>0, <3>1, <3>2, <3>3, ReportableInScope
  <2>2. CASE ConcludeFinding
    <3>1. Conclude(Publication)
      BY <2>2, <1>w DEF ConcludeFinding, Conclude, Reject, Publish
    <3>2. Publication = "reportable"
      BY <3>1, <1>w DEF Conclude
    <3>3. Disposition = "accepted" /\ fields # "incomplete"
      BY <2>2, <1>w DEF ConcludeFinding, Conclude, Reject, Publish, Disposition, Disproved
    <3>4. art.proof = "no" => Cur("first") # "none"
      BY <3>3 DEF Disposition
    <3>5. art.proof = "no" => \E s \in Deciding : Cur(s) # "none"
      BY <3>4 DEF Deciding, Reviews
    <3> QED BY <1>0, <3>2, <3>3, <3>5, ReportableInScope
  <2>3. CASE ConcludePinned /\ art.pinned
    <3>1. fields = "promote"
      BY <2>3, <1>w DEF ConcludePinned, Conclude
    <3> QED BY <2>3, <3>1 DEF InScope
  <2>4. ~Cut /\ ~HoldPending /\ ~Reject("quality")
    BY <1>w DEF Cut, HoldPending, Conclude, Reject
  <2> QED BY <1>1, <2>1, <2>2, <2>3, <2>4, <1>w, <1>o
      DEF Finish, Settle, ConcludeCrash, Hold, Demote,
          Conclude, Reject, Publish
<1> QED BY <1>1, <1>a, <1>o, <1>w
    DEF Next, PassStep, vars, StartBarrier, StartSweep, Classify, Admit, QualityRound,
           Export, Fill, Move, Kill, Expire, Edit, PolicyChange, NewVersion, Cut, HoldPending,
           Conclude, Reject, Demote

\* A step of a pass that changes nothing keeps a published verdict.
LEMMA RepeatStep ==
    ASSUME TypeOK, PathInv, PublishedInv, Published, Resolved, ~pass.expired, PassStep,
           UNCHANGED <<art, report, trouble>>
    PROVE  Published'
<1>0. ReportOK /\ ArtOK /\ BoundOK
  BY TypeParts
<1>k. art.kind \in Kinds
  BY <1>0 DEF ArtOK, Arts
<1>r. receipt' = receipt => Published'
  BY DEF Published
<1>t. ~Trouble
  BY <1>0 DEF Trouble, BoundOK
<1>f. fills' = fills /\ fills + 1 # fills
  BY <1>0 DEF ReportOK, report
<1>1. \/ pass.pc \in {"idle", "begin"}
      \/ art.kind = "finding" /\ ~art.pinned /\ pass.pc = "final"
      \/ art.kind = "finding" /\ art.pinned /\ pass.pc \in {"fields", "final", "move"}
  BY <1>k DEF PublishedInv, PathInv, Kinds
<1>2. CASE Classify
  <2>1. art.kind = "crash" \/ art.pinned \/ art.class # "discard"
    BY <1>k DEF PublishedInv, Kinds
  <2> QED BY <1>2, <1>r, <2>1 DEF Classify
<1>3. CASE Fill
  BY <1>3, <1>r, <1>t, <1>f DEF Fill
<1>4. CASE Finish /\ art.pinned
  <2>1. fields # "incomplete" /\ art.kind = "finding" /\ ConcludePinned
    BY <1>1, <1>4 DEF Finish, PublishedInv
  <2> QED BY <2>1, <1>t DEF ConcludePinned, Conclude, Write, Published, Final
<1>5. CASE Finish /\ ~art.pinned
  <2>1. art.kind = "finding" /\ Accepted /\ ConcludeFinding
    BY <1>1, <1>5 DEF Finish, PublishedInv
  <2>2. Disposition = "accepted" /\ fields # "incomplete" /\ Publication = "reportable"
    BY <1>5, <2>1 DEF PublishedInv
  <2> QED BY <2>1, <2>2 DEF ConcludeFinding, Publish, Conclude, Write, Published, Final
<1>6. CASE Move
  BY <1>6, <1>r DEF Move
<1> QED BY <1>1, <1>2, <1>3, <1>4, <1>5, <1>6
    DEF PassStep, Admit, QualityRound, Export, Ask, Settle, Slots, Reviews

-----------------------------------------------------------------------------
(* The theorems *)

\* The inductive invariant.
IInv == TypeOK /\ PendInv /\ AgedAtBarriers /\ PathInv /\ PublishedInv

\* It holds of what is newly filed.
LEMMA InvInit == Init => IInv
<1> SUFFICES ASSUME Init PROVE IInv
  OBVIOUS
<1>1. TypeOK
  <2>1. PICK f \in Filed : art = [kind |-> f.kind, class |-> f.class, proof |-> f.proof,
                                  pinned |-> f.pinned, demoted |-> FALSE, exported |-> FALSE]
    BY DEF Init
  <2>2. f \in [kind : Kinds, class : {"memory", "discard", "demote", "none"},
               proof : {"no", "clear", "ambiguous"}, pinned : BOOLEAN]
    BY TriageAssumption DEF TriageAssumption
  <2>3. ArtOK
    BY <2>1, <2>2 DEF Init, ArtOK, Arts, Whys
  <2>4. ReportOK
    <3>1. 0 \in 0..(FillMax + 1)
      BY Numbers
    <3>2. vote \in [Slots -> Files]
      BY DEF Init, Files
    <3> QED BY <3>1, <3>2, QualityTyped, Zenon DEF Init, ReportOK
  <2>5. PassOK
    <3>1. pass \in Passes BY DEF Init, Idle, Passes, Steps
    <3>2. pend \in Pends BY PendTyped DEF Init
    <3>3. receipt \in Receipts BY DEF Init, Receipts
    <3> QED BY <3>1, <3>2, <3>3 DEF PassOK
  <2>6. BoundOK
    <3>1. 0 \in 0..MaxTrouble /\ 0 \in 0..MaxChanges /\ 0 \in 0..PendingMax
      BY Numbers
    <3> QED BY <3>1, Zenon DEF Init, BoundOK
  <2> QED BY <2>3, <2>4, <2>5, <2>6, TypeParts
<1>2. pend.n = 0 /\ barriers = 0 /\ pass.pc = "idle" /\ why = "" /\ ~receipt.cur
  BY DEF Init, Idle
<1>3. PendInv /\ AgedAtBarriers
  <2>1. 0 < PendingMax /\ 0 <= 0
    BY Numbers
  <2> QED BY <1>2, <2>1, Zenon DEF PendInv, AgedAtBarriers
<1>4. PathInv /\ PublishedInv
  BY <1>2 DEF PathInv, PublishedInv, Published
<1> QED BY <1>1, <1>3, <1>4 DEF IInv

\* Every step keeps it.
LEMMA InvStep == IInv /\ [Next]_vars => IInv'
BY TypeStep, PendStep, PathStep, PublishedStep DEF IInv

\* Every behaviour keeps it.
LEMMA Invariance == Spec => []IInv
BY InvInit, InvStep, PTL DEF Spec

\* Every variable keeps its type, and at most one of the quality gate's two
\* verdicts is reached, for every quorum.
THEOREM TriageTypeCorrect == Spec => []TypeOK
<1>1. IInv => TypeOK
  BY DEF IInv
<1> QED BY <1>1, Invariance, PTL

\* triage.py 1811-1872, 2086-2187, 2625-2676, 3020-3026: whatever the quorums,
\* the reviews and the failures, no single review loses an artifact, what is
\* published as reportable is in scope, a pass that changes nothing comes to the
\* published verdict again, and only barriers age a bundle.
THEOREM VerdictsAreKept == Spec => VerdictsKept
<1>1. IInv => AgedAtBarriers
  BY DEF IInv
<1>2. IInv /\ [Next]_vars => [why' = "trigger" /\ why # "trigger" => Cardinality(Disproofs) >= 2]_vars
  BY RejectedStep
<1>3. IInv /\ [Next]_vars =>
        [receipt' = [state |-> "reportable", cur |-> TRUE] /\ receipt # receipt' =>
          /\ fields \in {"promote", "out-of-model"}
          /\ \/ art.proof # "no" \/ art.pinned
             \/ /\ {Cur(s) : s \in Deciding} \ {"none"} = {"Promote"}
                /\ \A s \in Deciding : Cur(s) = "Promote" => vote[s].fit = "within"]_vars
  BY PublishedInScopeStep DEF IInv, InScope
<1>4. IInv /\ [Next]_vars =>
        [Published /\ Resolved /\ ~pass.expired /\ PassStep /\ UNCHANGED <<art, report, trouble>>
           => Published']_vars
  BY RepeatStep DEF IInv
<1> QED BY <1>1, <1>2, <1>3, <1>4, Invariance, PTL
        DEF Spec, VerdictsKept, RejectedByTwo, PublishedInScope, VerdictRepeats

-----------------------------------------------------------------------------
(* Setups of targets *)

Early == {"source", "subs", "overlay", "config", "threat", "peers", "tools", "stamp", "language"}
Making == {"recipe", "build", "repair"}
Closing == {"stage", "includes", "runner", "reach", "inputs", "route"}

\* A linked checkout is of one revision, and only a checkout has edits.
CheckoutInv ==
    /\ kind # "browser" => co.is \in {"none", "git", "plain"}
    /\ co.is = "plain" => co.subs = co.rev
    /\ co.edits => co.is \in {"git", "plain"}

\* What a setup has settled by the stage it is at.
StageInv ==
    job # NoSetup =>
        /\ job.at \in Early => job.todo = Enabled /\ job.made = {} /\ ~job.forced
        /\ job.at \in Making => job.todo # <<>>
        /\ job.at = "fields" /\ With("build") => job.todo = <<>>
        /\ job.at \in {"build", "repair"} => With("build")
        /\ job.at \in {"threat", "peers"} => job.full /\ ~With("no-llm-config")
        /\ job.at = "runner" /\ toml.runner \in {"own", "model"} => With("force") /\ ~With("build")
        /\ job.at = "stamp" => tools.whole

\* Past its preparation the checkout is whole, the two known exceptions apart.
WholeInv ==
    job # NoSetup =>
        /\ job.odd <= odd
        /\ kind = "browser" /\ ~job.mixed => co.subs = co.rev
        /\ job.at \notin {"source", "subs"} /\ With("build") /\ ~job.forced /\ ~(kind = "browser" /\ job.mixed) =>
              co.subs = co.rev

\* What was built is there, and the file names it once the fields are refreshed.
MadeInv ==
    job # NoSetup =>
        /\ job.at \in {"build", "repair"} => Builds
        /\ job.at = "build" => Applies(job.rec)
        /\ job.made # {} /\ job.at \in Making => Builds
        /\ \A s \in job.made : tree[s] # NoTree
        /\ job.at \in Closing /\ kind # "package" => job.made \subseteq toml.bins

\* A sanitizer is still to be done, was left to another run, failed, or has a tree.
Accounted(s) ==
    \/ s \in Range(job.todo) \/ s \in job.shared \/ s \in job.errors
    \/ tree[s].src = {Source} /\ (tree[s].runs \/ s \in job.kept)
DoneInv ==
    job # NoSetup /\ With("build") /\ job.odd = odd /\ job.at \notin Early =>
        /\ kind = "language" => lib = {Source}
        /\ Builds => \A s \in Range(Enabled) : Accounted(s)
        /\ Builds /\ job.at \in Closing => job.todo = <<>> /\ job.errors = {}

SetupInv == SetupTypeOK /\ CheckoutInv /\ StageInv /\ WholeInv /\ MadeInv /\ DoneInv /\ ToolsAreWhole

-----------------------------------------------------------------------------
(* Moves *)

LEMMA SeqFacts ==
    ASSUME NEW S, NEW q \in Seq(S), q # <<>>
    PROVE  /\ Head(q) \in S /\ Tail(q) \in Seq(S) /\ Len(q) \in Nat \ {0}
           /\ (Len(q) = 1 <=> Tail(q) = <<>>)
           /\ Range(q) = {Head(q)} \cup Range(Tail(q))
<1>1. /\ Head(q) \in S /\ Tail(q) \in Seq(S) /\ Len(q) \in Nat \ {0} /\ (Len(q) = 1 <=> Tail(q) = <<>>)
  <2>1. Len(q) \in Nat /\ Len(q) # 0
    OBVIOUS
  <2>2. Head(q) \in S /\ Tail(q) \in Seq(S) /\ Len(Tail(q)) = Len(q) - 1
    OBVIOUS
  <2>3. Tail(q) = <<>> <=> Len(Tail(q)) = 0
    <3>1. ASSUME NEW t \in Seq(S) PROVE t = <<>> <=> Len(t) = 0
      OBVIOUS
    <3> QED BY <3>1, <2>2
  <2> QED BY <2>1, <2>2, <2>3
<1>2. Len(Tail(q)) = Len(q) - 1 /\ \A i \in 1..Len(Tail(q)) : Tail(q)[i] = q[i + 1]
  OBVIOUS
<1>3. \A i \in 2..Len(q) : i - 1 \in 1..Len(Tail(q)) /\ Tail(q)[i - 1] = q[i]
  BY <1>1, <1>2
<1>4. DOMAIN q = 1..Len(q) /\ DOMAIN Tail(q) = 1..Len(Tail(q)) /\ Head(q) = q[1]
  BY <1>1
<1>5. ASSUME NEW x PROVE x \in Range(q) <=> x = Head(q) \/ x \in Range(Tail(q))
  <2>1. ASSUME x \in Range(q) PROVE x = Head(q) \/ x \in Range(Tail(q))
    <3>1. PICK i \in 1..Len(q) : x = q[i]
      BY <2>1, <1>4 DEF Range
    <3>2. CASE i = 1 BY <3>1, <3>2, <1>4
    <3>3. CASE i # 1
      <4>1. i \in 2..Len(q) BY <3>1, <3>3, <1>1
      <4> QED BY <4>1, <3>1, <1>3, <1>4 DEF Range
    <3> QED BY <3>2, <3>3
  <2>2. ASSUME x \in Range(Tail(q)) PROVE x \in Range(q)
    <3>1. PICK i \in 1..Len(Tail(q)) : x = Tail(q)[i]
      BY <2>2, <1>4 DEF Range
    <3>2. i + 1 \in 1..Len(q) /\ x = q[i + 1]
      BY <3>1, <1>1, <1>2
    <3> QED BY <3>2, <1>4 DEF Range
  <2>3. Head(q) \in Range(q)
    BY <1>1, <1>4 DEF Range
  <2> QED BY <2>1, <2>2, <2>3
<1> QED BY <1>1, <1>5

LEMMA KindFacts ==
    ASSUME SetupConstants, kind \in TargetKinds
    PROVE  Enabled \in Seq(All) /\ Enabled # <<>> /\ Enabled[1] \in All /\ Range(Enabled) \subseteq All
<1>1. Enabled \in Seq(All) /\ Enabled # <<>>
  BY DEF SetupConstants, Enabled
<1>2. 1 \in DOMAIN Enabled /\ \A i \in DOMAIN Enabled : Enabled[i] \in All
  BY <1>1
<1> QED BY <1>1, <1>2 DEF Range

LEMMA SystemFacts ==
    ASSUME SetupConstants, NEW r \in DOMAIN Systems
    PROVE  Systems[r] \in Nat /\ r \in Nat
BY DEF SetupConstants

\* A setup at work is in Jobs, and one in Jobs is at work.
LEMMA AtWork ==
    /\ \A j \in Jobs : j # NoSetup
    /\ SetupTypeOK /\ job # NoSetup => job \in Jobs
<1>1. ASSUME NEW j \in Jobs PROVE j # NoSetup
  BY DEF Jobs, NoSetup, Stages
<1> QED BY <1>1 DEF SetupTypeOK

Rest(j, k) ==
    /\ k.opt = j.opt /\ k.full = j.full /\ k.todo = j.todo /\ k.rec = j.rec /\ k.errors = j.errors
    /\ k.made = j.made /\ k.shared = j.shared /\ k.kept = j.kept /\ k.forced = j.forced
    /\ k.mixed = j.mixed /\ k.odd = j.odd

LEMMA Moves ==
    ASSUME job \in Jobs, NEW p \in Stages, Go(p)
    PROVE  job' \in Jobs /\ job'.at = p /\ Rest(job, job')
BY DEF Jobs, Go, Rest

LEMMA TreesAreTrees == \A x \in Trees : x # NoTree
<1>1. ASSUME NEW x \in Trees PROVE x # NoTree
  <2>1. DOMAIN x = {"src", "rec", "runs"} BY DEF Trees
  <2>2. DOMAIN NoTree = {"src"} BY DEF NoTree
  <2> QED BY <2>1, <2>2
<1> QED BY <1>1

\* The next sanitizer, with one set of the present one's fate grown.
LEMMA NextOne ==
    ASSUME NEW j \in Jobs, j.todo # <<>>, NEW k, k = Next1(j)
    PROVE  /\ k \in Jobs /\ k.at \in {"fields", "recipe"}
           /\ k.at = "fields" => k.todo = <<>>
           /\ k.at = "recipe" => k.todo # <<>>
           /\ Range(j.todo) = {Head(j.todo)} \cup Range(k.todo)
           /\ k.opt = j.opt /\ k.full = j.full /\ k.rec = j.rec /\ k.errors = j.errors
           /\ k.made = j.made /\ k.shared = j.shared /\ k.kept = j.kept /\ k.forced = j.forced
           /\ k.mixed = j.mixed /\ k.odd = j.odd
<1>1. j.todo \in Seq(All) BY DEF Jobs
<1>2. /\ Tail(j.todo) \in Seq(All) /\ (Len(j.todo) = 1 <=> Tail(j.todo) = <<>>)
      /\ Range(j.todo) = {Head(j.todo)} \cup Range(Tail(j.todo))
  BY <1>1, SeqFacts
<1>3. k = [j EXCEPT !.todo = Tail(j.todo), !.at = IF Len(j.todo) = 1 THEN "fields" ELSE "recipe", !.asked = 0]
  BY DEF Next1
<1>4. k.todo = Tail(j.todo) /\ k.at = IF Len(j.todo) = 1 THEN "fields" ELSE "recipe"
  BY <1>3 DEF Jobs
<1>5. k \in Jobs
  <2>1. k.at \in Stages
    BY <1>4 DEF Stages
  <2>2. \A q \in Seq(All), a \in Stages :
            [at |-> a, opt |-> j.opt, full |-> j.full, asked |-> 0, todo |-> q, rec |-> j.rec,
             errors |-> j.errors, made |-> j.made, shared |-> j.shared, kept |-> j.kept,
             forced |-> j.forced, mixed |-> j.mixed, odd |-> j.odd] \in Jobs
    BY DEF Jobs
  <2>3. k = [at |-> k.at, opt |-> j.opt, full |-> j.full, asked |-> 0, todo |-> Tail(j.todo), rec |-> j.rec,
             errors |-> j.errors, made |-> j.made, shared |-> j.shared, kept |-> j.kept,
             forced |-> j.forced, mixed |-> j.mixed, odd |-> j.odd]
    BY <1>3 DEF Jobs
  <2>4. Tail(j.todo) \in Seq(All)
    BY <1>2
  <2> QED BY <2>1, <2>2, <2>3, <2>4
<1>6. /\ k.opt = j.opt /\ k.full = j.full /\ k.rec = j.rec /\ k.errors = j.errors
      /\ k.made = j.made /\ k.shared = j.shared /\ k.kept = j.kept /\ k.forced = j.forced
      /\ k.mixed = j.mixed /\ k.odd = j.odd
  BY <1>3 DEF Jobs
<1> QED BY <1>2, <1>4, <1>5, <1>6

-----------------------------------------------------------------------------
(* Types *)

CoOK ==
    /\ co \in [is : {"none", "git", "plain", "half", "junk"}, rev : Nat, subs : Nat, edits : BOOLEAN]
    /\ co.is \in {"git", "plain"} => co.rev \in DOMAIN Systems
    /\ job # NoSetup /\ job.at # "source" => co.is \in {"git", "plain"}
WorldOK == kind \in TargetKinds /\ able \subseteq All /\ head \in DOMAIN Systems /\ odd \in Nat
BuiltOK ==
    /\ recipe \in [All -> Recipes] /\ tree \in [All -> Trees \cup {NoTree}]
    /\ lib \in SUBSET SourceStates
    /\ tools \in [whole : BOOLEAN, of : Nat] /\ staged \in BOOLEAN
    /\ busy \subseteq All \cup {"runner"}
JobOK == job \in Jobs \cup {NoSetup} /\ status \in {"none", "ok", "failed", "killed"}

LEMMA SetupTypeParts ==
    /\ SetupTypeOK <=> WorldOK /\ CoOK /\ BuiltOK /\ toml \in TomlFiles /\ JobOK
    /\ SetupTypeOK' <=> WorldOK' /\ CoOK' /\ BuiltOK' /\ toml' \in TomlFiles /\ JobOK'
<1>1. SetupTypeOK <=> WorldOK /\ CoOK /\ BuiltOK /\ toml \in TomlFiles /\ JobOK
  BY Zenon DEF SetupTypeOK, WorldOK, CoOK, BuiltOK, JobOK
<1>2. SetupTypeOK' <=> WorldOK' /\ CoOK' /\ BuiltOK' /\ toml' \in TomlFiles /\ JobOK'
  BY Zenon DEF SetupTypeOK, WorldOK, CoOK, BuiltOK, JobOK
<1> QED BY <1>1, <1>2

\* Where a step goes, what a setup may still be at and how it ended are of their sets.
LEMMA EndsTyped ==
    ASSUME NEW s \in {"ok", "failed"}, Ends(s)
    PROVE  JobOK' /\ job' = NoSetup
BY DEF Ends, JobOK

LEMMA GoTyped ==
    ASSUME JobOK, job \in Jobs, NEW p \in Stages, Go(p)
    PROVE  JobOK' /\ job'.at = p
BY Moves DEF Go, JobOK

\* A stage of the checkout.
SourceOf(c) ==
    /\ c \in [is : {"none", "git", "plain", "half", "junk"}, rev : Nat, subs : Nat, edits : BOOLEAN]
    /\ c.is \in {"git", "plain"} => c.rev \in DOMAIN Systems

LEMMA SourceTyped ==
    ASSUME SetupConstants, SetupTypeOK
    PROVE  /\ head \in Nat /\ SourceOf(co) /\ (co.is = "git" => SourceOf([co EXCEPT !.rev = head]))
           /\ SourceOf([co EXCEPT !.is = "plain", !.rev = head, !.subs = head])
           /\ SourceOf([co EXCEPT !.is = "git", !.rev = head])
           /\ SourceOf(Gclient(co)) /\ Gclient(co).is = "git"
           /\ SourceOf([co EXCEPT !.is = "half"]) /\ SourceOf([co EXCEPT !.is = "junk"])
           /\ SourceOf([co EXCEPT !.subs = co.rev]) /\ SourceOf([co EXCEPT !.edits = TRUE])
<1>1. head \in Nat /\ head \in DOMAIN Systems
  BY SystemFacts DEF SetupTypeOK
<1>2. SourceOf(co)
  BY Zenon DEF SetupTypeOK, SourceOf
<1> QED BY <1>1, <1>2 DEF SourceOf, Gclient

\* What the steps that prepare the source make of the checkout.
LEMMA SourceMoves ==
    ASSUME SetupConstants, SetupInv, PrepareSource \/ PrepareGclient \/ SyncSubmodules
    PROVE  /\ SourceOf(co') /\ CheckoutInv'
           /\ \/ Fail
              \/ /\ Go("subs") /\ co'.is \in {"git", "plain"}
                 /\ kind = "browser" /\ ~job.mixed => co'.subs = co'.rev
              \/ /\ Go("overlay") /\ co'.is \in {"git", "plain"} /\ job.at = "subs"
                 /\ kind = "browser" /\ ~job.mixed => co'.subs = co'.rev
                 /\ With("build") /\ ~(kind = "browser" /\ job.mixed) => co'.subs = co'.rev
           /\ kind' = kind
<1>0. SetupTypeOK /\ CheckoutInv /\ SourceOf(co) /\ job # NoSetup
  BY SourceTyped DEF SetupInv, PrepareSource, PrepareGclient, SyncSubmodules, At
<1>1. CASE PrepareSource
  <2>1. kind # "browser" /\ kind' = kind
    BY <1>1 DEF PrepareSource, SameButSource
  <2>2. CASE co.is = "git" /\ Updates /\ Sync
    BY <2>1, <2>2, <1>0, SourceTyped DEF Sync, CheckoutInv, SourceOf
  <2>3. CASE co.is # "none" /\ UNCHANGED co /\ Go("subs")
    BY <2>1, <2>3, <1>0 DEF CheckoutInv, SourceOf
  <2>4. CASE co.is = "none" /\ Obtain
    <3>1. CASE co' = [co EXCEPT !.is = "plain", !.rev = head, !.subs = head] /\ Go("subs")
      <4>1. co'.is = "plain" /\ co'.subs = co'.rev
        BY <3>1, <1>0 DEF SourceOf
      <4> QED BY <2>1, <3>1, <4>1, <1>0, SourceTyped DEF CheckoutInv
    <3>2. CASE co' = [co EXCEPT !.is = "git", !.rev = head] /\ Go("subs")
      <4>1. co'.is = "git"
        BY <3>2, <1>0 DEF SourceOf
      <4> QED BY <2>1, <3>2, <4>1, <1>0, SourceTyped DEF CheckoutInv
    <3>3. CASE UNCHANGED co /\ Fail
      BY <2>1, <3>3, <1>0 DEF CheckoutInv
    <3> QED BY <2>4, <3>1, <3>2, <3>3 DEF Obtain
  <2>5. CASE UNCHANGED co /\ Fail
    BY <2>1, <2>5, <1>0 DEF CheckoutInv
  <2> QED BY <2>2, <2>3, <2>4, <2>5, <1>1 DEF PrepareSource
<1>2. CASE PrepareGclient
  <2>1. kind = "browser" /\ kind' = kind
    BY <1>2 DEF PrepareGclient, SameButSource
  <2>2. CASE UNCHANGED co /\ Fail
    BY <2>1, <2>2, <1>0 DEF CheckoutInv
  <2>3. CASE co.is = "git" /\ UNCHANGED co /\ Go("subs")
    <3>1. ~job.mixed => co.subs = co.rev
      BY <2>1, <1>0 DEF SetupInv, WholeInv
    <3> QED BY <3>1, <2>1, <2>3, <1>0 DEF CheckoutInv
  <2>4. CASE co.is \in {"git", "none", "half"} /\ co' = Gclient(co) /\ Go("subs")
    <3>1. co'.subs = co'.rev /\ co'.is = "git"
      BY <2>4, <1>0 DEF Gclient, SourceOf
    <3> QED BY <2>4, <3>1, <2>1, <1>0, SourceTyped DEF CheckoutInv
  <2>5. CASE co.is = "git" /\ co' \in {co, [co EXCEPT !.rev = head]} /\ Fail
    BY <2>1, <2>5, <1>0, SourceTyped DEF CheckoutInv, SourceOf
  <2>6. CASE /\ co.is \in {"none", "half"} /\ Fail
             /\ co' \in {co, [co EXCEPT !.is = "git", !.rev = head], [co EXCEPT !.is = "half"], [co EXCEPT !.is = "junk"]}
    BY <2>1, <2>6, <1>0, SourceTyped DEF CheckoutInv, SourceOf
  <2> QED BY <2>2, <2>3, <2>4, <2>5, <2>6, <1>2 DEF PrepareGclient
<1>3. CASE SyncSubmodules
  <2>1. kind' = kind /\ job.at = "subs"
    BY <1>3 DEF SyncSubmodules, SameButSource, At
  <2>2. co.is \in {"git", "plain"}
    BY <2>1, <1>0 DEF SetupTypeOK
  <2>3. kind = "browser" /\ ~job.mixed => co.subs = co.rev
    BY <1>0 DEF SetupInv, WholeInv
  <2>4. CASE co' = [co EXCEPT !.subs = co.rev] /\ Go("overlay")
    BY <2>1, <2>2, <2>4, <1>0, SourceTyped DEF CheckoutInv, SourceOf
  <2>5. CASE co' \in {co, [co EXCEPT !.subs = co.rev]} /\ Fail
    BY <2>1, <2>2, <2>5, <1>0, SourceTyped DEF CheckoutInv, SourceOf
  <2>6. CASE ~(With("build") /\ kind # "browser" /\ co.is = "git") /\ UNCHANGED co /\ Go("overlay")
    BY <2>1, <2>2, <2>3, <2>6, <1>0 DEF CheckoutInv
  <2> QED BY <2>4, <2>5, <2>6, <1>3 DEF SyncSubmodules
<1> QED BY <1>1, <1>2, <1>3

\* Nothing is owed by a setup that ended.
LEMMA Ended == job' = NoSetup => StageInv' /\ WholeInv' /\ MadeInv' /\ DoneInv'
BY Zenon DEF StageInv, WholeInv, MadeInv, DoneInv

LEMMA EarlyOn ==
    ASSUME StageInv, job \in Jobs, job.at \in Early, kind' = kind, job' \in Jobs, Rest(job, job'),
           job'.at \in Early,
           job'.at \in {"threat", "peers"} => job.full /\ ~With("no-llm-config"),
           job'.at = "stamp" => tools'.whole
    PROVE  StageInv' /\ MadeInv' /\ DoneInv'
<1>1. job # NoSetup /\ job.todo = Enabled /\ job.made = {} /\ ~job.forced
  BY AtWork DEF StageInv
<1>2. job'.todo = Enabled' /\ job'.made = {} /\ ~job'.forced
  BY <1>1 DEF Rest, Enabled
<1>3. StageInv'
  BY <1>2 DEF StageInv, Early, Making, Rest, With
<1>4. MadeInv'
  BY <1>2 DEF MadeInv, Early, Making, Closing
<1>5. DoneInv'
  BY DEF DoneInv
<1> QED BY <1>3, <1>4, <1>5

LEMMA SourceStep ==
    ASSUME SetupConstants, SetupInv, PrepareSource \/ PrepareGclient \/ SyncSubmodules
    PROVE  SetupInv'
<1>0. SetupTypeOK /\ job \in Jobs /\ WorldOK /\ BuiltOK /\ toml \in TomlFiles /\ JobOK /\ job.at \in Early
  BY SetupTypeParts, AtWork DEF SetupInv, PrepareSource, PrepareGclient, SyncSubmodules, At, Early
<1>1. SameButSource
  BY DEF PrepareSource, PrepareGclient, SyncSubmodules
<1>2. WorldOK' /\ BuiltOK' /\ toml' \in TomlFiles /\ ToolsAreWhole' /\ kind' = kind /\ odd' = odd
  BY <1>0, <1>1, Zenon DEF SameButSource, WorldOK, BuiltOK, ToolsAreWhole, SetupInv
<1>3. SourceOf(co') /\ CheckoutInv'
  BY SourceMoves
<1>4. CASE Fail
  <2>1. JobOK' /\ job' = NoSetup
    BY <1>4, EndsTyped DEF Fail
  <2>2. CoOK'
    BY <2>1, <1>3 DEF CoOK, SourceOf
  <2> QED BY <2>1, <2>2, <1>2, <1>3, Ended, SetupTypeParts DEF SetupInv
<1>5. CASE Go("subs") \/ Go("overlay")
  <2>1. PICK p \in {"subs", "overlay"} : Go(p)
    BY <1>5
  <2>2. p \in Stages /\ p \in Early \ {"threat", "peers", "stamp"}
    BY DEF Stages, Early
  <2>3. JobOK' /\ job' \in Jobs /\ job'.at = p /\ Rest(job, job')
    BY <1>0, <2>1, <2>2, Moves, GoTyped
  <2>4. StageInv' /\ MadeInv' /\ DoneInv'
    BY <1>0, <1>2, <2>2, <2>3, EarlyOn DEF SetupInv
  <2>5. co'.is \in {"git", "plain"}
        /\ (kind = "browser" /\ ~job.mixed => co'.subs = co'.rev)
        /\ (p = "overlay" /\ With("build") /\ ~(kind = "browser" /\ job.mixed) => co'.subs = co'.rev)
    <3>1. ~Fail
      BY <1>0, <2>3, AtWork DEF Fail, Ends
    <3>2. CASE Go("subs")
      <4>1. p = "subs"
        BY <3>2, <2>3, <1>0, Moves DEF Stages
      <4>2. ~Go("overlay")
        BY <3>2, <1>0, Moves DEF Stages
      <4> QED BY <3>1, <4>1, <4>2, SourceMoves
    <3>3. CASE ~Go("subs")
      BY <3>1, <3>3, SourceMoves
    <3> QED BY <3>2, <3>3
  <2>6. CoOK'
    BY <2>3, <2>5, <1>3 DEF CoOK, SourceOf
  <2>7. WholeInv'
    BY <2>3, <2>5, <1>0, <1>2, AtWork DEF WholeInv, Rest, With, SetupInv
  <2> QED BY <2>3, <2>4, <2>6, <2>7, <1>2, <1>3, SetupTypeParts DEF SetupInv
<1> QED BY <1>4, <1>5, SourceMoves

\* A step after the preparation leaves the checkout alone.
LEMMA SourceKept ==
    ASSUME SetupTypeOK, CheckoutInv, job # NoSetup, job.at # "source", UNCHANGED <<co, kind>>
    PROVE  CoOK' /\ CheckoutInv'
<1>1. CoOK /\ co.is \in {"git", "plain"}
  BY SetupTypeParts DEF CoOK
<1>2. CoOK'
  BY <1>1, Zenon DEF CoOK
<1> QED BY <1>2 DEF CheckoutInv

LEMMA WholeKept ==
    ASSUME WholeInv, job # NoSetup, job.at \notin {"source", "subs"}, UNCHANGED <<co, kind, odd>>,
           job'.opt = job.opt, job'.forced = job.forced, job'.mixed = job.mixed, job'.odd = job.odd
    PROVE  WholeInv'
BY DEF WholeInv, With

\* What the configuration steps share: they come before the builds.
LEMMA ConfigFacts ==
    ASSUME SetupInv, job # NoSetup, job.at \in Early \ {"source", "subs"}
    PROVE  /\ SetupTypeOK /\ job \in Jobs /\ WorldOK /\ CoOK /\ BuiltOK /\ toml \in TomlFiles /\ JobOK
           /\ CheckoutInv /\ StageInv /\ WholeInv /\ ToolsAreWhole /\ co.rev \in DOMAIN Systems
           /\ job.todo = Enabled /\ job.made = {} /\ ~job.forced
<1>1. SetupTypeOK /\ CheckoutInv /\ StageInv /\ WholeInv /\ ToolsAreWhole
  BY DEF SetupInv
<1>2. job \in Jobs /\ WorldOK /\ CoOK /\ BuiltOK /\ toml \in TomlFiles /\ JobOK
  BY <1>1, AtWork, SetupTypeParts
<1>3. co.rev \in DOMAIN Systems
  BY <1>2 DEF CoOK
<1>4. job.todo = Enabled /\ job.made = {} /\ ~job.forced
  BY <1>1 DEF StageInv
<1> QED BY <1>1, <1>2, <1>3, <1>4

LEMMA SeededTyped ==
    ASSUME SetupConstants, toml \in TomlFiles, co.rev \in DOMAIN Systems
    PROVE  /\ Seeded \in TomlFiles /\ Seeded.threat = toml.threat /\ Seeded.peers = toml.peers
           /\ (toml.runner # "none" => Seeded.runner = toml.runner)
<1>1. Detected \in Nat
  BY SystemFacts DEF Detected
<1>2. Artifacts \subseteq All
  BY DEF Artifacts
<1>3. Carried = [threat |-> toml.threat, peers |-> toml.peers, runner |-> toml.runner, bins |-> toml.bins]
  BY DEF Carried
<1>4. SeededRunner(Carried) \in {toml.runner, "driver"} /\ (toml.runner # "none" => SeededRunner(Carried) = toml.runner)
  BY <1>3 DEF SeededRunner
<1>5. toml.threat \in {"default", "model", "own"} /\ toml.peers \in {"none", "model", "own"}
      /\ toml.runner \in {"none", "driver", "staged", "model", "own"} /\ toml.bins \subseteq All
  BY DEF TomlFiles
<1> DEFINE b == Carried.bins \cup (IF kind = "language" THEN {} ELSE Artifacts)
<1>6. b \in SUBSET All
  BY <1>2, <1>3, <1>5
<1>7. Seeded = [text |-> "ok", sys |-> Detected, threat |-> toml.threat, peers |-> toml.peers,
                runner |-> SeededRunner(Carried), bins |-> b, inputs |-> {}]
  BY <1>3 DEF Seeded
<1> HIDE DEF b
<1>8. SeededRunner(Carried) \in {"none", "driver", "staged", "model", "own"}
  BY <1>4, <1>5
<1>9. Seeded \in TomlFiles
  BY <1>1, <1>5, <1>6, <1>7, <1>8 DEF TomlFiles
<1> QED BY <1>4, <1>7, <1>9

LEMMA ConfigStep ==
    ASSUME SetupConstants, SetupInv, SeedConfig
    PROVE  SetupInv'
<1>0. job # NoSetup /\ job.at = "config" /\ job.at \in Early \ {"source", "subs"}
  BY DEF SeedConfig, At, Early
<1>1. /\ SetupTypeOK /\ job \in Jobs /\ WorldOK /\ CoOK /\ BuiltOK /\ toml \in TomlFiles /\ JobOK
      /\ CheckoutInv /\ StageInv /\ WholeInv /\ ToolsAreWhole /\ co.rev \in DOMAIN Systems
      /\ job.todo = Enabled /\ job.made = {} /\ ~job.forced
  BY <1>0, ConfigFacts
<1>2. SameButToml /\ toml' \in {toml, Seeded}
  BY DEF SeedConfig
<1>3. WorldOK' /\ BuiltOK' /\ ToolsAreWhole' /\ UNCHANGED <<co, kind, odd>>
  BY <1>1, <1>2, Zenon DEF SameButToml, WorldOK, BuiltOK, ToolsAreWhole
<1>4. CoOK' /\ CheckoutInv'
  BY <1>0, <1>1, <1>3, SourceKept
<1>5. toml' \in TomlFiles
  BY <1>1, <1>2, SeededTyped
<1>6. CASE Go("tools")
  <2>1. JobOK' /\ job' \in Jobs /\ job'.at = "tools" /\ Rest(job, job')
    BY <1>1, <1>6, Moves, GoTyped DEF Stages
  <2>2. StageInv' /\ MadeInv' /\ DoneInv'
    BY <1>0, <1>1, <1>3, <2>1, EarlyOn DEF Early
  <2>3. WholeInv'
    BY <1>0, <1>1, <1>3, <2>1, WholeKept DEF Rest
  <2> QED BY <2>1, <2>2, <2>3, <1>3, <1>4, <1>5, SetupTypeParts DEF SetupInv
<1>7. CASE /\ job' = [job EXCEPT !.full = TRUE, !.at = IF With("no-llm-config") THEN "tools" ELSE "threat"]
           /\ UNCHANGED status
  <2>1. job' \in Jobs
    <3>1. "tools" \in Stages /\ "threat" \in Stages
      BY DEF Stages
    <3>2. \A a \in Stages : [job EXCEPT !.full = TRUE, !.at = a] \in Jobs
      BY <1>1 DEF Jobs
    <3> QED BY <1>7, <3>1, <3>2
  <2>2. /\ job'.full /\ job'.at = IF With("no-llm-config") THEN "tools" ELSE "threat"
        /\ job'.opt = job.opt /\ job'.todo = job.todo /\ job'.made = job.made /\ job'.forced = job.forced
        /\ job'.mixed = job.mixed /\ job'.odd = job.odd
    BY <1>1, <1>7 DEF Jobs
  <2>3. JobOK'
    BY <1>1, <1>7, <2>1 DEF JobOK
  <2>4. StageInv'
    BY <1>1, <1>3, <2>2 DEF StageInv, Early, Making, Enabled, With
  <2>5. MadeInv' /\ DoneInv'
    BY <1>1, <2>2 DEF MadeInv, DoneInv, Early, Making, Closing
  <2>6. WholeInv'
    BY <1>0, <1>1, <1>3, <2>2, WholeKept
  <2> QED BY <2>3, <2>4, <2>5, <2>6, <1>3, <1>4, <1>5, SetupTypeParts DEF SetupInv
<1> QED BY <1>6, <1>7 DEF SeedConfig

LEMMA OverlayStep ==
    ASSUME SetupConstants, SetupInv, SeedRecipe
    PROVE  SetupInv'
<1>0. job # NoSetup /\ job.at = "overlay" /\ job.at \in Early \ {"source", "subs"}
  BY DEF SeedRecipe, At, Early
<1>1. /\ SetupTypeOK /\ job \in Jobs /\ WorldOK /\ CoOK /\ BuiltOK /\ toml \in TomlFiles /\ JobOK
      /\ CheckoutInv /\ StageInv /\ WholeInv /\ ToolsAreWhole
  BY <1>0, ConfigFacts
<1>2. UNCHANGED <<kind, able, head, co, tree, lib, tools, staged, toml, busy, runs, odd>> /\ Go("config")
  BY DEF SeedRecipe
<1>3. recipe' \in [All -> Recipes]
  <2>1. [by |-> "overlay", sys |-> 0] \in Recipes
    BY DEF Recipes
  <2>2. recipe \in [All -> Recipes]
    BY <1>1 DEF BuiltOK
  <2> QED BY <2>1, <2>2 DEF SeedRecipe
<1>4. WorldOK' /\ BuiltOK' /\ ToolsAreWhole' /\ UNCHANGED <<co, kind, odd>> /\ toml' \in TomlFiles
  BY <1>1, <1>2, <1>3, Zenon DEF WorldOK, BuiltOK, ToolsAreWhole
<1>5. CoOK' /\ CheckoutInv'
  BY <1>0, <1>1, <1>4, SourceKept
<1>6. JobOK' /\ job' \in Jobs /\ job'.at = "config" /\ Rest(job, job')
  BY <1>1, <1>2, Moves, GoTyped DEF Stages
<1>7. StageInv' /\ MadeInv' /\ DoneInv'
  BY <1>0, <1>1, <1>4, <1>6, EarlyOn DEF Early
<1>8. WholeInv'
  BY <1>0, <1>1, <1>4, <1>6, WholeKept DEF Rest
<1> QED BY <1>4, <1>5, <1>6, <1>7, <1>8, SetupTypeParts DEF SetupInv

\* Past the fields nothing is built, and the file only gains.
LEMMA ClosingOn ==
    ASSUME SetupInv, job # NoSetup, job.at \in Closing, UNCHANGED <<co, kind, recipe, tree, lib, odd>>,
           toml'.sys = toml.sys, toml'.bins = toml.bins, job' \in Jobs, job'.at \in Closing, Rest(job, job'),
           job'.at = "runner" /\ toml'.runner \in {"own", "model"} => With("force") /\ ~With("build")
    PROVE  StageInv' /\ WholeInv' /\ MadeInv' /\ DoneInv'
<1>1. job.at \notin Early /\ job.at \notin Making /\ job'.at \notin Early /\ job'.at \notin Making
      /\ job.at \notin {"fields", "threat", "peers", "stamp"} /\ job'.at \notin {"fields", "threat", "peers", "stamp"}
  BY DEF Early, Making, Closing
<1>2. StageInv'
  BY <1>1 DEF StageInv, Rest, With, Making
<1>3. WholeInv'
  BY <1>1, WholeKept DEF Rest, SetupInv, Early
<1>4. Builds' = Builds
  BY DEF Builds, Applies
<1>5. MadeInv'
  BY <1>1 DEF MadeInv, Rest, SetupInv, Making
<1>6. DoneInv'
  <2>1. DoneInv
    BY DEF SetupInv
  <2> SUFFICES ASSUME With("build")', job'.odd = odd'
               PROVE  /\ kind' = "language" => lib' = {Source'}
                      /\ Builds' => \A s \in Range(Enabled') : Accounted(s)'
                      /\ Builds' => job'.todo = <<>> /\ job'.errors = {}
    BY DEF DoneInv, Enabled
  <2>2. With("build") /\ job.odd = odd
    BY DEF With, Rest
  <2>3. kind' = "language" => lib' = {Source'}
    BY <1>1, <2>1, <2>2 DEF DoneInv, Source
  <2>4. ASSUME Builds', NEW s \in Range(Enabled') PROVE Accounted(s)'
    <3>1. Accounted(s)
      BY <1>1, <1>4, <2>1, <2>2, <2>4 DEF DoneInv, Enabled
    <3> QED BY <3>1 DEF Accounted, Rest, Source
  <2>5. ASSUME Builds' PROVE job'.todo = <<>> /\ job'.errors = {}
    BY <1>1, <1>4, <2>1, <2>2, <2>5 DEF DoneInv, Rest
  <2> QED BY <2>3, <2>4, <2>5
<1> QED BY <1>2, <1>3, <1>5, <1>6

\* What a helper's answer does to the file.
LEMMA SuggestedTyped ==
    ASSUME toml \in TomlFiles, NEW t \in Suggested
    PROVE  /\ t \in TomlFiles /\ t.sys = toml.sys /\ t.bins = toml.bins
           /\ job.at # "threat" => t.threat = toml.threat
           /\ job.at # "peers" => t.peers = toml.peers
           /\ job.at \in {"threat", "peers"} => t.runner = toml.runner
           /\ job.at = "peers" /\ t # toml /\ toml.peers # "none" => With("force")
<1>1. t \in {[toml EXCEPT !.threat = "model"], [toml EXCEPT !.peers = "model"], [toml EXCEPT !.runner = "model"]}
  BY DEF Suggested, SuggestThreatModel, SuggestPeers, SuggestRunner
<1>2. job.at = "threat" => t = [toml EXCEPT !.threat = "model"]
  BY DEF Suggested, SuggestThreatModel
<1>3. job.at = "peers" => t = [toml EXCEPT !.peers = "model"] /\ (toml.peers # "none" => With("force"))
  BY DEF Suggested, SuggestPeers
<1>4. job.at \notin {"threat", "peers"} => t = [toml EXCEPT !.runner = "model"]
  BY DEF Suggested, SuggestRunner
<1> QED BY <1>1, <1>2, <1>3, <1>4 DEF TomlFiles

LEMMA HelperStep ==
    ASSUME SetupConstants, SetupInv, HelperAnswers \/ HelperDeclines \/ HelperUnavailable
    PROVE  SetupInv'
<1>0. job # NoSetup /\ job.at \in {"threat", "peers", "runner"}
  BY DEF HelperAnswers, HelperDeclines, HelperUnavailable, Helping
<1>1. /\ SetupTypeOK /\ job \in Jobs /\ WorldOK /\ CoOK /\ BuiltOK /\ toml \in TomlFiles /\ JobOK
      /\ CheckoutInv /\ StageInv /\ WholeInv /\ ToolsAreWhole
  BY <1>0, AtWork, SetupTypeParts DEF SetupInv
<1>2. SameButToml /\ UNCHANGED status
  BY DEF HelperAnswers, HelperDeclines, HelperUnavailable
<1>3. WorldOK' /\ BuiltOK' /\ ToolsAreWhole' /\ UNCHANGED <<co, kind, recipe, tree, lib, odd>>
  BY <1>1, <1>2, Zenon DEF SameButToml, WorldOK, BuiltOK, ToolsAreWhole
<1>4. CoOK' /\ CheckoutInv'
  BY <1>0, <1>1, <1>3, SourceKept
<1>5. /\ toml' \in TomlFiles /\ toml'.sys = toml.sys /\ toml'.bins = toml.bins
      /\ job'.at # "runner" \/ toml' = toml
      /\ \E p \in {job.at, AfterHelper}, n \in Nat : job' = [job EXCEPT !.at = p, !.asked = n]
  <2>1. CASE toml' \in Suggested /\ job' = [job EXCEPT !.at = AfterHelper, !.asked = 0]
    <3>1. AfterHelper # "runner"
      BY DEF AfterHelper
    <3>2. job'.at = AfterHelper
      BY <2>1, <1>1 DEF Jobs
    <3> QED BY <2>1, <3>1, <3>2, <1>1, SuggestedTyped
  <2>2. CASE toml' = toml /\ job' = [job EXCEPT !.at = AfterHelper, !.asked = 0]
    BY <2>2, <1>1
  <2>3. CASE HelperUnavailable
    <3>1. toml' = toml
      BY <2>3 DEF HelperUnavailable
    <3>2. CASE job' = [job EXCEPT !.asked = @ + 1]
      <4>1. job.asked \in Nat
        BY <1>1 DEF Jobs
      <4>2. job.asked + 1 \in Nat
        BY <4>1
      <4>3. job' = [job EXCEPT !.at = job.at, !.asked = job.asked + 1]
        BY <3>2, <1>1 DEF Jobs
      <4> QED BY <4>2, <4>3, <3>1, <1>1
    <3>3. CASE job' = [job EXCEPT !.at = AfterHelper, !.asked = 0]
      BY <3>1, <3>3, <1>1
    <3> QED BY <2>3, <3>2, <3>3 DEF HelperUnavailable
  <2> QED BY <2>1, <2>2, <2>3 DEF HelperAnswers, HelperDeclines
<1>6. PICK p \in {job.at, AfterHelper}, n \in Nat : job' = [job EXCEPT !.at = p, !.asked = n]
  BY <1>5
<1>7. job' \in Jobs /\ job'.at = p /\ Rest(job, job')
  <2>1. p \in Stages
    BY <1>0 DEF AfterHelper, Stages
  <2> QED BY <2>1, <1>1, <1>6 DEF Jobs, Rest
<1>8. JobOK'
  BY <1>1, <1>2, <1>7 DEF JobOK
<1>9. StageInv' /\ WholeInv' /\ MadeInv' /\ DoneInv'
  <2>1. CASE job.at = "runner"
    <3>1. job'.at \in {"runner", "reach"}
      BY <2>1, <1>6, <1>7 DEF AfterHelper
    <3>2. job'.at = "runner" /\ toml'.runner \in {"own", "model"} => With("force") /\ ~With("build")
      BY <2>1, <3>1, <1>0, <1>1, <1>5 DEF StageInv
    <3> QED BY <2>1, <3>1, <3>2, <1>0, <1>3, <1>5, <1>7, ClosingOn DEF Closing
  <2>2. CASE job.at # "runner"
    <3>1. job.at \in {"threat", "peers"} /\ job.at \in Early
      BY <2>2, <1>0 DEF Early
    <3>2. job'.at \in {"threat", "peers", "tools"}
      BY <3>1, <1>6, <1>7 DEF AfterHelper
    <3>3. job.full /\ ~With("no-llm-config")
      BY <3>1, <1>0, <1>1 DEF StageInv
    <3>4. StageInv' /\ MadeInv' /\ DoneInv'
      BY <3>1, <3>2, <3>3, <1>1, <1>3, <1>7, EarlyOn DEF Early
    <3>5. WholeInv'
      BY <3>1, <1>0, <1>1, <1>3, <1>7, WholeKept DEF Rest
    <3> QED BY <3>4, <3>5
  <2> QED BY <2>1, <2>2
<1> QED BY <1>3, <1>4, <1>5, <1>8, <1>9, SetupTypeParts DEF SetupInv

LEMMA ToolsStep ==
    ASSUME SetupConstants, SetupInv, InstallTools \/ StampTools
    PROVE  SetupInv'
<1>0. job # NoSetup /\ job.at \in {"tools", "stamp"} /\ job.at \in Early \ {"source", "subs"}
  BY DEF InstallTools, StampTools, At, Early
<1>1. /\ SetupTypeOK /\ job \in Jobs /\ WorldOK /\ CoOK /\ BuiltOK /\ toml \in TomlFiles /\ JobOK
      /\ CheckoutInv /\ StageInv /\ WholeInv /\ ToolsAreWhole /\ co.rev \in DOMAIN Systems
  BY <1>0, ConfigFacts
<1>2. UNCHANGED <<kind, able, head, co, recipe, tree, lib, staged, toml, busy, runs, odd>>
  BY DEF InstallTools, StampTools
<1>3. /\ tools' \in [whole : BOOLEAN, of : Nat] /\ ToolsAreWhole'
      /\ \/ Fail
         \/ Go("language")
         \/ Go("stamp") /\ tools'.whole
  <2>1. co.rev \in Nat /\ tools \in [whole : BOOLEAN, of : Nat]
    BY <1>1, SystemFacts DEF BuiltOK
  <2>2. CASE StampTools
    <3>1. tools.whole
      BY <1>1, <2>2 DEF StampTools, At, StageInv
    <3> QED BY <3>1, <2>1, <2>2 DEF StampTools, ToolsAreWhole
  <2>3. CASE InstallTools
    <3>1. CASE UNCHANGED tools /\ Go("language")
      BY <3>1, <2>1, <1>1 DEF ToolsAreWhole
    <3>2. CASE tools' = [whole |-> TRUE, of |-> 0] /\ Go("stamp")
      BY <3>2 DEF ToolsAreWhole
    <3>3. CASE tools' = [whole |-> FALSE, of |-> 0] /\ Fail
      BY <3>3 DEF ToolsAreWhole
    <3> QED BY <2>3, <3>1, <3>2, <3>3 DEF InstallTools
  <2> QED BY <2>2, <2>3
<1>4. WorldOK' /\ BuiltOK' /\ UNCHANGED <<co, kind, odd>> /\ toml' \in TomlFiles
  BY <1>1, <1>2, <1>3, Zenon DEF WorldOK, BuiltOK
<1>5. CheckoutInv' /\ CoOK'
  BY <1>0, <1>1, <1>4, SourceKept
<1>6. CASE Fail
  <2>1. JobOK' /\ job' = NoSetup
    BY <1>6, EndsTyped DEF Fail
  <2> QED BY <2>1, <1>3, <1>4, <1>5, Ended, SetupTypeParts DEF SetupInv
<1>7. CASE Go("language") \/ (Go("stamp") /\ tools'.whole)
  <2>1. PICK p \in {"language", "stamp"} : Go(p) /\ (p = "stamp" => tools'.whole)
    BY <1>7
  <2>2. JobOK' /\ job' \in Jobs /\ job'.at = p /\ Rest(job, job')
    BY <1>1, <2>1, Moves, GoTyped DEF Stages
  <2>3. StageInv' /\ MadeInv' /\ DoneInv'
    BY <1>0, <1>1, <1>4, <2>1, <2>2, EarlyOn DEF Early
  <2>4. WholeInv'
    BY <1>0, <1>1, <1>4, <2>2, WholeKept DEF Rest
  <2> QED BY <2>2, <2>3, <2>4, <1>3, <1>4, <1>5, SetupTypeParts DEF SetupInv
<1> QED BY <1>3, <1>6, <1>7

\* A snapshot is of the checkout at hand, and a build it forced is known as such.
LEMMA LanguageStep ==
    ASSUME SetupConstants, SetupInv, LanguageBuild
    PROVE  SetupInv'
<1>0. job # NoSetup /\ job.at = "language" /\ job.at \in Early \ {"source", "subs"}
  BY DEF LanguageBuild, At, Early
<1>1. /\ SetupTypeOK /\ job \in Jobs /\ WorldOK /\ CoOK /\ BuiltOK /\ toml \in TomlFiles /\ JobOK
      /\ CheckoutInv /\ StageInv /\ WholeInv /\ ToolsAreWhole /\ co.rev \in DOMAIN Systems
      /\ job.todo = Enabled /\ job.made = {} /\ ~job.forced
  BY <1>0, ConfigFacts
<1> DEFINE forced == kind = "language" /\ ~With("build") /\ lib # {Source}
           opt == job.opt \cup (IF forced THEN {"build"} ELSE {})
<1>2. UNCHANGED <<kind, able, head, co, recipe, tree, tools, staged, busy, runs, odd>>
  BY DEF LanguageBuild
<1>3. \/ (kind # "language" \/ "build" \notin opt) /\ Go("recipe") /\ UNCHANGED <<lib, toml>>
      \/ /\ kind = "language" /\ "build" \in opt /\ lib' = {Source} /\ toml' \in {toml, Seeded}
         /\ job' = [job EXCEPT !.opt = opt, !.forced = forced, !.at = "recipe"] /\ UNCHANGED status
      \/ UNCHANGED <<lib, toml>> /\ Fail
  BY DEF LanguageBuild
<1>4. toml' \in TomlFiles
  BY <1>1, <1>3, SeededTyped
<1>5. Source \in SourceStates
  BY <1>1 DEF CoOK, Source, SourceStates
<1>6. lib' \in SUBSET SourceStates
  BY <1>1, <1>3, <1>5 DEF BuiltOK
<1>7. WorldOK' /\ BuiltOK' /\ ToolsAreWhole' /\ UNCHANGED <<co, kind, odd>>
  BY <1>1, <1>2, <1>6, Zenon DEF WorldOK, BuiltOK, ToolsAreWhole
<1>8. CheckoutInv' /\ CoOK'
  BY <1>0, <1>1, <1>7, SourceKept
<1>9. Enabled # <<>> /\ Enabled \in Seq(All)
  BY <1>1, KindFacts DEF WorldOK
<1>10. CASE Fail
  <2>1. JobOK' /\ job' = NoSetup
    BY <1>10, EndsTyped DEF Fail
  <2> QED BY <2>1, <1>4, <1>7, <1>8, Ended, SetupTypeParts DEF SetupInv
<1>11. ASSUME job' \in Jobs, status' = status, job'.at = "recipe", job'.todo = Enabled, job'.made = {},
              job'.mixed = job.mixed, job'.odd = job.odd,
              With("build")' /\ ~job'.forced => With("build"),
              With("build")' /\ kind = "language" => lib' = {Source}
       PROVE  SetupInv'
  <2>1. JobOK'
    BY <1>1, <1>11 DEF JobOK
  <2>2. StageInv'
    BY <1>9, <1>11 DEF StageInv, Early, Making
  <2>3. MadeInv'
    BY <1>11 DEF MadeInv, Closing
  <2>4. WholeInv'
    BY <1>0, <1>1, <1>7, <1>11 DEF WholeInv
  <2>5. DoneInv'
    BY <1>7, <1>11 DEF DoneInv, Accounted, Closing, Source, Enabled
  <2> QED BY <2>1, <2>2, <2>3, <2>4, <2>5, <1>4, <1>7, <1>8, SetupTypeParts DEF SetupInv
<1>12. CASE (kind # "language" \/ "build" \notin opt) /\ Go("recipe")
  <2>1. job' \in Jobs /\ job'.at = "recipe" /\ Rest(job, job') /\ status' = status
    BY <1>1, <1>12, Moves DEF Stages, Go
  <2>2. kind # "language" \/ ~With("build")
    BY <1>12 DEF With
  <2> QED BY <2>1, <2>2, <1>1, <1>11 DEF Rest, With
<1>13. CASE /\ kind = "language" /\ "build" \in opt /\ lib' = {Source}
            /\ job' = [job EXCEPT !.opt = opt, !.forced = forced, !.at = "recipe"] /\ UNCHANGED status
  <2>1. opt \in SUBSET ((UNION OptionSets) \cup {"build"}) /\ forced \in BOOLEAN /\ "recipe" \in Stages
    BY <1>1 DEF Jobs, Stages
  <2>2. forced \/ With("build")
    BY <1>13 DEF With
  <2> HIDE DEF opt, forced
  <2>3. /\ job' \in Jobs /\ job'.at = "recipe" /\ job'.opt = opt /\ job'.forced = forced
        /\ job'.todo = job.todo /\ job'.made = job.made /\ job'.mixed = job.mixed
        /\ job'.odd = job.odd
    BY <1>1, <1>13, <2>1 DEF Jobs
  <2>4. With("build")' /\ ~job'.forced => With("build")
    BY <2>2, <2>3
  <2> QED BY <2>3, <2>4, <1>1, <1>11, <1>13
<1> QED BY <1>3, <1>10, <1>12, <1>13

-----------------------------------------------------------------------------
(* The builds *)

LEMMA MakingFacts ==
    ASSUME SetupInv, job # NoSetup, job.at \in Making
    PROVE  /\ SetupTypeOK /\ job \in Jobs /\ WorldOK /\ CoOK /\ BuiltOK /\ toml \in TomlFiles /\ JobOK
           /\ CheckoutInv /\ StageInv /\ WholeInv /\ MadeInv /\ DoneInv /\ ToolsAreWhole
           /\ job.todo # <<>> /\ Head(job.todo) \in All /\ job.at \notin Early \cup Closing \cup {"fields"}
<1>1. SetupTypeOK /\ CheckoutInv /\ StageInv /\ WholeInv /\ MadeInv /\ DoneInv /\ ToolsAreWhole
  BY DEF SetupInv
<1>2. job \in Jobs /\ WorldOK /\ CoOK /\ BuiltOK /\ toml \in TomlFiles /\ JobOK
  BY <1>1, AtWork, SetupTypeParts
<1>3. job.todo # <<>> /\ job.todo \in Seq(All)
  BY <1>1, <1>2 DEF StageInv, Jobs
<1>4. Head(job.todo) \in All
  BY <1>3, SeqFacts
<1>5. job.at \notin Early \cup Closing \cup {"fields"}
  BY DEF Making, Early, Closing
<1> QED BY <1>1, <1>2, <1>3, <1>4, <1>5

\* The job with the fate of the sanitizer at hand: what a setup remembers of it.
Fate(j) ==
    /\ j \in Jobs /\ j.todo = job.todo /\ j.opt = job.opt /\ j.full = job.full /\ j.forced = job.forced
    /\ j.mixed = job.mixed /\ j.odd = job.odd /\ j.made \subseteq job.made \cup {Head(job.todo)}
    /\ job.shared \subseteq j.shared /\ job.errors \subseteq j.errors /\ job.kept \subseteq j.kept

LEMMA Fates ==
    ASSUME job \in Jobs, Head(job.todo) \in All
    PROVE  /\ Fate(job) /\ Fate(Erred(job)) /\ Head(job.todo) \in Erred(job).errors /\ Erred(job).made = job.made
           /\ Fate([job EXCEPT !.kept = @ \cup {Head(job.todo)}])
           /\ [job EXCEPT !.kept = @ \cup {Head(job.todo)}].made = job.made
           /\ Head(job.todo) \in [job EXCEPT !.kept = @ \cup {Head(job.todo)}].kept
           /\ Fate([job EXCEPT !.shared = @ \cup {Head(job.todo)}])
           /\ [job EXCEPT !.shared = @ \cup {Head(job.todo)}].made = job.made
           /\ Head(job.todo) \in [job EXCEPT !.shared = @ \cup {Head(job.todo)}].shared
           /\ Fate([job EXCEPT !.made = @ \cup {Head(job.todo)}])
<1> DEFINE h == Head(job.todo)
<1>1. h \in All
  OBVIOUS
<1> HIDE DEF h
<1>2. Fate(job)
  BY DEF Fate
<1>3. Fate([job EXCEPT !.errors = @ \cup {h}]) /\ h \in [job EXCEPT !.errors = @ \cup {h}].errors
      /\ [job EXCEPT !.errors = @ \cup {h}].made = job.made
  BY <1>1 DEF Fate, Jobs
<1>4. Fate([job EXCEPT !.kept = @ \cup {h}]) /\ h \in [job EXCEPT !.kept = @ \cup {h}].kept
      /\ [job EXCEPT !.kept = @ \cup {h}].made = job.made
  BY <1>1 DEF Fate, Jobs
<1>5. Fate([job EXCEPT !.shared = @ \cup {h}]) /\ h \in [job EXCEPT !.shared = @ \cup {h}].shared
      /\ [job EXCEPT !.shared = @ \cup {h}].made = job.made
  BY <1>1 DEF Fate, Jobs
<1>6. Fate([job EXCEPT !.made = @ \cup {h}])
  <2>1. [job EXCEPT !.made = @ \cup {h}].made = job.made \cup {Head(job.todo)}
    BY DEF Jobs, h
  <2> QED BY <1>1, <2>1 DEF Fate, Jobs
<1> QED BY <1>2, <1>3, <1>4, <1>5, <1>6 DEF h, Erred

\* Going on to the next sanitizer settles this one.
LEMMA LaterOn ==
    ASSUME SetupConstants, SetupInv, job # NoSetup, job.at \in Making, With("build"), SameButBuilds,
           NEW j, Fate(j), Later(j), Builds, Builds',
           tree' \in [All -> Trees \cup {NoTree}], recipe' \in [All -> Recipes],
           \A s \in All : tree'[s] = tree[s] \/ (tree'[s] # NoTree /\ tree'[s].src = {Source} /\ tree'[s].runs),
           \/ Head(job.todo) \in j.shared \cup j.errors
           \/ tree'[Head(job.todo)].src = {Source} /\ (tree'[Head(job.todo)].runs \/ Head(job.todo) \in j.kept),
           j.made = job.made \/ tree'[Head(job.todo)] # NoTree
    PROVE  SetupInv'
<1> DEFINE h == Head(job.todo)
<1>1. /\ SetupTypeOK /\ job \in Jobs /\ WorldOK /\ CoOK /\ BuiltOK /\ toml \in TomlFiles /\ JobOK
      /\ CheckoutInv /\ StageInv /\ WholeInv /\ MadeInv /\ DoneInv /\ ToolsAreWhole
      /\ job.todo # <<>> /\ h \in All /\ job.at \notin Early \cup Closing \cup {"fields"}
  BY MakingFacts
<1>2. job' = Next1(j) /\ status' = status /\ j \in Jobs /\ j.todo # <<>>
  BY <1>1 DEF Later, Fate
<1>3. /\ job' \in Jobs /\ job'.at \in {"fields", "recipe"}
      /\ job'.at = "fields" => job'.todo = <<>>
      /\ job'.at = "recipe" => job'.todo # <<>>
      /\ Range(job.todo) = {h} \cup Range(job'.todo)
      /\ job'.errors = j.errors /\ job'.made = j.made /\ job'.shared = j.shared /\ job'.kept = j.kept
      /\ job'.opt = job.opt /\ job'.forced = job.forced /\ job'.mixed = job.mixed /\ job'.odd = job.odd
  BY <1>2, NextOne DEF Fate
<1> HIDE DEF h
<1>4. UNCHANGED <<kind, co, lib, toml, odd>>
  BY DEF SameButBuilds
<1>5. WorldOK' /\ BuiltOK' /\ ToolsAreWhole' /\ toml' \in TomlFiles
  BY <1>1, Zenon DEF SameButBuilds, WorldOK, BuiltOK, ToolsAreWhole
<1>6. CheckoutInv' /\ CoOK'
  BY <1>1, <1>4, SourceKept DEF Early
<1>7. JobOK'
  BY <1>1, <1>2, <1>3 DEF JobOK
<1>8. StageInv'
  BY <1>3 DEF StageInv, Early, Making
<1>9. WholeInv'
  BY <1>1, <1>3, <1>4, WholeKept DEF Early
<1>10. MadeInv'
  <2>1. \A s \in job'.made : tree'[s] # NoTree
    <3>1. job'.made \subseteq All
      BY <1>3 DEF Jobs
    <3>2. \A s \in job.made : tree[s] # NoTree
      BY <1>1 DEF MadeInv
    <3>3. ASSUME NEW s \in job'.made PROVE tree'[s] # NoTree
      <4>1. s \in All
        BY <3>1, <3>3
      <4>2. CASE s \in job.made
        BY <4>1, <4>2, <3>2
      <4>3. CASE s \notin job.made
        BY <3>3, <4>3, <1>3 DEF Fate, h
      <4> QED BY <4>2, <4>3
    <3> QED BY <3>3
  <2> QED BY <2>1, <1>3 DEF MadeInv, Closing
<1>11. DoneInv'
  <2> SUFFICES ASSUME job'.odd = odd'
               PROVE  /\ kind' = "language" => lib' = {Source'}
                      /\ \A s \in Range(Enabled') : Accounted(s)'
    BY <1>3 DEF DoneInv, Closing
  <2>1. job.odd = odd /\ Source' = Source /\ Enabled' = Enabled
    BY <1>3, <1>4 DEF Source, Enabled
  <2>2. kind' = "language" => lib' = {Source'}
    BY <1>1, <1>4, <2>1 DEF DoneInv
  <2>4. ASSUME NEW s \in Range(Enabled) PROVE Accounted(s)'
    <3>1. Accounted(s)
      BY <1>1, <2>1 DEF DoneInv
    <3>2. s \in All
      BY <1>1, KindFacts DEF WorldOK
    <3>3. CASE s = h
      BY <3>3, <1>3, <2>1 DEF Accounted, h
    <3>4. CASE s # h /\ s \in Range(job.todo)
      BY <3>4, <1>3 DEF Accounted
    <3>5. CASE s \in job.shared \/ s \in job.errors
      BY <3>5, <1>3 DEF Accounted, Fate
    <3>6. CASE tree[s].src = {Source} /\ (tree[s].runs \/ s \in job.kept)
      <4>1. tree'[s].src = {Source} /\ (tree'[s].runs \/ s \in job'.kept)
        BY <3>2, <3>6, <1>3 DEF Fate
      <4> QED BY <4>1, <2>1 DEF Accounted
    <3> QED BY <3>1, <3>3, <3>4, <3>5, <3>6 DEF Accounted
  <2> QED BY <2>1, <2>2, <2>4
<1> QED BY <1>5, <1>6, <1>7, <1>8, <1>9, <1>10, <1>11, SetupTypeParts DEF SetupInv

\* The same sanitizer, at another stage of its build.
LEMMA StillMaking ==
    ASSUME SetupConstants, SetupInv, job # NoSetup, job.at \in Making, With("build"), Builds,
           SameButBuilds, UNCHANGED <<recipe, tree, status>>,
           NEW r \in Recipes, NEW p \in {"build", "repair"}, NEW n \in Nat,
           job' = [job EXCEPT !.rec = r, !.at = p, !.asked = n], p = "build" => Applies(r)
    PROVE  SetupInv'
<1>1. /\ SetupTypeOK /\ job \in Jobs /\ WorldOK /\ CoOK /\ BuiltOK /\ toml \in TomlFiles /\ JobOK
      /\ CheckoutInv /\ StageInv /\ WholeInv /\ MadeInv /\ DoneInv /\ ToolsAreWhole
      /\ job.todo # <<>> /\ job.at \notin Early \cup Closing \cup {"fields"}
  BY MakingFacts
<1>2. p \in Stages
  BY DEF Stages
<1>3. /\ job' \in Jobs /\ job'.at = p /\ job'.rec = r /\ job'.opt = job.opt /\ job'.full = job.full
      /\ job'.todo = job.todo /\ job'.errors = job.errors /\ job'.made = job.made /\ job'.shared = job.shared
      /\ job'.kept = job.kept /\ job'.forced = job.forced /\ job'.mixed = job.mixed /\ job'.odd = job.odd
  BY <1>1, <1>2 DEF Jobs
<1>4. UNCHANGED <<kind, co, lib, toml, odd, recipe, tree>>
  BY DEF SameButBuilds
<1>5. WorldOK' /\ BuiltOK' /\ ToolsAreWhole' /\ toml' \in TomlFiles
  BY <1>1, Zenon DEF SameButBuilds, WorldOK, BuiltOK, ToolsAreWhole
<1>6. CheckoutInv' /\ CoOK'
  BY <1>1, <1>4, SourceKept DEF Early
<1>7. JobOK'
  BY <1>1, <1>3 DEF JobOK
<1>8. StageInv'
  BY <1>1, <1>3 DEF StageInv, Early, Making, With
<1>9. WholeInv'
  BY <1>1, <1>3, <1>4, WholeKept DEF Early
<1>10. Builds' /\ (Applies(r) <=> Applies(r)')
  BY <1>4 DEF Builds, Applies
<1>11. MadeInv'
  BY <1>1, <1>3, <1>4, <1>10 DEF MadeInv, Closing, Applies
<1>12. DoneInv'
  <2>1. Source' = Source /\ Enabled' = Enabled
    BY <1>4 DEF Source, Enabled
  <2>2. DoneInv /\ job.at \notin Early
    BY <1>1
  <2> SUFFICES ASSUME job'.odd = odd'
               PROVE  /\ kind' = "language" => lib' = {Source'}
                      /\ \A s \in Range(Enabled') : Accounted(s)'
    BY <1>3 DEF DoneInv, Closing
  <2>3. job.odd = odd
    BY <1>3, <1>4
  <2>4. ASSUME NEW s \in Range(Enabled) PROVE Accounted(s)'
    <3>1. Accounted(s)
      BY <2>2, <2>3 DEF DoneInv
    <3> QED BY <3>1, <2>1, <1>3, <1>4 DEF Accounted
  <2> QED BY <2>1, <2>2, <2>3, <2>4, <1>4 DEF DoneInv
<1> QED BY <1>5, <1>6, <1>7, <1>8, <1>9, <1>11, <1>12, SetupTypeParts DEF SetupInv

LEMMA ChooseStep ==
    ASSUME SetupConstants, SetupInv, ChooseRecipe
    PROVE  SetupInv'
<1>0. job # NoSetup /\ job.at = "recipe" /\ job.at \in Making
  BY DEF ChooseRecipe, At, Making
<1>1. /\ SetupTypeOK /\ job \in Jobs /\ WorldOK /\ CoOK /\ BuiltOK /\ toml \in TomlFiles /\ JobOK
      /\ CheckoutInv /\ StageInv /\ WholeInv /\ MadeInv /\ DoneInv /\ ToolsAreWhole
      /\ job.todo # <<>> /\ Head(job.todo) \in All /\ job.at \notin Early \cup Closing \cup {"fields"}
  BY <1>0, MakingFacts
<1>2. SameButBuilds /\ UNCHANGED <<recipe, tree>> /\ UNCHANGED <<kind, co, lib, toml, odd>>
  BY DEF ChooseRecipe, SameButBuilds
<1>3. Builds' = Builds
  BY <1>2 DEF Builds, Applies
<1>4. CASE (~Builds /\ Go("stage")) \/ (Builds /\ ~With("build") /\ Go("fields"))
  <2>1. PICK p \in {"stage", "fields"} : Go(p) /\ (p = "stage" => ~Builds) /\ (p = "fields" => ~With("build"))
    BY <1>4
  <2>2. JobOK' /\ job' \in Jobs /\ job'.at = p /\ Rest(job, job')
    BY <1>1, <2>1, Moves, GoTyped DEF Stages
  <2>3. WorldOK' /\ BuiltOK' /\ ToolsAreWhole' /\ toml' \in TomlFiles
    BY <1>1, <1>2, Zenon DEF SameButBuilds, WorldOK, BuiltOK, ToolsAreWhole
  <2>4. CheckoutInv' /\ CoOK'
    BY <1>0, <1>1, <1>2, SourceKept
  <2>5. StageInv'
    BY <2>1, <2>2 DEF StageInv, Early, Making, Rest, With
  <2>6. WholeInv'
    BY <1>0, <1>1, <1>2, <2>2, WholeKept DEF Rest
  <2>7. MadeInv'
    <3>1. p = "stage" => job.made = {}
      BY <1>0, <1>1, <2>1 DEF MadeInv
    <3> QED BY <1>0, <1>1, <1>2, <2>2, <3>1 DEF MadeInv, Rest, Closing, Making
  <2>8. DoneInv'
    BY <1>0, <1>1, <1>2, <1>3, <2>1, <2>2 DEF DoneInv, Rest, With, Source, Closing
  <2> QED BY <2>2, <2>3, <2>4, <2>5, <2>6, <2>7, <2>8, SetupTypeParts DEF SetupInv
<1>5. CASE /\ Builds /\ With("build")
           /\ \E r \in Recipes : Applies(r) /\ job' = [job EXCEPT !.rec = r, !.at = "build"] /\ UNCHANGED status
  <2>1. PICK r \in Recipes : Applies(r) /\ job' = [job EXCEPT !.rec = r, !.at = "build"] /\ UNCHANGED status
    BY <1>5
  <2>2. job' = [job EXCEPT !.rec = r, !.at = "build", !.asked = job.asked] /\ job.asked \in Nat
    BY <2>1, <1>1 DEF Jobs
  <2> QED BY <2>1, <2>2, <1>0, <1>2, <1>5, StillMaking
<1>6. CASE Builds /\ With("build") /\ Later(Erred(job))
  <2>1. Fate(Erred(job)) /\ Head(job.todo) \in Erred(job).errors /\ Erred(job).made = job.made
    BY <1>1, Fates
  <2>2. tree' \in [All -> Trees \cup {NoTree}] /\ recipe' \in [All -> Recipes] /\ tree' = tree
    BY <1>1, <1>2 DEF BuiltOK
  <2> QED BY <2>1, <2>2, <1>0, <1>2, <1>3, <1>6, LaterOn
<1>7. (Builds /\ With("build")) =>
          \/ \E r \in Recipes : Applies(r) /\ job' = [job EXCEPT !.rec = r, !.at = "build"] /\ UNCHANGED status
          \/ Later(Erred(job))
  <2> SUFFICES ASSUME Builds, With("build"), ~Later(Erred(job))
               PROVE  \E r \in Recipes : Applies(r) /\ job' = [job EXCEPT !.rec = r, !.at = "build"] /\ UNCHANGED status
    OBVIOUS
  <2> DEFINE s == Head(job.todo)
             new == [by |-> "made", sys |-> toml.sys]
  <2>1. recipe[s] \in Recipes
    BY <1>1 DEF BuiltOK
  <2>2. new \in Recipes /\ Applies(new)
    BY <1>1 DEF TomlFiles, Recipes, Applies, NoRecipe
  <2>3. \/ Applies(recipe[s]) /\ job' = [job EXCEPT !.rec = recipe[s], !.at = "build"] /\ UNCHANGED status
        \/ job' = [job EXCEPT !.rec = new, !.at = "build"] /\ UNCHANGED status
    BY DEF ChooseRecipe
  <2> HIDE DEF s, new
  <2> QED BY <2>1, <2>2, <2>3
<1>8. \/ ~Builds /\ Go("stage")
      \/ Builds /\ ~With("build") /\ Go("fields")
      \/ Builds /\ With("build")
  BY DEF ChooseRecipe
<1> QED BY <1>4, <1>5, <1>6, <1>7, <1>8

\* A build that is done: its tree and its recipe are those of this source.
LEMMA BuiltOn ==
    ASSUME SetupConstants, SetupInv, job # NoSetup, job.at \in Making, With("build"), Builds, SameButBuilds,
           NEW r \in Recipes, Applies(r), Built(Head(job.todo), r),
           Later([job EXCEPT !.made = @ \cup {Head(job.todo)}])
    PROVE  SetupInv'
<1> DEFINE h == Head(job.todo)
           new == [src |-> {Source}, rec |-> r, runs |-> TRUE]
           j == [job EXCEPT !.made = @ \cup {h}]
<1>1. /\ job \in Jobs /\ CoOK /\ BuiltOK /\ h \in All
  BY MakingFacts
<1>2. Fate(j)
  BY <1>1, Fates
<1>3. tree' = [tree EXCEPT ![h] = new] /\ recipe' = [recipe EXCEPT ![h] = r] /\ Later(j)
  BY DEF Built
<1>4. Source \in SourceStates
  BY <1>1 DEF CoOK, Source, SourceStates
<1>5. new \in Trees /\ new # NoTree /\ new.src = {Source} /\ new.runs
  BY <1>4, TreesAreTrees DEF Trees
<1>6. tree \in [All -> Trees \cup {NoTree}] /\ recipe \in [All -> Recipes]
  BY <1>1 DEF BuiltOK
<1> HIDE DEF new, j
<1>7. tree' \in [All -> Trees \cup {NoTree}] /\ recipe' \in [All -> Recipes] /\ tree'[h] = new /\ recipe'[h] = r
      /\ \A s \in All : tree'[s] = tree[s] \/ tree'[s] = new
  BY <1>1, <1>3, <1>5, <1>6
<1>8. Builds'
  <2>1. toml'.sys = toml.sys
    BY DEF SameButBuilds
  <2>2. PICK s \in All : recipe'[s] = r
    BY <1>1, <1>7
  <2> QED BY <2>1, <2>2 DEF Builds, Applies
<1>9. /\ \A s \in All : tree'[s] = tree[s] \/ (tree'[s] # NoTree /\ tree'[s].src = {Source} /\ tree'[s].runs)
      /\ tree'[h].src = {Source} /\ tree'[h].runs /\ tree'[h] # NoTree
  BY <1>5, <1>7
<1> HIDE DEF h
<1> QED
  <2>1. h = Head(job.todo)
    BY DEF h
  <2> QED BY <2>1, <1>2, <1>3, <1>7, <1>8, <1>9, LaterOn

\* A sanitizer that is left as it is.
LEMMA LeftOn ==
    ASSUME SetupConstants, SetupInv, job # NoSetup, job.at \in Making, With("build"), Builds, SameButBuilds,
           UNCHANGED <<recipe, tree>>, NEW j, Fate(j), Later(j), j.made = job.made,
           \/ Head(job.todo) \in j.shared \cup j.errors
           \/ tree[Head(job.todo)].src = {Source} /\ (tree[Head(job.todo)].runs \/ Head(job.todo) \in j.kept)
    PROVE  SetupInv'
<1>1. BuiltOK
  BY MakingFacts
<1>2. tree' \in [All -> Trees \cup {NoTree}] /\ recipe' \in [All -> Recipes] /\ tree' = tree
  BY <1>1 DEF BuiltOK
<1>3. Builds'
  BY DEF Builds, Applies, SameButBuilds
<1> QED BY <1>2, <1>3, LaterOn

LEMMA BuildStep ==
    ASSUME SetupConstants, SetupInv, Build \/ Repair
    PROVE  SetupInv'
<1>0. job # NoSetup /\ job.at \in {"build", "repair"} /\ job.at \in Making
  BY DEF Build, Repair, At, Making
<1>1. /\ job \in Jobs /\ BuiltOK /\ toml \in TomlFiles /\ StageInv /\ MadeInv /\ Head(job.todo) \in All
  BY <1>0, MakingFacts
<1>2. SameButBuilds /\ With("build") /\ Builds
  BY <1>0, <1>1 DEF Build, Repair, StageInv, MadeInv
<1> DEFINE h == Head(job.todo)
           kept == [job EXCEPT !.kept = @ \cup {h}]
           shared == [job EXCEPT !.shared = @ \cup {h}]
           made == [job EXCEPT !.made = @ \cup {h}]
<1>3. /\ Fate(job) /\ Fate(Erred(job)) /\ h \in Erred(job).errors /\ Erred(job).made = job.made
      /\ Fate(kept) /\ kept.made = job.made /\ h \in kept.kept
      /\ Fate(shared) /\ shared.made = job.made /\ h \in shared.shared
  BY <1>1, Fates
<1>4. CASE Later(Erred(job)) /\ UNCHANGED <<recipe, tree>>
  BY <1>0, <1>2, <1>3, <1>4, LeftOn
<1>5. CASE Fresh(h) /\ Later(kept) /\ UNCHANGED <<recipe, tree>>
  <2>1. tree[h].src = {Source}
    BY <1>5 DEF Fresh
  <2> QED BY <2>1, <1>0, <1>2, <1>3, <1>5, LeftOn
<1>6. CASE Later(shared) /\ UNCHANGED <<recipe, tree>>
  BY <1>0, <1>2, <1>3, <1>6, LeftOn
<1>7. CASE Whole(h) /\ Later(job) /\ UNCHANGED <<recipe, tree>>
  <2>1. tree[h].src = {Source} /\ tree[h].runs
    BY <1>7 DEF Whole, Fresh
  <2> QED BY <2>1, <1>0, <1>2, <1>3, <1>7, LeftOn
<1>8. CASE \E r \in Recipes : Applies(r) /\ Built(h, r) /\ Later(made)
  BY <1>0, <1>2, <1>8, BuiltOn
<1>9. CASE /\ UNCHANGED <<recipe, tree, status>>
           /\ \E n \in Nat : job' = [job EXCEPT !.at = "repair", !.asked = n]
  <2>1. PICK n \in Nat : job' = [job EXCEPT !.at = "repair", !.asked = n]
    BY <1>9
  <2>2. job' = [job EXCEPT !.rec = job.rec, !.at = "repair", !.asked = n] /\ job.rec \in Recipes
    BY <2>1, <1>1 DEF Jobs
  <2> QED BY <2>2, <1>0, <1>2, <1>9, StillMaking
<1>10. CASE Build
  <2>1. job.rec \in Recipes /\ Applies(job.rec) /\ job.asked \in Nat
    BY <1>0, <1>1, <1>10 DEF Build, At, Jobs, MadeInv
  <2>2. Go("repair") => job' = [job EXCEPT !.at = "repair", !.asked = job.asked] /\ UNCHANGED status
    BY <1>1 DEF Go, Jobs
  <2> HIDE DEF h, kept, shared, made
  <2>3. \/ Fresh(h) /\ Later(kept) /\ UNCHANGED <<recipe, tree>>
        \/ Later(Erred(job)) /\ UNCHANGED <<recipe, tree>>
        \/ Later(shared) /\ UNCHANGED <<recipe, tree>>
        \/ Whole(h) /\ Later(job) /\ UNCHANGED <<recipe, tree>>
        \/ Built(h, job.rec) /\ Later(made)
        \/ UNCHANGED <<recipe, tree>> /\ Go("repair")
    BY <1>10, Zenon DEF Build, h, kept, shared, made
  <2> QED BY <2>1, <2>2, <2>3, <1>4, <1>5, <1>6, <1>7, <1>8, <1>9
<1>11. CASE Repair
  <2> DEFINE new == [by |-> "mended", sys |-> toml.sys]
  <2>1. new \in Recipes /\ Applies(new)
    BY <1>1 DEF TomlFiles, Recipes, Applies, NoRecipe
  <2>2. job.asked \in Nat /\ job.at = "repair"
    BY <1>1, <1>11 DEF Repair, At, Jobs
  <2>3. ASSUME job' = [job EXCEPT !.asked = @ + 1]
        PROVE  \E n \in Nat : job' = [job EXCEPT !.at = "repair", !.asked = n]
    <3>1. job.asked + 1 \in Nat
      BY <2>2
    <3>2. job' = [job EXCEPT !.at = "repair", !.asked = job.asked + 1]
      BY <2>2, <2>3, <1>1 DEF Jobs
    <3> QED BY <3>1, <3>2
  <2>4. \/ Built(h, new) /\ Later(made)
        \/ Later(Erred(job)) /\ UNCHANGED <<recipe, tree>>
        \/ job' = [job EXCEPT !.asked = @ + 1] /\ UNCHANGED <<status, recipe, tree>>
    BY <1>11 DEF Repair
  <2> HIDE DEF h, kept, shared, made, new
  <2> QED BY <2>1, <2>3, <2>4, <1>4, <1>8, <1>9
<1> QED BY <1>10, <1>11 DEF Build, Repair

-----------------------------------------------------------------------------
(* The fields and the route *)

LEMMA FieldsStep ==
    ASSUME SetupConstants, SetupInv, RefreshFields
    PROVE  SetupInv' /\ (job # NoSetup /\ kind # "package" => job.made \subseteq toml'.bins)
<1>0. job # NoSetup /\ job.at = "fields"
  BY DEF RefreshFields, At
<1>1. /\ SetupTypeOK /\ job \in Jobs /\ WorldOK /\ CoOK /\ BuiltOK /\ toml \in TomlFiles /\ JobOK
      /\ CheckoutInv /\ StageInv /\ WholeInv /\ MadeInv /\ DoneInv /\ ToolsAreWhole
  BY <1>0, AtWork, SetupTypeParts DEF SetupInv
<1>2. SameButToml /\ toml' = [toml EXCEPT !.bins = Artifacts] /\ UNCHANGED <<co, kind, recipe, tree, lib, odd>>
  BY DEF RefreshFields, SameButToml
<1>3. toml' \in TomlFiles /\ toml'.bins = Artifacts /\ toml'.sys = toml.sys
  <2>1. Artifacts \in SUBSET All
    BY DEF Artifacts
  <2> QED BY <2>1, <1>1, <1>2 DEF TomlFiles
<1>4. WorldOK' /\ BuiltOK' /\ ToolsAreWhole'
  BY <1>1, <1>2, Zenon DEF SameButToml, WorldOK, BuiltOK, ToolsAreWhole
<1>5. CheckoutInv' /\ CoOK'
  BY <1>0, <1>1, <1>2, SourceKept
<1>6. kind # "package" => job.made \subseteq toml'.bins
  <2>1. job.made \subseteq All /\ \A s \in job.made : tree[s] # NoTree
    BY <1>0, <1>1 DEF Jobs, MadeInv
  <2> QED BY <2>1, <1>3 DEF Artifacts
<1>7. CASE Fail
  <2>1. JobOK' /\ job' = NoSetup
    BY <1>7, EndsTyped DEF Fail
  <2> QED BY <2>1, <1>3, <1>4, <1>5, <1>6, Ended, SetupTypeParts DEF SetupInv
<1>8. CASE ~(With("build") /\ job.errors # {}) /\ Go("stage")
  <2>1. JobOK' /\ job' \in Jobs /\ job'.at = "stage" /\ Rest(job, job')
    BY <1>1, <1>8, Moves, GoTyped DEF Stages
  <2>2. StageInv'
    BY <2>1 DEF StageInv, Early, Making
  <2>3. WholeInv'
    BY <1>0, <1>1, <1>2, <2>1, WholeKept DEF Rest
  <2>4. MadeInv'
    BY <1>0, <1>1, <1>2, <1>6, <2>1 DEF MadeInv, Rest, Making
  <2>5. Builds' = Builds /\ Source' = Source /\ Enabled' = Enabled
    BY <1>2, <1>3 DEF Builds, Applies, Source, Enabled
  <2>6. DoneInv'
    <3>1. With("build")' => With("build") /\ job.todo = <<>> /\ job.errors = {}
      BY <1>0, <1>1, <1>8, <2>1 DEF With, Rest, StageInv
    <3>2. job.at \notin Early
      BY <1>0 DEF Early
    <3> SUFFICES ASSUME With("build")', job'.odd = odd'
                 PROVE  /\ kind' = "language" => lib' = {Source'}
                        /\ Builds' => \A s \in Range(Enabled') : Accounted(s)'
      BY <2>1, <3>1 DEF DoneInv, Rest
    <3>3. job.odd = odd /\ With("build")
      BY <2>1, <3>1, <1>2 DEF Rest
    <3>4. kind' = "language" => lib' = {Source'}
      BY <1>0, <1>1, <1>2, <2>5, <3>2, <3>3 DEF DoneInv
    <3>5. ASSUME Builds, NEW s \in Range(Enabled) PROVE Accounted(s)'
      <4>1. Accounted(s)
        BY <1>0, <1>1, <3>2, <3>3, <3>5 DEF DoneInv
      <4> QED BY <4>1, <1>2, <2>1, <2>5 DEF Accounted, Rest
    <3> QED BY <2>5, <3>4, <3>5
  <2> QED BY <2>1, <2>2, <2>3, <2>4, <2>6, <1>3, <1>4, <1>5, <1>6, SetupTypeParts DEF SetupInv
<1> QED BY <1>7, <1>8 DEF RefreshFields

LEMMA RouteStep ==
    ASSUME SetupConstants, SetupInv, StageRunner \/ RefreshInputs \/ Reach \/ RepairInputs \/ RequireRoute
    PROVE  SetupInv' /\ toml'.bins = toml.bins
<1>0. job # NoSetup /\ job.at \in {"stage", "includes", "reach", "inputs", "route"} /\ job.at \in Closing
  BY DEF StageRunner, RefreshInputs, Reach, RepairInputs, RequireRoute, At, Closing
<1>1. /\ SetupTypeOK /\ job \in Jobs /\ WorldOK /\ CoOK /\ BuiltOK /\ toml \in TomlFiles /\ JobOK
      /\ CheckoutInv /\ ToolsAreWhole
  BY <1>0, AtWork, SetupTypeParts DEF SetupInv
<1>2. /\ UNCHANGED <<kind, able, head, co, recipe, tree, lib, tools, busy, runs, odd>>
      /\ staged' = staged \/ staged' \in BOOLEAN
  BY DEF StageRunner, RefreshInputs, Reach, RepairInputs, RequireRoute, SameButToml
<1>3. WorldOK' /\ BuiltOK' /\ ToolsAreWhole'
  <2>1. staged' \in BOOLEAN
    BY <1>1, <1>2 DEF BuiltOK
  <2> QED BY <2>1, <1>1, <1>2, Zenon DEF WorldOK, BuiltOK, ToolsAreWhole
<1>4. CheckoutInv' /\ CoOK'
  BY <1>0, <1>1, <1>2, SourceKept
<1>5. toml' \in {toml, WithStagedRunner, [toml EXCEPT !.inputs = @ \cup {"includes"}]}
  BY DEF StageRunner, RefreshInputs, Reach, RepairInputs, RequireRoute
<1>6. toml' \in TomlFiles /\ toml'.sys = toml.sys /\ toml'.bins = toml.bins
      /\ (toml'.runner = toml.runner \/ toml'.runner = "staged")
  BY <1>1, <1>5 DEF WithStagedRunner, TomlFiles
<1>7. \/ \E s \in {"ok", "failed"} : Ends(s)
      \/ \E p \in {"includes", "reach", "inputs", "route"} : Go(p)
      \/ Go("runner") /\ AsksForRunner /\ toml'.runner = toml.runner
  <2>1. RefreshInputs => toml'.runner = toml.runner
    BY <1>1 DEF RefreshInputs, TomlFiles
  <2> QED BY <2>1 DEF StageRunner, RefreshInputs, Reach, RepairInputs, RequireRoute, Fail
<1>8. CASE \E s \in {"ok", "failed"} : Ends(s)
  <2>1. JobOK' /\ job' = NoSetup
    BY <1>8, EndsTyped
  <2> QED BY <2>1, <1>3, <1>4, <1>6, Ended, SetupTypeParts DEF SetupInv
<1>9. ASSUME NEW p \in Closing, Go(p),
             p = "runner" /\ toml'.runner \in {"own", "model"} => With("force") /\ ~With("build")
      PROVE  SetupInv'
  <2>1. p \in Stages
    BY DEF Closing, Stages
  <2>2. JobOK' /\ job' \in Jobs /\ job'.at = p /\ Rest(job, job')
    BY <1>1, <1>9, <2>1, Moves, GoTyped
  <2>3. StageInv' /\ WholeInv' /\ MadeInv' /\ DoneInv'
    BY <1>0, <1>2, <1>6, <1>9, <2>2, ClosingOn
  <2> QED BY <2>2, <2>3, <1>3, <1>4, <1>6, SetupTypeParts DEF SetupInv
<1>10. CASE \E p \in {"includes", "reach", "inputs", "route"} : Go(p)
  BY <1>6, <1>9, <1>10 DEF Closing
<1>11. CASE Go("runner") /\ AsksForRunner /\ toml'.runner = toml.runner
  BY <1>6, <1>9, <1>11 DEF Closing, AsksForRunner
<1> QED BY <1>7, <1>8, <1>10, <1>11

-----------------------------------------------------------------------------
(* From outside *)

LEMMA BeginStep ==
    ASSUME SetupConstants, SetupInv, NEW o \in OptionSets, Begin(o)
    PROVE  SetupInv'
<1>1. /\ SetupTypeOK /\ WorldOK /\ CoOK /\ BuiltOK /\ toml \in TomlFiles /\ CheckoutInv /\ ToolsAreWhole
  BY SetupTypeParts DEF SetupInv
<1>2. UNCHANGED <<kind, able, head, co, recipe, tree, lib, tools, staged, toml, busy, odd>>
  BY DEF Begin
<1>3. Enabled \in Seq(All)
  BY <1>1, KindFacts DEF WorldOK
<1>4. job' \in Jobs
  <2>1. o \in SUBSET ((UNION OptionSets) \cup {"build"})
    OBVIOUS
  <2>2. odd \in Nat /\ NoRecipe \in Recipes /\ "source" \in Stages /\ (co.subs # co.rev) \in BOOLEAN
    BY <1>1 DEF WorldOK, NoRecipe, Recipes, Stages
  <2> DEFINE m == co.subs # co.rev
  <2>3. job' = [at |-> "source", opt |-> o, full |-> FALSE, asked |-> 0, todo |-> Enabled,
                rec |-> NoRecipe, errors |-> {}, made |-> {}, shared |-> {}, kept |-> {}, forced |-> FALSE,
                mixed |-> m, odd |-> odd]
    BY DEF Begin
  <2> HIDE DEF m
  <2>4. m \in BOOLEAN
    BY DEF m
  <2> QED BY <1>3, <2>1, <2>2, <2>3, <2>4 DEF Jobs
<1>5. /\ job'.at = "source" /\ job'.todo = Enabled /\ job'.made = {} /\ ~job'.forced
      /\ (job'.mixed <=> co.subs # co.rev) /\ job'.odd = odd
  BY DEF Begin
<1>6. WorldOK' /\ BuiltOK' /\ ToolsAreWhole' /\ toml' \in TomlFiles /\ CheckoutInv'
  BY <1>1, <1>2, Zenon DEF WorldOK, BuiltOK, ToolsAreWhole, CheckoutInv
<1>7. CoOK' /\ JobOK'
  BY <1>1, <1>2, <1>4, <1>5 DEF CoOK, JobOK, Begin
<1>8. StageInv' /\ MadeInv' /\ DoneInv'
  BY <1>2, <1>5 DEF StageInv, MadeInv, DoneInv, Early, Making, Closing, Enabled
<1>9. WholeInv'
  BY <1>1, <1>2, <1>5 DEF WholeInv, WorldOK
<1> QED BY <1>6, <1>7, <1>8, <1>9, SetupTypeParts DEF SetupInv

LEMMA CutOffStep ==
    ASSUME SetupConstants, SetupInv, CutOff
    PROVE  SetupInv'
<1>1. /\ SetupTypeOK /\ WorldOK /\ CoOK /\ BuiltOK /\ toml \in TomlFiles /\ CheckoutInv /\ ToolsAreWhole
      /\ StageInv /\ job \in Jobs
  BY SetupTypeParts, AtWork DEF SetupInv, CutOff
<1>2. UNCHANGED <<kind, able, head, co, recipe, lib, busy, runs>> /\ odd' = odd + 1 /\ job' = NoSetup
      /\ status' = "killed"
  BY DEF CutOff, Odd
<1>3. toml' \in TomlFiles
  <2>1. Blank("invalid") \in TomlFiles
    BY DEF Blank, TomlFiles
  <2>2. toml' \in {toml, Blank("invalid")}
    BY DEF CutOff
  <2> QED BY <1>1, <2>1, <2>2
<1>4. tree' \in [All -> Trees \cup {NoTree}]
  <2>1. tree \in [All -> Trees \cup {NoTree}]
    BY <1>1 DEF BuiltOK
  <2>2. tree' \in {tree, [tree EXCEPT ![Head(job.todo)] = NoTree]}
    BY DEF CutOff
  <2> QED BY <2>1, <2>2
<1>5. staged' \in BOOLEAN
  BY <1>1 DEF CutOff, BuiltOK
<1>6. tools' \in [whole : BOOLEAN, of : Nat] /\ ToolsAreWhole'
  <2>1. tools \in [whole : BOOLEAN, of : Nat]
    BY <1>1 DEF BuiltOK
  <2>2. CASE tools' = [whole |-> FALSE, of |-> 0]
    BY <2>2 DEF ToolsAreWhole
  <2>3. CASE tools' = tools
    BY <2>1, <2>3, <1>1 DEF ToolsAreWhole
  <2> QED BY <2>2, <2>3 DEF CutOff
<1>7. WorldOK'
  BY <1>1, <1>2 DEF WorldOK
<1>8. BuiltOK'
  BY <1>1, <1>2, <1>4, <1>5, <1>6, Zenon DEF BuiltOK
<1>9. CoOK' /\ CheckoutInv' /\ JobOK'
  BY <1>1, <1>2 DEF CoOK, CheckoutInv, JobOK
<1> QED BY <1>2, <1>3, <1>6, <1>7, <1>8, <1>9, Ended, SetupTypeParts DEF SetupInv

\* What happens outside of setups leaves the job as it is, and what is odd is counted.
LEMMA OutsideOn ==
    ASSUME SetupInv, UNCHANGED <<kind, recipe, lib, job, status, tools>>, odd' \in {odd, odd + 1},
           co'.subs = co.subs, co'.rev = co.rev, toml'.sys = toml.sys, toml'.bins = toml.bins, toml' = toml \/ job = NoSetup,
           \A s \in All : tree[s] # NoTree => tree'[s] # NoTree,
           odd' = odd => co' = co /\ tree' = tree
    PROVE  StageInv' /\ WholeInv' /\ MadeInv' /\ DoneInv' /\ ToolsAreWhole'
<1>1. SetupTypeOK /\ StageInv /\ WholeInv /\ MadeInv /\ DoneInv /\ ToolsAreWhole /\ odd \in Nat
  BY DEF SetupInv, SetupTypeOK
<1>2. CASE job = NoSetup
  BY <1>1, <1>2, Ended DEF ToolsAreWhole
<1>3. CASE job # NoSetup
  <2>1. job \in Jobs /\ toml' = toml /\ job' # NoSetup
    BY <1>1, <1>3, AtWork
  <2>2. job.odd \in Nat /\ job.made \subseteq All
    BY <2>1 DEF Jobs
  <2>3. job.odd <= odd
    BY <1>1, <1>3 DEF WholeInv
  <2>4. Builds' = Builds
    BY <2>1 DEF Builds, Applies
  <2>5. StageInv' /\ ToolsAreWhole'
    BY <1>1, <2>1 DEF StageInv, With, Enabled, ToolsAreWhole
  <2>6. WholeInv'
    <3>1. job.odd <= odd'
      BY <2>2, <2>3, <1>1
    <3> QED BY <3>1, <1>1, <1>3 DEF WholeInv, With
  <2>7. MadeInv'
    BY <1>1, <1>3, <2>1, <2>2, <2>4 DEF MadeInv, Applies
  <2>8. DoneInv'
    <3>1. CASE odd' = odd
      BY <3>1, <1>1, <2>1, <2>4 DEF DoneInv, With, Enabled, Accounted, Source
    <3>2. CASE odd' # odd
      <4>1. job'.odd # odd'
        BY <3>2, <1>1, <2>2, <2>3
      <4> QED BY <4>1 DEF DoneInv
    <3> QED BY <3>1, <3>2
  <2> QED BY <2>5, <2>6, <2>7, <2>8
<1> QED BY <1>2, <1>3

LEMMA OutsideStep ==
    ASSUME SetupConstants, SetupInv, Outside
    PROVE  SetupInv'
<1>1. /\ SetupTypeOK /\ WorldOK /\ CoOK /\ BuiltOK /\ toml \in TomlFiles /\ CheckoutInv /\ JobOK
      /\ odd \in Nat /\ odd + 1 \in Nat
  BY SetupTypeParts DEF SetupInv, WorldOK
<1>2. CASE CutOff
  BY <1>2, CutOffStep
<1>3. CASE Push
  <2>1. WorldOK' /\ BuiltOK' /\ toml' \in TomlFiles /\ CheckoutInv' /\ JobOK' /\ CoOK'
    BY <1>1, <1>3 DEF Push, WorldOK, BuiltOK, CheckoutInv, JobOK, CoOK
  <2>2. job' = NoSetup /\ ToolsAreWhole'
    BY <1>3 DEF Push, SetupInv, ToolsAreWhole
  <2> QED BY <2>1, <2>2, Ended, SetupTypeParts DEF SetupInv
<1>4. CASE EditSource
  <2>1. UNCHANGED <<kind, able, head, recipe, tree, lib, tools, staged, toml, busy, job, status, runs>>
        /\ odd' = odd + 1 /\ co' = [co EXCEPT !.edits = TRUE] /\ co.is \in {"git", "plain"}
    BY <1>4 DEF EditSource, Odd
  <2>2. WorldOK' /\ BuiltOK' /\ toml' \in TomlFiles /\ JobOK'
    BY <1>1, <2>1, Zenon DEF WorldOK, BuiltOK, JobOK
  <2>3. /\ co' \in [is : {"none", "git", "plain", "half", "junk"}, rev : Nat, subs : Nat, edits : BOOLEAN]
        /\ co'.is = co.is /\ co'.rev = co.rev /\ co'.subs = co.subs
    BY <1>1, <2>1 DEF CoOK
  <2>4. CoOK' /\ CheckoutInv'
    BY <1>1, <2>1, <2>3 DEF CoOK, CheckoutInv
  <2>5. StageInv' /\ WholeInv' /\ MadeInv' /\ DoneInv' /\ ToolsAreWhole'
    BY <1>1, <2>1, <2>3, OutsideOn
  <2> QED BY <2>2, <2>4, <2>5, SetupTypeParts DEF SetupInv
<1>5. CASE Curate
  <2>1. UNCHANGED <<kind, able, head, co, recipe, tree, lib, tools, staged, busy, job, status, runs>>
        /\ odd' = odd + 1 /\ job = NoSetup
        /\ \/ toml' = [toml EXCEPT !.threat = "own", !.peers = "own"]
           \/ toml' = [toml EXCEPT !.text = "placeholders"]
           \/ toml' = [toml EXCEPT !.runner = "own"]
    BY <1>5 DEF Curate, Odd
  <2>2. toml' \in TomlFiles
    BY <1>1, <2>1 DEF TomlFiles
  <2>3. WorldOK' /\ BuiltOK' /\ JobOK' /\ CoOK' /\ CheckoutInv'
    BY <1>1, <2>1, Zenon DEF WorldOK, BuiltOK, JobOK, CoOK, CheckoutInv
  <2>4. job' = NoSetup /\ ToolsAreWhole'
    BY <2>1 DEF SetupInv, ToolsAreWhole
  <2> QED BY <2>2, <2>3, <2>4, Ended, SetupTypeParts DEF SetupInv
<1>6. ASSUME NEW s \in All, Break(s) PROVE SetupInv'
  <2>1. UNCHANGED <<kind, able, head, co, recipe, lib, tools, staged, toml, busy, job, status, runs>>
        /\ odd' = odd + 1 /\ tree[s] # NoTree /\ tree' = [tree EXCEPT ![s].runs = FALSE]
    BY <1>6 DEF Break, Odd
  <2>2. tree \in [All -> Trees \cup {NoTree}]
    BY <1>1 DEF BuiltOK
  <2>3. tree[s] \in Trees
    BY <2>1, <2>2
  <2>4. [tree[s] EXCEPT !.runs = FALSE] \in Trees
    BY <2>3 DEF Trees
  <2>5. tree' = [tree EXCEPT ![s] = [tree[s] EXCEPT !.runs = FALSE]]
    BY <2>1
  <2>6. tree' \in [All -> Trees \cup {NoTree}] /\ \A x \in All : tree[x] # NoTree => tree'[x] # NoTree
    BY <2>2, <2>4, <2>5, TreesAreTrees
  <2>7. WorldOK' /\ BuiltOK' /\ JobOK' /\ CoOK' /\ CheckoutInv' /\ toml' \in TomlFiles
    BY <1>1, <2>1, <2>6, Zenon DEF WorldOK, BuiltOK, JobOK, CoOK, CheckoutInv
  <2>8. StageInv' /\ WholeInv' /\ MadeInv' /\ DoneInv' /\ ToolsAreWhole'
    BY <1>1, <2>1, <2>6, OutsideOn
  <2> QED BY <2>7, <2>8, SetupTypeParts DEF SetupInv
<1>7. ASSUME NEW x \in All \cup {"runner"}, Use(x) \/ Leave(x) PROVE SetupInv'
  <2>1. UNCHANGED <<kind, able, head, co, recipe, tree, lib, tools, staged, toml, job, status, runs>>
        /\ odd' \in {odd, odd + 1} /\ busy' \in {busy \cup {x}, busy \ {x}}
    BY <1>7 DEF Use, Leave, Odd
  <2>2. busy' \subseteq All \cup {"runner"} /\ odd' \in Nat
    BY <1>1, <2>1 DEF BuiltOK
  <2>3. WorldOK' /\ BuiltOK' /\ JobOK' /\ CoOK' /\ CheckoutInv' /\ toml' \in TomlFiles
    BY <1>1, <2>1, <2>2, Zenon DEF WorldOK, BuiltOK, JobOK, CoOK, CheckoutInv
  <2>4. StageInv' /\ WholeInv' /\ MadeInv' /\ DoneInv' /\ ToolsAreWhole'
    BY <1>1, <2>1, OutsideOn
  <2> QED BY <2>3, <2>4, SetupTypeParts DEF SetupInv
<1> QED BY <1>2, <1>3, <1>4, <1>5, <1>6, <1>7 DEF Outside

-----------------------------------------------------------------------------
(* What no step does *)

\* The steps that touch the file, the trees, the recipes, the snapshot and the checkout.
LEMMA WhoTouches ==
    ASSUME SetupNext
    PROVE  /\ \/ UNCHANGED toml \/ SeedConfig \/ HelperAnswers \/ LanguageBuild \/ RefreshFields
              \/ StageRunner \/ RefreshInputs \/ RepairInputs \/ CutOff \/ Curate
           /\ UNCHANGED tree \/ Build \/ Repair \/ CutOff \/ \E s \in All : Break(s)
           /\ UNCHANGED recipe \/ SeedRecipe \/ Build \/ Repair
           /\ UNCHANGED lib \/ LanguageBuild
           /\ UNCHANGED co \/ PrepareSource \/ PrepareGclient \/ SyncSubmodules \/ EditSource
<1>1. CASE \E o \in OptionSets : Begin(o)
  BY <1>1 DEF Begin
<1>2. CASE Outside
  BY <1>2 DEF Outside, CutOff, Push, EditSource, Curate, Break, Use, Leave
<1>3. CASE PrepareSource \/ PrepareGclient \/ SyncSubmodules
  BY <1>3 DEF PrepareSource, PrepareGclient, SyncSubmodules, SameButSource
<1>4. CASE SeedRecipe \/ InstallTools \/ StampTools \/ LanguageBuild
  BY <1>4 DEF SeedRecipe, InstallTools, StampTools, LanguageBuild
<1>5. CASE SeedConfig \/ HelperAnswers \/ HelperDeclines \/ HelperUnavailable
  BY <1>5 DEF SeedConfig, HelperAnswers, HelperDeclines, HelperUnavailable, SameButToml
<1>6. CASE ChooseRecipe \/ Build \/ Repair
  BY <1>6 DEF ChooseRecipe, Build, Repair, SameButBuilds
<1>7. CASE RefreshFields \/ StageRunner \/ RefreshInputs \/ Reach \/ RepairInputs \/ RequireRoute
  BY <1>7 DEF RefreshFields, StageRunner, RefreshInputs, Reach, RepairInputs, RequireRoute, SameButToml
<1> QED BY <1>1, <1>2, <1>3, <1>4, <1>5, <1>6, <1>7 DEF SetupNext, SetupSteps

LEMMA CutOffKills ==
    ASSUME SetupInv, CutOff
    PROVE  Killed
BY DEF SetupInv, SetupTypeOK, CutOff, Odd, Killed

\* A build touches the tree and the recipe of the sanitizer at hand, or neither.
LEMMA BuildTouches ==
    ASSUME SetupInv, Build \/ Repair
    PROVE  /\ job # NoSetup /\ job.at \in {"build", "repair"} /\ With("build") /\ Head(job.todo) \in All
           /\ SameButBuilds /\ BuiltOK /\ CoOK
           /\ UNCHANGED <<recipe, tree>> \/ \E r : Built(Head(job.todo), r)
<1>1. job # NoSetup /\ job.at \in {"build", "repair"} /\ job.at \in Making
  BY DEF Build, Repair, At, Making
<1>2. Head(job.todo) \in All /\ StageInv /\ BuiltOK /\ CoOK
  BY <1>1, MakingFacts
<1>3. With("build") /\ SameButBuilds
  BY <1>1, <1>2 DEF StageInv, Build, Repair
<1>4. UNCHANGED <<recipe, tree>> \/ \E r : Built(Head(job.todo), r)
  <2>1. CASE Build
    BY <2>1 DEF Build
  <2>2. CASE Repair
    BY <2>2 DEF Repair
  <2> QED BY <2>1, <2>2
<1> QED BY <1>1, <1>2, <1>3, <1>4

LEMMA CuratedStep ==
    ASSUME SetupConstants, SetupInv, SetupNext
    PROVE  CuratedKept
<1> SUFFICES ASSUME ~Killed
             PROVE  /\ toml.threat = "own" /\ toml'.threat # "own" => job.at = "threat" /\ job.full /\ ~With("no-llm-config")
                    /\ toml.peers = "own" /\ toml'.peers # "own" => job.at = "peers" /\ With("force")
                    /\ toml.runner = "own" /\ toml'.runner # "own" => job.at = "runner" /\ With("force") /\ ~With("build")
  BY Zenon DEF CuratedKept
<1>0. toml \in TomlFiles /\ SetupTypeOK /\ StageInv
  BY SetupTypeParts DEF SetupInv
<1>1. CASE UNCHANGED toml
  BY <1>1
<1>2. CASE SeedConfig \/ LanguageBuild
  <2>1. job # NoSetup /\ job.at \in Early \ {"source", "subs"} /\ toml' \in {toml, Seeded}
    BY <1>2 DEF SeedConfig, LanguageBuild, At, Early
  <2>2. co.rev \in DOMAIN Systems
    BY <2>1, ConfigFacts
  <2> QED BY <2>1, <2>2, <1>0, SeededTyped
<1>3. CASE HelperAnswers
  <2>1. job # NoSetup /\ job.at \in {"threat", "peers", "runner"} /\ toml' \in Suggested
    BY <1>3 DEF HelperAnswers, Helping
  <2> QED BY <2>1, <1>0, SuggestedTyped DEF StageInv
<1>4. CASE RefreshFields
  BY <1>0, <1>4 DEF RefreshFields, TomlFiles
<1>5. CASE StageRunner \/ RefreshInputs \/ RepairInputs
  <2>1. toml' \in {toml, WithStagedRunner, [toml EXCEPT !.inputs = @ \cup {"includes"}]}
    BY <1>5 DEF StageRunner, RefreshInputs, RepairInputs
  <2> QED BY <2>1, <1>0 DEF WithStagedRunner, TomlFiles
<1>6. CASE CutOff
  BY <1>6, CutOffKills
<1>7. CASE Curate
  BY <1>0, <1>7 DEF Curate, TomlFiles
<1> QED BY <1>1, <1>2, <1>3, <1>4, <1>5, <1>6, <1>7, WhoTouches

LEMMA RecipesStep ==
    ASSUME SetupConstants, SetupInv, SetupNext
    PROVE  RecipesAreProved
<1>1. CASE UNCHANGED recipe
  BY <1>1 DEF RecipesAreProved
<1>2. CASE SeedRecipe
  <2>1. Enabled[1] \in All /\ recipe \in [All -> Recipes]
    BY KindFacts DEF SetupInv, SetupTypeOK
  <2>2. \/ recipe' = recipe
        \/ /\ recipe' = [recipe EXCEPT ![Enabled[1]] = [by |-> "overlay", sys |-> 0]]
           /\ recipe[Enabled[1]] = NoRecipe \/ With("force")
    BY <1>2 DEF SeedRecipe
  <2> QED BY <2>1, <2>2 DEF RecipesAreProved
<1>3. CASE Build \/ Repair
  <2> DEFINE h == Head(job.todo)
  <2>1. CASE UNCHANGED <<recipe, tree>>
    BY <2>1 DEF RecipesAreProved
  <2>2. CASE \E r : Built(h, r)
    <3>1. PICK r : Built(h, r)
      BY <2>2
    <3>2. h \in All /\ BuiltOK /\ CoOK
      BY <1>3, BuildTouches
    <3>3. [src |-> {Source}, rec |-> r, runs |-> TRUE] # NoTree
      BY DEF NoTree
    <3>4. /\ tree' = [tree EXCEPT ![h] = [src |-> {Source}, rec |-> r, runs |-> TRUE]]
          /\ recipe' = [recipe EXCEPT ![h] = r] /\ tree \in [All -> Trees \cup {NoTree}] /\ recipe \in [All -> Recipes]
      BY <3>1, <3>2 DEF Built, BuiltOK
    <3> HIDE DEF h
    <3>5. \A s \in All : recipe'[s] # recipe[s] => s = h
      BY <3>4
    <3>6. tree'[h] = [src |-> {Source}, rec |-> r, runs |-> TRUE] /\ recipe'[h] = r
      BY <3>2, <3>4
    <3> QED BY <3>3, <3>5, <3>6 DEF RecipesAreProved
  <2> QED BY <1>3, <2>1, <2>2, BuildTouches
<1> QED BY <1>1, <1>2, <1>3, WhoTouches

\* What a step makes of a tree: that of this source, or nothing on a kill, or one
\* that no longer starts.
LEMMA TreeChanges ==
    ASSUME SetupConstants, SetupInv, SetupNext, NEW s \in All, tree'[s] # tree[s]
    PROVE  \/ /\ Build \/ Repair
              /\ s = Head(job.todo) /\ s \notin busy /\ tree'[s] # NoTree /\ tree'[s].src = {Source}
           \/ CutOff /\ s \notin busy /\ tree'[s] = NoTree
           \/ tree'[s] # NoTree /\ ~tree'[s].runs /\ tree'[s].src = tree[s].src
<1>0. tree \in [All -> Trees \cup {NoTree}]
  BY DEF SetupInv, SetupTypeOK
<1> DEFINE h == Head(job.todo)
<1>1. CASE Build \/ Repair
  <2>1. PICK r : Built(h, r)
    BY <1>1, BuildTouches
  <2>2. h \in All
    BY <1>1, BuildTouches
  <2>3. [src |-> {Source}, rec |-> r, runs |-> TRUE] # NoTree
    BY DEF NoTree
  <2>4. tree' = [tree EXCEPT ![h] = [src |-> {Source}, rec |-> r, runs |-> TRUE]] /\ h \notin busy
    BY <2>1 DEF Built, Held
  <2> HIDE DEF h
  <2>5. s = h
    BY <2>4, <1>0
  <2>6. tree'[h] = [src |-> {Source}, rec |-> r, runs |-> TRUE]
    BY <2>2, <2>4, <1>0
  <2> QED BY <1>1, <2>3, <2>4, <2>5, <2>6 DEF h
<1>2. CASE CutOff
  <2>1. tree' = [tree EXCEPT ![h] = NoTree] /\ h \notin busy
    BY <1>2 DEF CutOff
  <2> HIDE DEF h
  <2>2. s = h
    BY <2>1, <1>0
  <2>3. tree'[s] = NoTree
    BY <2>1, <2>2, <1>0
  <2> QED BY <1>2, <2>1, <2>2, <2>3
<1>3. ASSUME NEW x \in All, Break(x)
      PROVE  tree'[s] # NoTree /\ ~tree'[s].runs /\ tree'[s].src = tree[s].src
  <2>1. tree[x] \in Trees /\ tree' = [tree EXCEPT ![x] = [tree[x] EXCEPT !.runs = FALSE]]
    BY <1>0, <1>3 DEF Break
  <2>2. [tree[x] EXCEPT !.runs = FALSE] \in Trees /\ ~[tree[x] EXCEPT !.runs = FALSE].runs
        /\ [tree[x] EXCEPT !.runs = FALSE].src = tree[x].src
    BY <2>1 DEF Trees
  <2>3. s = x /\ tree'[s] = [tree[x] EXCEPT !.runs = FALSE]
    BY <2>1, <1>0
  <2> QED BY <2>2, <2>3, TreesAreTrees
<1> QED BY <1>1, <1>2, <1>3, WhoTouches

LEMMA InUseStep ==
    ASSUME SetupConstants, SetupInv, SetupNext
    PROVE  InUseIsKept
<1>1. ASSUME NEW s \in All, tree'[s] # tree[s], tree'[s] = NoTree \/ tree'[s].runs
      PROVE  s \notin busy /\ (tree'[s] = NoTree => Killed)
  BY <1>1, TreeChanges, CutOffKills
<1>2. lib' # lib /\ toml.runner = "driver" => "runner" \notin busy
  <2>1. lib' # lib => LanguageBuild
    BY WhoTouches
  <2> QED BY <2>1 DEF LanguageBuild
<1> QED BY <1>1, <1>2 DEF InUseIsKept

LEMMA CheckoutStep ==
    ASSUME SetupConstants, SetupInv, SetupNext
    PROVE  OneCheckout
<1> SUFFICES ASSUME NEW s \in All, tree'[s].src # tree[s].src, ~job.forced, ~(kind = "browser" /\ job.mixed),
                    NEW x \in tree'[s].src
             PROVE  x.subs = x.rev
  BY DEF OneCheckout
<1>1. tree'[s] # NoTree
  BY DEF NoTree
<1>2. (Build \/ Repair) /\ tree'[s].src = {Source}
  BY <1>1, TreeChanges
<1>3. job # NoSetup /\ job.at \in {"build", "repair"} /\ With("build") /\ WholeInv
  BY <1>2, BuildTouches DEF SetupInv
<1>4. co.subs = co.rev
  BY <1>3 DEF WholeInv
<1> QED BY <1>2, <1>4 DEF Source

LEMMA EditsStep ==
    ASSUME SetupConstants, SetupInv, SetupNext
    PROVE  EditsKept
<1> SUFFICES ASSUME co.edits PROVE co'.rev = co.rev /\ co'.edits
  BY Zenon DEF EditsKept
<1>0. co.is \in {"git", "plain"} /\ SourceOf(co) /\ ~Updates
  BY SetupTypeParts DEF SetupInv, CheckoutInv, CoOK, SourceOf, Updates
<1>1. CASE PrepareSource \/ PrepareGclient
  <2>1. co' = co
    BY <1>0, <1>1 DEF PrepareSource, PrepareGclient
  <2> QED BY <2>1
<1>2. CASE SyncSubmodules
  BY <1>0, <1>2 DEF SyncSubmodules, SourceOf
<1>3. CASE EditSource
  BY <1>3 DEF EditSource
<1> QED BY <1>1, <1>2, <1>3, WhoTouches

\* A setup ends on a failure before the builds, at the fields or on the route, and
\* well only on the last.
LEMMA Endings ==
    ASSUME SetupConstants, SetupInv, SetupNext, job # NoSetup, job' = NoSetup, ~CutOff
    PROVE  /\ \/ job.at \in Early
              \/ RefreshFields
              \/ StageRunner \/ RefreshInputs \/ Reach \/ RepairInputs \/ RequireRoute
           /\ status' = "ok" => RequireRoute
<1>0. job \in Jobs
  BY AtWork DEF SetupInv
<1>1. DOMAIN job' # DOMAIN job
  BY <1>0 DEF Jobs, NoSetup
<1>2. /\ \A p : ~Go(p)
      /\ \A j : DOMAIN j = DOMAIN job => ~Later(j)
  BY <1>1 DEF Go, Later, Next1
<1>3. ~\E o \in OptionSets : Begin(o)
  BY DEF Begin
<1>4. ~Outside
  BY DEF Outside, Push, EditSource, Curate, Break, Use, Leave
<1>5. SetupSteps
  BY <1>3, <1>4 DEF SetupNext
<1>6. ~(ChooseRecipe \/ Build \/ Repair)
  <2>1. ~ChooseRecipe
    BY <1>1, <1>2 DEF ChooseRecipe, Erred
  <2>2. ~Build
    BY <1>1, <1>2 DEF Build, Erred
  <2>3. ~Repair
    BY <1>1, <1>2 DEF Repair, Erred
  <2> QED BY <2>1, <2>2, <2>3
<1>7. ~(HelperAnswers \/ HelperDeclines \/ HelperUnavailable)
  BY <1>1 DEF HelperAnswers, HelperDeclines, HelperUnavailable
<1>8. ~SeedConfig /\ ~SeedRecipe /\ ~StampTools
  BY <1>1, <1>2 DEF SeedConfig, SeedRecipe, StampTools
<1>9. CASE PrepareSource \/ PrepareGclient \/ SyncSubmodules \/ InstallTools \/ LanguageBuild
  <2>1. job.at \in Early
    BY <1>9 DEF PrepareSource, PrepareGclient, SyncSubmodules, InstallTools, LanguageBuild, At, Early
  <2>2. Fail
    <3>1. CASE PrepareSource
      BY <1>2, <3>1 DEF PrepareSource, Sync, Obtain
    <3>2. CASE PrepareGclient
      BY <1>2, <3>2 DEF PrepareGclient
    <3>3. CASE SyncSubmodules
      BY <1>2, <3>3 DEF SyncSubmodules
    <3>4. CASE InstallTools
      BY <1>2, <3>4 DEF InstallTools
    <3>5. CASE LanguageBuild
      BY <1>1, <1>2, <3>5 DEF LanguageBuild
    <3> QED BY <1>9, <3>1, <3>2, <3>3, <3>4, <3>5
  <2> QED BY <2>1, <2>2 DEF Fail, Ends
<1>10. CASE RefreshFields \/ StageRunner \/ RefreshInputs \/ Reach \/ RepairInputs
  <2>1. Fail
    BY <1>2, <1>10 DEF RefreshFields, StageRunner, RefreshInputs, Reach, RepairInputs
  <2> QED BY <1>10, <2>1 DEF Fail, Ends
<1> QED BY <1>5, <1>6, <1>7, <1>8, <1>9, <1>10 DEF SetupSteps

LEMMA BuiltStep ==
    ASSUME SetupConstants, SetupInv, SetupNext
    PROVE  BuiltIsNamed
<1> SUFFICES ASSUME job # NoSetup, job' = NoSetup, ~Killed, kind # "package"
             PROVE  job.made \subseteq toml'.bins
  BY DEF BuiltIsNamed
<1>1. ~CutOff /\ StageInv /\ MadeInv
  BY CutOffKills DEF SetupInv
<1>2. CASE job.at \in Early
  BY <1>1, <1>2 DEF StageInv
<1>3. CASE RefreshFields
  BY <1>3, FieldsStep
<1>4. CASE StageRunner \/ RefreshInputs \/ Reach \/ RepairInputs \/ RequireRoute
  <2>1. job.at \in Closing
    BY <1>4 DEF StageRunner, RefreshInputs, Reach, RepairInputs, RequireRoute, At, Closing
  <2> QED BY <1>1, <1>4, <2>1, RouteStep DEF MadeInv
<1> QED BY <1>1, <1>2, <1>3, <1>4, Endings

LEMMA UsableStep ==
    ASSUME SetupConstants, SetupInv, SetupNext
    PROVE  SuccessIsUsable
<1> SUFFICES ASSUME job # NoSetup, status' = "ok", job' = NoSetup, With("build"), job.odd = odd
             PROVE  /\ Builds => \A s \in Range(Enabled) \ job.shared :
                                    tree[s].src = {Source} /\ (tree[s].runs \/ s \in job.kept)
                    /\ kind = "language" => lib = {Source}
                    /\ job.full => toml.runner # "none" \/ toml.bins # {}
  BY DEF SuccessIsUsable
<1>1. RequireRoute /\ DoneInv
  <2>1. ~CutOff
    BY DEF CutOff
  <2> QED BY <2>1, Endings DEF SetupInv
<1>2. job.at = "route" /\ job.at \notin Early /\ job.at \in Closing
  BY <1>1 DEF RequireRoute, At, Early, Closing
<1>3. kind = "language" => lib = {Source}
  BY <1>1, <1>2 DEF DoneInv
<1>4. ASSUME Builds, NEW s \in Range(Enabled) \ job.shared
      PROVE  tree[s].src = {Source} /\ (tree[s].runs \/ s \in job.kept)
  <2>1. job.todo = <<>> /\ job.errors = {} /\ Accounted(s)
    BY <1>1, <1>2, <1>4 DEF DoneInv
  <2>2. Range(<<>>) = {}
    BY DEF Range
  <2> QED BY <1>4, <2>1, <2>2 DEF Accounted
<1>5. job.full => toml.runner # "none" \/ toml.bins # {}
  BY <1>1 DEF RequireRoute, Fail, Ends
<1> QED BY <1>3, <1>4, <1>5

-----------------------------------------------------------------------------
(* The theorems *)

LEMMA SetupInvInit == SetupConstants /\ SetupInit => SetupInv
<1> SUFFICES ASSUME SetupConstants, SetupInit PROVE SetupInv
  OBVIOUS
<1>1. kind \in TargetKinds /\ job = NoSetup
  BY DEF SetupInit
<1>2. Enabled \in Seq(All) /\ Enabled[1] \in All /\ Range(Enabled) \subseteq All
  BY <1>1, KindFacts
<1>3. WorldOK
  <2>1. 1 \in DOMAIN Systems
    BY DEF SetupConstants
  <2> QED BY <1>2, <2>1 DEF SetupInit, WorldOK
<1>4. CoOK /\ CheckoutInv
  BY DEF SetupInit, CoOK, CheckoutInv
<1>5. BuiltOK
  <2>1. recipe \in [All -> Recipes]
    <3>1. NoRecipe \in Recipes /\ [by |-> "own", sys |-> 0] \in Recipes
      BY DEF NoRecipe, Recipes
    <3> QED BY <3>1 DEF SetupInit
  <2>2. tree \in [All -> Trees \cup {NoTree}]
    BY DEF SetupInit
  <2> QED BY <2>1, <2>2 DEF SetupInit, BuiltOK
<1>6. toml \in TomlFiles
  BY DEF SetupInit, Blank, TomlFiles
<1>7. JobOK /\ ToolsAreWhole
  BY DEF SetupInit, JobOK, ToolsAreWhole
<1>8. StageInv /\ WholeInv /\ MadeInv /\ DoneInv
  BY <1>1, Zenon DEF StageInv, WholeInv, MadeInv, DoneInv
<1> QED BY <1>3, <1>4, <1>5, <1>6, <1>7, <1>8, SetupTypeParts DEF SetupInv

LEMMA SetupInvStep == SetupConstants /\ SetupInv /\ [SetupNext]_setupVars => SetupInv'
<1> SUFFICES ASSUME SetupConstants, SetupInv, [SetupNext]_setupVars PROVE SetupInv'
  OBVIOUS
<1>1. CASE \E o \in OptionSets : Begin(o)
  BY <1>1, BeginStep
<1>2. CASE SetupSteps
  BY <1>2, SourceStep, OverlayStep, ConfigStep, HelperStep, ToolsStep, LanguageStep, ChooseStep, BuildStep,
     FieldsStep, RouteStep DEF SetupSteps
<1>3. CASE Outside
  BY <1>3, OutsideStep
<1>4. CASE UNCHANGED setupVars
  <2>1. UNCHANGED <<kind, able, head, co, recipe, tree, lib, tools, staged, toml, busy, job, status, runs, odd>>
    BY <1>4 DEF setupVars
  <2>2. SetupTypeOK' /\ CheckoutInv' /\ ToolsAreWhole'
    BY <2>1, Zenon DEF SetupInv, SetupTypeOK, CheckoutInv, ToolsAreWhole
  <2>3. StageInv' /\ WholeInv' /\ MadeInv' /\ DoneInv'
    BY <2>1, OutsideOn
  <2> QED BY <2>2, <2>3 DEF SetupInv
<1> QED BY <1>1, <1>2, <1>3, <1>4 DEF SetupNext

LEMMA SetupInvariance == ASSUME SetupConstants PROVE SetupSpec => []SetupInv
<1>1. SetupInit => SetupInv
  BY SetupInvInit
<1>2. SetupInv /\ [SetupNext]_setupVars => SetupInv'
  BY SetupInvStep
<1> QED BY <1>1, <1>2, PTL DEF SetupSpec

\* bin/setup-target: past the preparation there is a checkout of a revision there is.
THEOREM SetupTypeCorrect == ASSUME SetupConstants PROVE SetupSpec => []SetupTypeOK
<1>1. SetupInv => SetupTypeOK
  BY DEF SetupInv
<1> QED BY <1>1, SetupInvariance, PTL

\* bin/setup-target: whatever kinds of targets, sanitizers, revisions and options,
\* kills, edits and failures: what an operator reviewed, edited or executes is kept,
\* recipes are replaced by proved ones only, a build is of one checkout, what was
\* built is named even if another sanitizer failed, a build that succeeds is usable,
\* and stamped tools are whole.
THEOREM SetupsAreSound ==
    ASSUME SetupConstants
    PROVE  SetupSpec =>
            /\ []ToolsAreWhole
            /\ [][CuratedKept /\ RecipesAreProved /\ InUseIsKept /\ OneCheckout /\ EditsKept
                  /\ BuiltIsNamed /\ SuccessIsUsable]_setupVars
<1>1. SetupInv => ToolsAreWhole
  BY DEF SetupInv
<1>2. SetupInv /\ [SetupNext]_setupVars =>
        [CuratedKept /\ RecipesAreProved /\ InUseIsKept /\ OneCheckout /\ EditsKept
         /\ BuiltIsNamed /\ SuccessIsUsable]_setupVars
  <2> SUFFICES ASSUME SetupInv, SetupNext
               PROVE  CuratedKept /\ RecipesAreProved /\ InUseIsKept /\ OneCheckout /\ EditsKept
                      /\ BuiltIsNamed /\ SuccessIsUsable
    OBVIOUS
  <2> QED BY CuratedStep, RecipesStep, InUseStep, CheckoutStep, EditsStep, BuiltStep, UsableStep
<1> QED BY <1>1, <1>2, SetupInvariance, PTL DEF SetupSpec
=============================================================================
