-------------------------- MODULE WorkQueueProofs --------------------------
(***************************************************************************)
(* For any agents, cards, hypotheses and lease time: next-card and         *)
(* claim-on-adopt steal no lease, and an unexpired grant is the latest row *)
(* of its card unless another party's row covers it; a conclusion of a     *)
(* card was earned, and a mined card is not handed out again.              *)
(***************************************************************************)
EXTENDS WorkQueue, Lanes, FiniteSetTheorems, TLAPS

\* What the proof carries along.
IInv == TypeOK /\ NoStolenLease /\ LeaseAgreement

\* One append keeps the ledger's types.
LEMMA AppendTypes ==
    ASSUME LedgerOK, NEW c \in Cards, NEW st \in RowStatuses \ {"none"},
           NEW ag \in Agents \cup {NoAgent}, NEW src \in Sources,
           AppendRow(c, st, ag, src)
    PROVE  LedgerOK'
<1>1. Row(st, ag, src) \in Rows /\ (Row(st, ag, src).left > 0 => Row(st, ag, src).st = "claimed")
  BY QueueAssumption DEF Row, Rows, RowStatuses
<1>2. latest' \in [Cards -> Rows] /\ \A d \in Cards : latest'[d].left > 0 => latest'[d].st = "claimed"
  BY <1>1 DEF LedgerOK, AppendRow
<1>3. lastTerm' \in [Cards -> Terminal \cup {"none"}]
  BY DEF LedgerOK, AppendRow
<1>4. concl' \in [Cards -> Nat] /\ said' \in [Cards -> Nat]
  BY DEF LedgerOK, AppendRow
<1>5. ownTerm' \in [Cards -> SUBSET (Agents \X Productive)]
  BY DEF LedgerOK, AppendRow
<1>6. covered' \subseteq (Cards \X Sources)
  BY DEF LedgerOK, AppendRow
<1>7. view' \in [Agents -> [Cards -> 0..TTL]]
  BY QueueAssumption DEF LedgerOK, AppendRow, ViewAfter
<1> QED BY <1>2, <1>3, <1>4, <1>5, <1>6, <1>7 DEF LedgerOK

\* One append keeps what agents count on in agreement with the ledger: the
\* holder of the lease it replaces is its own agent, or the append is recorded
\* as covering it.
LEMMA AppendAgrees ==
    ASSUME LedgerOK, LeaseAgreement, NEW c \in Cards, NEW st \in RowStatuses \ {"none"},
           NEW ag \in Agents \cup {NoAgent}, NEW src \in Sources,
           AppendRow(c, st, ag, src)
    PROVE  LeaseAgreement'
<1> SUFFICES ASSUME NEW a \in Agents, NEW d \in Cards, view'[a][d] > 0,
                    ~ \E s \in Sources : <<d, s>> \in covered'
             PROVE  latest'[d].st = "claimed" /\ latest'[d].ag = a
                    /\ latest'[d].left = view'[a][d]
  BY DEF LeaseAgreement
<1>1. ~ \E s \in Sources : <<d, s>> \in covered
  BY DEF AppendRow
<1>2. CASE d # c
  <2>1. view'[a][d] = view[a][d] /\ latest'[d] = latest[d]
    BY <1>2 DEF AppendRow, ViewAfter, LedgerOK
  <2> QED BY <1>1, <2>1 DEF LeaseAgreement
<1>3. CASE d = c
  <2>1. ~Covers(c, ag, src)
    BY <1>3 DEF AppendRow
  <2>2. CASE a = ag /\ src \notin {"accept", "release"}
    <3>1. view'[a][c] = IF st = "claimed" THEN TTL ELSE 0
      BY <2>2 DEF AppendRow, ViewAfter, LedgerOK
    <3>2. latest'[c] = Row(st, ag, src)
      BY DEF AppendRow, LedgerOK
    <3> QED BY <1>3, <2>2, <3>1, <3>2, QueueAssumption DEF Row
  <2>3. CASE ~(a = ag /\ src \notin {"accept", "release"})
    <3>1. view'[a][c] = view[a][c]
      BY <2>3 DEF AppendRow, ViewAfter, LedgerOK
    <3>2. latest[c].st = "claimed" /\ latest[c].ag = a /\ latest[c].left = view[a][c]
      BY <1>1, <1>3, <3>1 DEF LeaseAgreement
    <3>3. Covers(c, ag, src)
      BY <1>3, <2>3, <3>1, <3>2 DEF Covers, ClaimBlocksCard
    <3> QED BY <2>1, <3>3
  <2> QED BY <2>2, <2>3
<1> QED BY <1>2, <1>3

\* An append records only itself as covering a lease, and nothing when the
\* lease it replaces has expired or is its own agent's.
LEMMA AppendCovers ==
    ASSUME NEW c, NEW st, NEW ag, NEW src, AppendRow(c, st, ag, src)
    PROVE  /\ covered' \subseteq (covered \cup {<<c, src>>})
           /\ (/\ ClaimBlocksCard(c) => latest[c].ag = ag
               /\ src \notin {"accept", "release"}) => covered' = covered
BY DEF AppendRow, Covers

\* An append of any source but next-card and adoption keeps the invariants,
\* and so does one of theirs on a card whose lease ended or is the agent's.
LEMMA AppendKeeps ==
    ASSUME LedgerOK, NoStolenLease, LeaseAgreement,
           NEW c \in Cards, NEW st \in RowStatuses \ {"none"},
           NEW ag \in Agents \cup {NoAgent}, NEW src \in Sources,
           AppendRow(c, st, ag, src),
           src \in {"next", "adopt"} => (ClaimBlocksCard(c) => latest[c].ag = ag)
    PROVE  LedgerOK' /\ NoStolenLease' /\ LeaseAgreement'
<1>1. LedgerOK'
  BY AppendTypes
<1>2. LeaseAgreement'
  BY AppendAgrees
<1>3. NoStolenLease'
  BY AppendCovers DEF NoStolenLease
<1> QED BY <1>1, <1>2, <1>3

\* A step that leaves claims.jsonl, its history and the agents' views alone.
LEMMA LedgerUnchanged ==
    ASSUME LedgerOK, NoStolenLease, LeaseAgreement, UNCHANGED ledger
    PROVE  LedgerOK' /\ NoStolenLease' /\ LeaseAgreement'
BY DEF LedgerOK, NoStolenLease, LeaseAgreement, ledger

LEMMA InitInv == Init => IInv
<1> SUFFICES ASSUME Init PROVE IInv
  OBVIOUS
<1>1. LedgerOK
  BY QueueAssumption DEF Init, LedgerOK, Rows, RowStatuses
<1>2. HypsOK
  BY QueueAssumption DEF Init, HypsOK, HypStatuses
<1>3. SessionsOK
  BY DEF Init, SessionsOK, Idle, Pending
<1>4. NoStolenLease /\ LeaseAgreement
  BY DEF Init, NoStolenLease, LeaseAgreement
<1> QED BY <1>1, <1>2, <1>3, <1>4 DEF IInv, TypeOK

\* next-card chooses among cards that are free or the agent's own.
LEMMA OfferFree ==
    ASSUME NEW a \in Agents, NEW c \in Offer(a)
    PROVE  c \in Cards /\ (ClaimBlocksCard(c) => latest[c].ag = a)
BY DEF Offer, Candidates, OwnLease

\* Every step keeps claims.jsonl, its history and the two lease properties.
LEMMA LedgerStep ==
    ASSUME TypeOK, NoStolenLease, LeaseAgreement, [Next]_vars
    PROVE  LedgerOK' /\ NoStolenLease' /\ LeaseAgreement'
<1> USE DEF TypeOK
<1>1. CASE UNCHANGED ledger
  BY <1>1, LedgerUnchanged
<1>2. ASSUME NEW a \in Agents, NextCard(a) PROVE LedgerOK' /\ NoStolenLease' /\ LeaseAgreement'
  <2> PICK c \in Offer(a) : AppendRow(c, "claimed", a, "next")
    BY <1>2 DEF NextCard
  <2> QED BY OfferFree, AppendKeeps DEF RowStatuses, Sources
<1>3. ASSUME NEW a \in Agents, Adopt(a) PROVE LedgerOK' /\ NoStolenLease' /\ LeaseAgreement'
  <2> DEFINE c == pend[a].card
  <2>1. c \in Cards
    BY <1>3 DEF Adopt, SessionsOK
  <2>2. \/ /\ AppendRow(c, "claimed", a, "adopt")
           /\ ClaimBlocksCard(c) => latest[c].ag = a
        \/ UNCHANGED ledger
    BY <1>3 DEF Adopt
  <2> HIDE DEF c
  <2> QED BY <1>1, <2>1, <2>2, AppendKeeps DEF RowStatuses, Sources
<1>4. ASSUME NEW a \in Agents, EnvWrite(a) PROVE LedgerOK' /\ NoStolenLease' /\ LeaseAgreement'
  <2> DEFINE c == pend[a].card
  <2> DEFINE st == IF c \in Broad THEN "discarded" ELSE "blocked"
  <2>1. c \in Cards /\ AppendRow(c, st, a, "env")
    BY <1>4 DEF EnvWrite, SessionsOK
  <2>2. st \in {"discarded", "blocked"}
    OBVIOUS
  <2> HIDE DEF c, st
  <2> QED BY <2>1, <2>2, AppendKeeps DEF RowStatuses, Sources, Terminal
<1>5. ASSUME NEW a \in Agents, NEW c \in Cards, NEW st \in CardStatuses, UpdateCard(a, c, st)
      PROVE  LedgerOK' /\ NoStolenLease' /\ LeaseAgreement'
  BY <1>5, AppendKeeps, QueueAssumption DEF UpdateCard, RowStatuses, Sources, Terminal
<1>6. ASSUME NEW row \in rel, ReleaseAppend(row)
      PROVE  LedgerOK' /\ NoStolenLease' /\ LeaseAgreement'
  <2>1. row.card \in Cards /\ row.ag \in Agents \cup {NoAgent}
        /\ row.st \in RowStatuses \ {"none"}
    BY DEF SessionsOK, ReleaseRows, RowStatuses, Terminal
  <2> QED BY <1>6, <2>1, AppendKeeps DEF ReleaseAppend, Sources
<1>7. ASSUME NEW h \in Hyps, AcceptRecord(h)
      PROVE  LedgerOK' /\ NoStolenLease' /\ LeaseAgreement'
  <2> DEFINE c == hyp[h].card
             g == hyp[h].ag
  <2>1. c \in Cards /\ g \in Agents
    BY <1>7 DEF AcceptRecord, HypsOK
  <2>2. AppendRow(c, "crash", g, "accept") \/ UNCHANGED ledger
    BY <1>7 DEF AcceptRecord
  <2> HIDE DEF c, g
  <2> QED BY <1>1, <2>1, <2>2, AppendKeeps DEF RowStatuses, Sources, Terminal
<1>8. ASSUME NEW a \in Agents, SessionEnd(a) PROVE LedgerOK' /\ NoStolenLease' /\ LeaseAgreement'
  <2>1. view' \in [Agents -> [Cards -> 0..TTL]]
    BY <1>8, QueueAssumption DEF SessionEnd, LedgerOK
  <2>2. LedgerOK' /\ NoStolenLease'
    BY <1>8, <2>1 DEF SessionEnd, LedgerOK, NoStolenLease
  <2>3. \A b \in Agents, c \in Cards : view'[b][c] > 0 => view'[b][c] = view[b][c]
    BY <1>8 DEF SessionEnd, LedgerOK
  <2>4. LeaseAgreement'
    BY <1>8, <2>3 DEF SessionEnd, LeaseAgreement
  <2> QED BY <2>2, <2>4
<1>9. CASE Tick
  <2>1. \A n \in 0..TTL : Less(n) \in 0..TTL /\ (Less(n) > 0 => n > 0)
    BY QueueAssumption DEF Less
  <2>2. \A n \in 0..Grace : Less(n) \in 0..Grace
    BY QueueAssumption DEF Less
  <2>3. \A c \in Cards : /\ latest'[c] \in Rows
                         /\ latest'[c].st = latest[c].st /\ latest'[c].ag = latest[c].ag
                         /\ latest'[c].left = Less(latest[c].left)
    BY <1>9, <2>1, <2>2 DEF Tick, LedgerOK, Rows, AgedRow
  <2>4. latest' \in [Cards -> Rows]
    BY <1>9, <2>3 DEF Tick
  <2>5. \A a \in Agents, c \in Cards : view'[a][c] = Less(view[a][c])
    BY <1>9 DEF Tick
  <2>6. view' \in [Agents -> [Cards -> 0..TTL]]
    BY <1>9, <2>1 DEF Tick, LedgerOK
  <2>7. \A c \in Cards : latest'[c].left > 0 => latest'[c].st = "claimed"
    <3> SUFFICES ASSUME NEW c \in Cards, latest'[c].left > 0 PROVE latest'[c].st = "claimed"
      OBVIOUS
    <3>1. latest[c].left \in 0..TTL
      BY DEF LedgerOK, Rows
    <3> QED BY <2>1, <2>3, <3>1 DEF LedgerOK
  <2>8. LedgerOK' /\ NoStolenLease'
    BY <1>9, <2>4, <2>6, <2>7 DEF Tick, LedgerOK, NoStolenLease
  <2>9. LeaseAgreement'
    <3> SUFFICES ASSUME NEW a \in Agents, NEW c \in Cards, view'[a][c] > 0,
                        ~ \E src \in Sources : <<c, src>> \in covered'
                 PROVE  /\ latest'[c].st = "claimed" /\ latest'[c].ag = a
                        /\ latest'[c].left = view'[a][c]
      BY DEF LeaseAgreement
    <3>1. view[a][c] \in 0..TTL
      BY DEF LedgerOK
    <3>2. view[a][c] > 0 /\ ~ \E src \in Sources : <<c, src>> \in covered
      BY <1>9, <2>1, <2>5, <3>1 DEF Tick
    <3> QED BY <2>3, <2>5, <3>2 DEF LeaseAgreement
  <2> QED BY <2>8, <2>9
<1> QED
  BY <1>1, <1>2, <1>3, <1>4, <1>5, <1>6, <1>7, <1>8, <1>9
  DEF Next, vars, EnvRead, FinishReport, SessionStart, AddHyp, EnvBlockHyp, UpdateHyp, Probe,
      ReleaseScan, AcceptReconcile, FoldDuplicate, RejectArtifact, Reconsider

\* Rewriting the status of an existing row keeps the hypotheses' type.
LEMMA WithStatusType ==
    ASSUME HypsOK, NEW h \in Hyps, NEW st \in HypStatuses \ {"none"}, hyp[h].st # "none"
    PROVE  /\ WithStatus(h, st) \in [Hyps -> [st : HypStatuses, ag : Agents \cup {NoAgent},
                                             card : Cards \cup {NoCard}]]
           /\ \A g \in Hyps : /\ (WithStatus(h, st)[g].st # "none") <=> (hyp[g].st # "none")
                              /\ WithStatus(h, st)[g].ag = hyp[g].ag
                              /\ WithStatus(h, st)[g].card = hyp[g].card
BY DEF HypsOK, WithStatus

\* Every step keeps hypotheses, runs and bundles well-formed: the actions on
\* a bundle reach it only through the hypothesis row that names it.
LEMMA HypsStep ==
    ASSUME TypeOK, [Next]_vars
    PROVE  HypsOK'
<1> USE DEF TypeOK
<1>1. CASE UNCHANGED <<hyps, accepted>>
  BY <1>1 DEF HypsOK, hyps
<1>2. ASSUME NEW a \in Agents, NEW c \in Cards, NEW h \in Hyps, AddHyp(a, c, h) PROVE HypsOK'
  <2>1. /\ hyp' \in [Hyps -> [st : HypStatuses, ag : Agents \cup {NoAgent}, card : Cards \cup {NoCard}]]
        /\ \A g \in Hyps : hyp'[g].st # "none" => hyp'[g].ag \in Agents /\ hyp'[g].card \in Cards
        /\ \A g \in Hyps : hyp[g].st # "none" => hyp'[g].st # "none"
    BY <1>2 DEF AddHyp, HypsOK, HypStatuses
  <2> QED BY <1>2, <2>1 DEF AddHyp, HypsOK
<1>3. ASSUME NEW h \in Hyps, NEW st \in HypStatuses \ {"none"}, hyp[h].st # "none",
             hyp' = WithStatus(h, st) \/ hyp' = hyp,
             UNCHANGED <<runs, crashRun, recent, unfinished>>,
             accepted' = accepted \/ accepted' = accepted \cup {h},
             \/ art' = art
             \/ \E b \in {"filed", "accepting", "accepted", "rejected", "folded"} :
                   art' = [art EXCEPT ![h] = b]
      PROVE  HypsOK'
  <2>1. /\ hyp' \in [Hyps -> [st : HypStatuses, ag : Agents \cup {NoAgent}, card : Cards \cup {NoCard}]]
        /\ \A g \in Hyps : /\ (hyp'[g].st # "none") <=> (hyp[g].st # "none")
                           /\ hyp'[g].ag = hyp[g].ag
                           /\ hyp'[g].card = hyp[g].card
    <3>1. CASE hyp' = WithStatus(h, st)
      BY <1>3, <3>1, WithStatusType
    <3>2. CASE hyp' = hyp
      BY <3>2 DEF HypsOK
    <3> QED BY <1>3, <3>1, <3>2
  <2>2. /\ art' \in [Hyps -> {"none", "filed", "accepting", "accepted", "rejected", "folded"}]
        /\ \A g \in Hyps : art'[g] # "none" => hyp[g].st # "none"
    BY <1>3 DEF HypsOK
  <2> QED BY <1>3, <2>1, <2>2 DEF HypsOK
<1>4. ASSUME NEW a \in Agents, NEW h \in Hyps, NEW v, Probe(a, h, v) PROVE HypsOK'
  <2>1. hyp[h].card \in Cards
    BY <1>4 DEF Probe, HypsOK
  <2>2. runs' \in [Hyps -> Nat]
    BY <1>4 DEF Probe, HypsOK
  <2>3. recent' \in [Cards -> 0..Grace]
    BY <1>4, <2>1, QueueAssumption DEF Probe, HypsOK
  <2>4. crashRun' \subseteq Cards /\ unfinished' \subseteq Agents
    BY <1>4, <2>1 DEF Probe, HypsOK
  <2>5. /\ art' \in [Hyps -> {"none", "filed", "accepting", "accepted", "rejected", "folded"}]
        /\ \A g \in Hyps : art'[g] # "none" => hyp[g].st # "none"
    BY <1>4 DEF Probe, HypsOK
  <2> QED BY <1>4, <2>2, <2>3, <2>4, <2>5 DEF Probe, HypsOK
<1>5. ASSUME NEW a \in Agents, FinishReport(a) PROVE HypsOK'
  BY <1>5 DEF FinishReport, HypsOK
<1>6. CASE Tick
  <2>1. recent' \in [Cards -> 0..Grace]
    BY <1>6, QueueAssumption DEF Tick, HypsOK, Less
  <2> QED BY <1>6, <2>1 DEF Tick, HypsOK
<1>7. ASSUME NEW h \in Hyps,
             \/ AcceptReconcile(h) \/ AcceptRecord(h) \/ FoldDuplicate(h)
             \/ RejectArtifact(h) \/ Reconsider(h)
      PROVE  HypsOK'
  <2>1. hyp[h].st # "none"
    BY <1>7 DEF AcceptReconcile, AcceptRecord, FoldDuplicate, RejectArtifact, Reconsider, HypsOK
  <2>2. CASE AcceptRecord(h)
    <3>1. /\ hyp' = hyp /\ art' = [art EXCEPT ![h] = "accepted"]
          /\ UNCHANGED <<runs, crashRun, recent, unfinished>>
          /\ accepted' = accepted \/ accepted' = accepted \cup {h}
      BY <2>2 DEF AcceptRecord
    <3>2. "open" \in HypStatuses \ {"none"}
      BY DEF HypStatuses
    <3> QED BY <1>3, <2>1, <3>1, <3>2
  <2>3. CASE AcceptReconcile(h)
    <3>1. /\ hyp' = WithStatus(h, "named") \/ hyp' = hyp
          /\ art' = [art EXCEPT ![h] = "accepting"]
          /\ UNCHANGED <<runs, crashRun, recent, unfinished, accepted>>
      BY <2>3 DEF AcceptReconcile
    <3>2. "named" \in HypStatuses \ {"none"}
      BY DEF HypStatuses
    <3> QED BY <1>3, <2>1, <3>1, <3>2
  <2>4. CASE FoldDuplicate(h)
    <3>1. /\ hyp' = WithStatus(h, "folded") \/ hyp' = hyp
          /\ art' = [art EXCEPT ![h] = "folded"]
          /\ UNCHANGED <<runs, crashRun, recent, unfinished, accepted>>
      BY <2>4 DEF FoldDuplicate
    <3>2. "folded" \in HypStatuses \ {"none"}
      BY DEF HypStatuses
    <3> QED BY <1>3, <2>1, <3>1, <3>2
  <2>5. CASE RejectArtifact(h)
    <3>1. /\ hyp' = WithStatus(h, "rejected") \/ hyp' = hyp
          /\ art' = [art EXCEPT ![h] = "rejected"]
          /\ UNCHANGED <<runs, crashRun, recent, unfinished, accepted>>
      BY <2>5 DEF RejectArtifact
    <3>2. "rejected" \in HypStatuses \ {"none"}
      BY DEF HypStatuses
    <3> QED BY <1>3, <2>1, <3>1, <3>2
  <2>6. CASE Reconsider(h)
    <3>1. /\ hyp' = WithStatus(h, "named") \/ hyp' = hyp
          /\ art' = [art EXCEPT ![h] = "filed"]
          /\ UNCHANGED <<runs, crashRun, recent, unfinished, accepted>>
      BY <2>6 DEF Reconsider
    <3>2. "named" \in HypStatuses \ {"none"}
      BY DEF HypStatuses
    <3> QED BY <1>3, <2>1, <3>1, <3>2
  <2> QED BY <1>7, <2>2, <2>3, <2>4, <2>5, <2>6
<1>8. ASSUME NEW a \in Agents, NEW h \in Hyps, EnvBlockHyp(a, h) PROVE HypsOK'
  BY <1>3, <1>8 DEF EnvBlockHyp, HypStatuses
<1>9. ASSUME NEW a \in Agents, NEW h \in Hyps, NEW st \in {"open", "dry", "named"},
             UpdateHyp(a, h, st)
      PROVE  HypsOK'
  BY <1>3, <1>9 DEF UpdateHyp, HypStatuses
<1> QED
  BY <1>1, <1>2, <1>4, <1>5, <1>6, <1>7, <1>8, <1>9
  DEF Next, vars, NextCard, Adopt, EnvRead, EnvWrite, SessionStart, SessionEnd, UpdateCard,
      ReleaseScan, ReleaseAppend

\* Every step keeps sessions, commands in flight and the release pass typed.
LEMMA SessionsStep ==
    ASSUME TypeOK, [Next]_vars
    PROVE  SessionsOK'
<1> USE DEF TypeOK
<1>1. CASE UNCHANGED <<live, pend, rel>>
  BY <1>1 DEF SessionsOK
<1>2. ASSUME NEW a \in Agents, NEW p \in Pending, p.op # "idle" => p.card \in Cards,
             pend' = [pend EXCEPT ![a] = p], live' \subseteq Agents, rel' = rel
      PROVE  SessionsOK'
  BY <1>2 DEF SessionsOK
<1>3. ASSUME NEW a \in Agents, NEW c \in Cards, NEW h \in Hyps, AddHyp(a, c, h) PROVE SessionsOK'
  <2>1. [op |-> "adopt", card |-> c] \in Pending
    BY DEF Pending
  <2> QED BY <1>2, <1>3, <2>1 DEF AddHyp, SessionsOK
<1>4. Idle \in Pending /\ Idle.op = "idle"
  BY DEF Idle, Pending
<1>5. ASSUME NEW a \in Agents, Adopt(a) \/ EnvWrite(a) \/ SessionEnd(a) PROVE SessionsOK'
  BY <1>2, <1>4, <1>5 DEF Adopt, EnvWrite, SessionEnd, SessionsOK
<1>6. ASSUME NEW a \in Agents, EnvRead(a) PROVE SessionsOK'
  <2>1. pend[a].card \in Cards
    BY <1>6 DEF EnvRead, SessionsOK
  <2>2. [op |-> "envwrite", card |-> pend[a].card] \in Pending
    BY <2>1 DEF Pending
  <2> QED BY <1>2, <1>4, <1>6, <2>1, <2>2 DEF EnvRead, SessionsOK
<1>7. ASSUME NEW a \in Agents, NEW h \in Hyps, EnvBlockHyp(a, h) PROVE SessionsOK'
  <2>1. hyp[h].card \in Cards
    BY <1>7 DEF EnvBlockHyp, HypsOK
  <2>2. [op |-> "envread", card |-> hyp[h].card] \in Pending
    BY <2>1 DEF Pending
  <2> QED BY <1>2, <1>7, <2>1, <2>2 DEF EnvBlockHyp, SessionsOK
<1>8. ASSUME NEW a \in Agents, SessionStart(a) PROVE SessionsOK'
  BY <1>8 DEF SessionStart, SessionsOK
<1>9. CASE ReleaseScan
  <2>1. \A c \in Cards : ReleaseRow(c) \in ReleaseRows
    BY DEF ReleaseRow, ReleaseRows, LedgerOK, Rows
  <2> QED BY <1>9, <2>1 DEF ReleaseScan, SessionsOK
<1>10. ASSUME NEW row \in rel, ReleaseAppend(row) PROVE SessionsOK'
  BY <1>10 DEF ReleaseAppend, SessionsOK
<1> QED
  BY <1>1, <1>3, <1>5, <1>6, <1>7, <1>8, <1>9, <1>10
  DEF Next, vars, NextCard, UpdateHyp, UpdateCard, Probe, FinishReport, AcceptReconcile,
      AcceptRecord, FoldDuplicate, RejectArtifact, Reconsider, Tick

\* IInv is an invariant of the specification.
LEMMA Invariance == Spec => []IInv
<1>1. Init => IInv
  BY InitInv
<1>2. IInv /\ [Next]_vars => IInv'
  BY LedgerStep, HypsStep, SessionsStep DEF IInv, TypeOK
<1> QED BY <1>1, <1>2, PTL DEF Spec

\* Whatever agents, triage and the release pass do, the ledgers stay
\* well-formed: only a claim carries lease time, a bundle always has a
\* hypothesis row and a command in flight a card.
THEOREM QueueTypeCorrect == Spec => []TypeOK
<1>1. IInv => TypeOK
  BY DEF IInv
<1> QED BY <1>1, Invariance, PTL

\* next-card and claim-on-adopt take no lease from a session counting on it,
\* for any number of agents and cards and any lease time.
THEOREM LeasesNotStolen == Spec => []NoStolenLease
<1>1. IInv => NoStolenLease
  BY DEF IInv
<1> QED BY <1>1, Invariance, PTL

\* An unexpired grant is the latest row of its card unless a row of another
\* party covers it.
THEOREM LeasesAgree == Spec => []LeaseAgreement
<1>1. IInv => LeaseAgreement
  BY DEF IInv
<1> QED BY <1>1, Invariance, PTL

-----------------------------------------------------------------------------
(* Conclusions *)

\* Hypotheses are never taken back and their card and runs never change for
\* the worse.
HypsGrow ==
    /\ \A h \in Hyps : hyp[h].st # "none" => hyp'[h].st # "none" /\ hyp'[h].card = hyp[h].card
    /\ \A h \in Hyps : runs'[h] >= runs[h]

\* What the conclusions rest on, the release rows still to be written included:
\* a release row repeats a conclusion that was earned when it was read.
EarnedInv ==
    /\ ConclusionsEarned
    /\ \A h \in accepted : hyp[h].st # "none"
    /\ \A row \in rel :
          (row.st = "discarded" /\ row.card \notin Broad) => EvidenceFloor(row.card)

\* The image of a finite set under a function is finite.
LEMMA ImageFinite ==
    ASSUME NEW S, IsFiniteSet(S), NEW f
    PROVE  IsFiniteSet({f[x] : x \in S})
<1> DEFINE g == [x \in S |-> f[x]]
           T == {f[x] : x \in S}
<1>1. g \in Surjection(S, T)
  BY DEF Surjection
<1> HIDE DEF g, T
<1>2. IsFiniteSet(T)
  BY <1>1, FS_Surjection
<1> QED BY <1>2 DEF T

\* The sets the evidence floor counts are finite.
LEMMA EvidenceFinite ==
    ASSUME NEW c \in Cards
    PROVE  IsFiniteSet(CleanRuns(c)) /\ IsFiniteSet(ProbedShapes(c)) /\ IsFiniteSet(HypsOn(c))
<1>1. IsFiniteSet(HypsOn(c))
  BY QueueAssumption, FS_Subset DEF HypsOn
<1>2. IsFiniteSet(CleanRuns(c))
  <2>1. IsFiniteSet(1..MaxRuns)
    BY QueueAssumption, FS_Interval
  <2>2. IsFiniteSet(HypsOn(c) \X (1..MaxRuns))
    BY <1>1, <2>1, FS_Product
  <2> QED BY <2>2, FS_Subset DEF CleanRuns
<1>3. IsFiniteSet(ProbedShapes(c))
  <2>1. IsFiniteSet({g \in HypsOn(c) : runs[g] > 0})
    BY <1>1, FS_Subset
  <2> QED BY <2>1, ImageFinite DEF ProbedShapes
<1> QED BY <1>1, <1>2, <1>3

\* Evidence once reached stays reached.
LEMMA EvidenceKept ==
    ASSUME HypsOK, HypsOK', HypsGrow, NEW c \in Cards, EvidenceFloor(c)
    PROVE  EvidenceFloor(c)'
<1>1. HypsOn(c) \subseteq HypsOn(c)'
  BY DEF HypsOn, HypsGrow
<1>2. CleanRuns(c) \subseteq CleanRuns(c)'
  <2> SUFFICES ASSUME NEW run \in CleanRuns(c) PROVE run \in CleanRuns(c)'
    OBVIOUS
  <2>1. run \in HypsOn(c)' \X (1..MaxRuns) /\ run[2] <= runs[run[1]] /\ run[1] \in Hyps
    BY <1>1 DEF CleanRuns, HypsOn
  <2>2. run[2] \in Nat /\ runs[run[1]] \in Nat /\ runs'[run[1]] \in Nat
    BY <2>1, QueueAssumption DEF HypsOK
  <2>3. run[2] <= runs'[run[1]]
    BY <2>1, <2>2 DEF HypsGrow
  <2> QED BY <2>1, <2>3 DEF CleanRuns
<1>3. ProbedShapes(c) \subseteq ProbedShapes(c)'
  <2> SUFFICES ASSUME NEW h \in HypsOn(c), runs[h] > 0
               PROVE  Shape[h] \in ProbedShapes(c)'
    BY DEF ProbedShapes
  <2>1. h \in Hyps /\ h \in HypsOn(c)'
    BY <1>1 DEF HypsOn
  <2>2. runs'[h] > 0
    BY <2>1 DEF HypsGrow, HypsOK
  <2> QED BY <2>1, <2>2 DEF ProbedShapes
<1>4. IsFiniteSet(CleanRuns(c)') /\ IsFiniteSet(ProbedShapes(c)')
  <2>1. IsFiniteSet(HypsOn(c)')
    BY QueueAssumption, FS_Subset DEF HypsOn
  <2>2. IsFiniteSet(1..MaxRuns)
    BY QueueAssumption, FS_Interval
  <2>3. IsFiniteSet(HypsOn(c)' \X (1..MaxRuns))
    BY <2>1, <2>2, FS_Product
  <2>4. IsFiniteSet(CleanRuns(c)')
    BY <2>3, FS_Subset DEF CleanRuns
  <2>5. IsFiniteSet({g \in HypsOn(c)' : runs'[g] > 0})
    BY <2>1, FS_Subset
  <2> QED BY <2>4, <2>5, ImageFinite DEF ProbedShapes
<1>5. /\ Cardinality(CleanRuns(c)) <= Cardinality(CleanRuns(c)')
      /\ Cardinality(ProbedShapes(c)) <= Cardinality(ProbedShapes(c)')
  BY <1>2, <1>3, <1>4, FS_Subset
<1>6. /\ Cardinality(CleanRuns(c)) \in Nat /\ Cardinality(CleanRuns(c)') \in Nat
      /\ Cardinality(ProbedShapes(c)) \in Nat /\ Cardinality(ProbedShapes(c)') \in Nat
  BY <1>4, EvidenceFinite, FS_CardinalityType
<1> QED BY <1>5, <1>6, QueueAssumption DEF EvidenceFloor

\* Every step only adds hypotheses and runs.
LEMMA HypsStepGrows ==
    ASSUME TypeOK, [Next]_vars
    PROVE  HypsGrow
<1> USE DEF TypeOK
<1>1. ASSUME hyp' = hyp, runs' = runs PROVE HypsGrow
  BY <1>1 DEF HypsGrow, HypsOK
<1>2. ASSUME NEW h \in Hyps, NEW st \in HypStatuses \ {"none"}, hyp[h].st # "none",
             hyp' = WithStatus(h, st) \/ hyp' = hyp, runs' = runs
      PROVE  HypsGrow
  <2>1. CASE hyp' = hyp
    BY <1>1, <1>2, <2>1
  <2>2. CASE hyp' = WithStatus(h, st)
    <3>1. \A g \in Hyps : /\ (hyp'[g].st # "none") <=> (hyp[g].st # "none")
                          /\ hyp'[g].card = hyp[g].card
      BY <1>2, <2>2, WithStatusType
    <3> QED BY <1>2, <3>1 DEF HypsGrow, HypsOK
  <2> QED BY <1>2, <2>1, <2>2
<1>3. ASSUME NEW a \in Agents, NEW c \in Cards, NEW h \in Hyps, AddHyp(a, c, h) PROVE HypsGrow
  BY <1>3 DEF AddHyp, HypsGrow, HypsOK
<1>4. ASSUME NEW a \in Agents, NEW h \in Hyps, NEW v, Probe(a, h, v) PROVE HypsGrow
  BY <1>4 DEF Probe, HypsGrow, HypsOK
<1>5. ASSUME NEW h \in Hyps,
             AcceptReconcile(h) \/ FoldDuplicate(h) \/ RejectArtifact(h) \/ Reconsider(h)
      PROVE  HypsGrow
  <2>1. hyp[h].st # "none"
    BY <1>5 DEF AcceptReconcile, FoldDuplicate, RejectArtifact, Reconsider, HypsOK
  <2>2. /\ \E st \in {"named", "folded", "rejected"} : hyp' = WithStatus(h, st) \/ hyp' = hyp
        /\ runs' = runs
    BY <1>5 DEF AcceptReconcile, FoldDuplicate, RejectArtifact, Reconsider
  <2> QED BY <1>2, <2>1, <2>2 DEF HypStatuses
<1>6. ASSUME NEW a \in Agents, NEW h \in Hyps, EnvBlockHyp(a, h) PROVE HypsGrow
  BY <1>2, <1>6 DEF EnvBlockHyp, HypStatuses
<1>7. ASSUME NEW a \in Agents, NEW h \in Hyps, NEW st \in {"open", "dry", "named"},
             UpdateHyp(a, h, st)
      PROVE  HypsGrow
  BY <1>2, <1>7 DEF UpdateHyp, HypStatuses
<1> QED
  BY <1>1, <1>3, <1>4, <1>5, <1>6, <1>7
  DEF Next, vars, hyps, NextCard, Adopt, EnvRead, EnvWrite, SessionStart, SessionEnd, UpdateCard,
      ReleaseScan, ReleaseAppend, AcceptRecord, FinishReport, Tick

\* A row that is no discard of a concrete card, or one with the evidence,
\* keeps every discard evidenced.
LEMMA AppendDiscard ==
    ASSUME LedgerOK, DiscardHasEvidence, HypsOK, HypsOK', HypsGrow,
           NEW c \in Cards, NEW st, NEW ag, NEW src, AppendRow(c, st, ag, src),
           (st = "discarded" /\ c \notin Broad) => EvidenceFloor(c)
    PROVE  DiscardHasEvidence'
<1> SUFFICES ASSUME NEW d \in Cards \ Broad, lastTerm'[d] = "discarded"
             PROVE  EvidenceFloor(d)'
  BY DEF DiscardHasEvidence
<1>1. EvidenceFloor(d)
  BY DEF DiscardHasEvidence, AppendRow, LedgerOK
<1> QED BY <1>1, EvidenceKept

\* Accepted artifacts of a card do not change with the hypotheses.
LEMMA AcceptedKept ==
    ASSUME HypsOK, HypsGrow, \A h \in accepted : hyp[h].st # "none", accepted' = accepted,
           NEW c \in Cards
    PROVE  {h \in accepted' : hyp'[h].card = c} = {h \in accepted : hyp[h].card = c}
BY DEF HypsOK, HypsGrow

\* Only an update-card row and an accepted artifact conclude a card.
LEMMA AppendCounts ==
    ASSUME LedgerOK, NEW c \in Cards, NEW st, NEW ag, NEW src, AppendRow(c, st, ag, src)
    PROVE  /\ src \notin {"update", "accept"} /\ (src # "release" => st \notin Productive)
                => concl' = concl /\ said' = said
           /\ src = "update" => \A d \in Cards : concl'[d] - said'[d] = concl[d] - said[d]
           /\ (src = "accept" /\ st \in Productive)
                => concl' = [concl EXCEPT ![c] = @ + 1] /\ said' = said
<1>1. CASE src # "update"
  BY <1>1 DEF AppendRow
<1>2. CASE src = "update"
  <2> SUFFICES ASSUME NEW d \in Cards PROVE concl'[d] - said'[d] = concl[d] - said[d]
    BY <1>2
  <2>1. concl[d] \in Nat /\ said[d] \in Nat
    BY DEF LedgerOK
  <2>2. \/ concl' = concl /\ said' = said
        \/ concl' = [concl EXCEPT ![c] = @ + 1] /\ said' = [said EXCEPT ![c] = @ + 1]
    BY <1>2 DEF AppendRow
  <2>3. \/ concl'[d] = concl[d] /\ said'[d] = said[d]
        \/ concl'[d] = concl[d] + 1 /\ said'[d] = said[d] + 1
    BY <2>2 DEF LedgerOK
  <2> QED BY <2>1, <2>3
<1> QED BY <1>1, <1>2

\* The accepted artifacts of a card are finitely many.
LEMMA AcceptedFinite ==
    ASSUME HypsOK, NEW c
    PROVE  /\ IsFiniteSet({h \in accepted : hyp[h].card = c})
           /\ Cardinality({h \in accepted : hyp[h].card = c}) \in Nat
<1>1. IsFiniteSet({h \in accepted : hyp[h].card = c})
  BY QueueAssumption, FS_Subset DEF HypsOK
<1> QED BY <1>1, FS_CardinalityType

\* Every step keeps discards evidenced and conclusions counted once.
LEMMA EarnedStep ==
    ASSUME TypeOK, TypeOK', EarnedInv, [Next]_vars
    PROVE  EarnedInv'
<1> USE DEF TypeOK
<1>1. HypsGrow
  BY HypsStepGrows
<1> DEFINE Acc(d) == Cardinality({h \in accepted : hyp[h].card = d})
           RelOK == \A row \in rel : (row.st = "discarded" /\ row.card \notin Broad)
                                       => EvidenceFloor(row.card)
           AccOK == \A h \in accepted : hyp[h].st # "none"
<1>2. ASSUME rel' \subseteq rel PROVE RelOK'
  <2> SUFFICES ASSUME NEW row \in rel', row.st = "discarded", row.card \notin Broad
               PROVE  EvidenceFloor(row.card)'
    OBVIOUS
  <2>1. row \in rel /\ row.card \in Cards
    BY <1>2 DEF SessionsOK, ReleaseRows
  <2>2. EvidenceFloor(row.card)
    BY <2>1 DEF EarnedInv
  <2> QED BY <1>1, <2>1, <2>2, EvidenceKept
<1>3. ASSUME accepted' = accepted PROVE AccOK'
  BY <1>1, <1>3 DEF EarnedInv, HypsGrow, HypsOK
<1>4. ASSUME accepted' = accepted, \A d \in Cards : concl'[d] - said'[d] = concl[d] - said[d]
      PROVE  ConclusionsGrounded'
  <2> SUFFICES ASSUME NEW d \in Cards
               PROVE  concl'[d] = said'[d] + Cardinality({h \in accepted' : hyp'[h].card = d})
    BY DEF ConclusionsGrounded
  <2>1. {h \in accepted' : hyp'[h].card = d} = {h \in accepted : hyp[h].card = d}
    BY <1>1, <1>4, AcceptedKept DEF EarnedInv
  <2>2. concl[d] = said[d] + Acc(d)
    BY DEF EarnedInv, ConclusionsEarned, ConclusionsGrounded
  <2>3. concl[d] \in Nat /\ said[d] \in Nat /\ concl'[d] \in Nat /\ said'[d] \in Nat
        /\ Acc(d) \in Nat
    BY AcceptedFinite DEF LedgerOK
  <2>4. concl'[d] = said'[d] + Acc(d)
    BY <1>4, <2>2, <2>3
  <2> QED BY <2>1, <2>4
<1>5. ASSUME rel' \subseteq rel, accepted' = accepted, NEW c \in Cards, NEW st, NEW ag, NEW src,
             AppendRow(c, st, ag, src),
             (st = "discarded" /\ c \notin Broad) => EvidenceFloor(c),
             \/ src = "update" \/ src = "release"
             \/ src \in {"next", "adopt", "env"} /\ st \notin Productive
      PROVE  EarnedInv'
  <2>1. DiscardHasEvidence'
    BY <1>1, <1>5, AppendDiscard DEF EarnedInv, ConclusionsEarned
  <2>2. \A d \in Cards : concl'[d] - said'[d] = concl[d] - said[d]
    BY <1>5, AppendCounts
  <2> QED BY <1>2, <1>3, <1>4, <1>5, <2>1, <2>2 DEF EarnedInv, ConclusionsEarned
<1>6. ASSUME accepted' = accepted, lastTerm' = lastTerm, concl' = concl, said' = said
      PROVE  ConclusionsEarned' /\ AccOK'
  <2>1. DiscardHasEvidence'
    BY <1>1, <1>6, EvidenceKept DEF EarnedInv, ConclusionsEarned, DiscardHasEvidence
  <2> QED BY <1>3, <1>4, <1>6, <2>1 DEF ConclusionsEarned
<1>7. ASSUME rel' \subseteq rel, accepted' = accepted, UNCHANGED ledger PROVE EarnedInv'
  BY <1>2, <1>6, <1>7 DEF EarnedInv, ledger
<1>8. ASSUME NEW a \in Agents, NextCard(a) PROVE EarnedInv'
  <2> PICK c \in Offer(a) : AppendRow(c, "claimed", a, "next")
    BY <1>8 DEF NextCard
  <2> QED BY <1>5, <1>8, OfferFree DEF NextCard, Productive
<1>9. ASSUME NEW a \in Agents, Adopt(a) PROVE EarnedInv'
  <2> DEFINE c == pend[a].card
  <2>1. c \in Cards /\ (AppendRow(c, "claimed", a, "adopt") \/ UNCHANGED ledger)
        /\ rel' = rel /\ accepted' = accepted
    BY <1>9 DEF Adopt, SessionsOK
  <2> HIDE DEF c
  <2> QED BY <1>5, <1>7, <2>1 DEF Productive
<1>10. ASSUME NEW a \in Agents, EnvWrite(a) PROVE EarnedInv'
  <2> DEFINE c == pend[a].card
             st == IF c \in Broad THEN "discarded" ELSE "blocked"
  <2>1. c \in Cards /\ AppendRow(c, st, a, "env") /\ rel' = rel /\ accepted' = accepted
    BY <1>10 DEF EnvWrite, SessionsOK
  <2>2. st \notin Productive /\ (st = "discarded" => c \in Broad)
    BY DEF Productive
  <2> HIDE DEF c, st
  <2> QED BY <1>5, <2>1, <2>2
<1>11. ASSUME NEW a \in Agents, NEW c \in Cards, NEW st \in CardStatuses, UpdateCard(a, c, st)
       PROVE  EarnedInv'
  BY <1>5, <1>11 DEF UpdateCard, UpdateGate
<1>12. ASSUME NEW row \in rel, ReleaseAppend(row) PROVE EarnedInv'
  <2>1. row.card \in Cards
    BY DEF SessionsOK, ReleaseRows
  <2>2. (row.st = "discarded" /\ row.card \notin Broad) => EvidenceFloor(row.card)
    BY DEF EarnedInv
  <2>3. AppendRow(row.card, row.st, row.ag, "release") /\ rel' \subseteq rel /\ accepted' = accepted
    BY <1>12 DEF ReleaseAppend
  <2> QED BY <1>5, <2>1, <2>2, <2>3
<1>13. ASSUME NEW h \in Hyps, AcceptRecord(h) PROVE EarnedInv'
  <2> DEFINE c == hyp[h].card
             g == hyp[h].ag
  <2>1. c \in Cards /\ hyp[h].st # "none" /\ hyp' = hyp /\ rel' = rel
    BY <1>13 DEF AcceptRecord, HypsOK
  <2>2. CASE AppendRow(c, "crash", g, "accept") /\ accepted' = accepted \cup {h} /\ h \notin accepted
    <3>1. DiscardHasEvidence'
      BY <1>1, <2>1, <2>2, AppendDiscard DEF EarnedInv, ConclusionsEarned
    <3>2. concl' = [concl EXCEPT ![c] = @ + 1] /\ said' = said
      BY <2>1, <2>2, AppendCounts DEF Productive
    <3>3. ConclusionsGrounded'
      <4> SUFFICES ASSUME NEW d \in Cards
                   PROVE  concl'[d] = said'[d] + Cardinality({k \in accepted' : hyp'[k].card = d})
        BY DEF ConclusionsGrounded
      <4>1. concl[d] = said[d] + Acc(d)
        BY DEF EarnedInv, ConclusionsEarned, ConclusionsGrounded
      <4>2. concl[d] \in Nat /\ said[d] \in Nat /\ Acc(d) \in Nat
            /\ IsFiniteSet({k \in accepted : hyp[k].card = d})
        BY AcceptedFinite DEF LedgerOK
      <4>3. CASE d = c
        <5>1. {k \in accepted' : hyp'[k].card = d} = {k \in accepted : hyp[k].card = d} \cup {h}
          BY <2>1, <2>2, <4>3
        <5>2. Cardinality({k \in accepted' : hyp'[k].card = d}) = Acc(d) + 1
          BY <2>2, <4>2, <5>1, FS_AddElement
        <5>3. concl'[d] = concl[d] + 1 /\ said'[d] = said[d]
          BY <2>1, <3>2, <4>3 DEF LedgerOK
        <5> HIDE DEF Acc
        <5> QED BY <4>1, <4>2, <5>2, <5>3
      <4>4. CASE d # c
        <5>1. {k \in accepted' : hyp'[k].card = d} = {k \in accepted : hyp[k].card = d}
          BY <2>1, <2>2, <4>4
        <5>2. concl'[d] = concl[d] /\ said'[d] = said[d]
          BY <2>1, <3>2, <4>4 DEF LedgerOK
        <5> QED BY <4>1, <5>1, <5>2
      <4> QED BY <4>3, <4>4
    <3>4. AccOK'
      BY <2>1, <2>2 DEF EarnedInv
    <3> QED BY <1>2, <2>1, <3>1, <3>3, <3>4 DEF EarnedInv, ConclusionsEarned
  <2>3. CASE UNCHANGED <<ledger, accepted>>
    BY <1>7, <2>1, <2>3
  <2> HIDE DEF c, g
  <2>4. \/ AppendRow(c, "crash", g, "accept") /\ accepted' = accepted \cup {h} /\ h \notin accepted
        \/ UNCHANGED <<ledger, accepted>>
    BY <1>13 DEF AcceptRecord, c, g
  <2> QED BY <2>2, <2>3, <2>4
<1>14. CASE ReleaseScan
  <2>1. RelOK'
    <3> SUFFICES ASSUME NEW c \in Cards, ReleaseRow(c).st = "discarded", c \notin Broad
                 PROVE  EvidenceFloor(c)'
      BY <1>14 DEF ReleaseScan, ReleaseRow
    <3>1. lastTerm[c] = "discarded"
      BY DEF ReleaseRow
    <3> QED BY <1>1, <3>1, EvidenceKept DEF EarnedInv, ConclusionsEarned, DiscardHasEvidence
  <2> QED BY <1>6, <1>14, <2>1 DEF ReleaseScan, ledger, EarnedInv
<1>15. ASSUME NEW a \in Agents, SessionEnd(a) PROVE EarnedInv'
  BY <1>2, <1>6, <1>15 DEF SessionEnd, EarnedInv
<1>16. CASE Tick
  BY <1>2, <1>6, <1>16 DEF Tick, EarnedInv
<1> QED
  BY <1>7, <1>8, <1>9, <1>10, <1>11, <1>12, <1>13, <1>14, <1>15, <1>16
  DEF Next, vars, EnvRead, FinishReport, SessionStart, AddHyp, EnvBlockHyp, UpdateHyp, Probe,
      AcceptReconcile, FoldDuplicate, RejectArtifact, Reconsider

\* Whatever agents, triage and the release pass do, a concrete card whose last
\* conclusion is a discard has the evidence, and each conclusion of a card is
\* one update-card row or one accepted artifact.
THEOREM ConclusionsAreEarned == Spec => []ConclusionsEarned
<1>1. Init => EarnedInv
  <2> SUFFICES ASSUME Init PROVE EarnedInv
    OBVIOUS
  <2>1. DiscardHasEvidence
    BY DEF Init, DiscardHasEvidence
  <2>2. \A c \in Cards : {h \in accepted : hyp[h].card = c} = {}
    BY DEF Init
  <2>3. ConclusionsGrounded
    BY <2>2, FS_EmptySet DEF Init, ConclusionsGrounded
  <2> QED BY <2>1, <2>3 DEF Init, EarnedInv, ConclusionsEarned
<1>2. TypeOK /\ TypeOK' /\ EarnedInv /\ [Next]_vars => EarnedInv'
  BY EarnedStep
<1>3. EarnedInv => ConclusionsEarned
  BY DEF EarnedInv
<1> QED BY <1>1, <1>2, <1>3, QueueTypeCorrect, PTL DEF Spec

\* What a step has to do with the latest row of a concrete card for
\* MinedStaysClosed to hold of it.
MinedStep ==
    \A c \in Cards \ Broad :
        (/\ latest'[c].src = "next" /\ latest'[c].left > latest[c].left
         /\ ~ClaimBlocksCard(c) /\ latest[c].st # "released")
          => concl[c] <= DistinctShapes(c)

\* A row of another command, or an unchanged ledger, hands nothing out.
LEMMA AppendHandsOut ==
    ASSUME LedgerOK, NEW c \in Cards, NEW st, NEW ag, NEW src, src # "next",
           AppendRow(c, st, ag, src)
    PROVE  MinedStep
<1> SUFFICES ASSUME NEW d \in Cards, latest'[d].src = "next", latest'[d].left > latest[d].left
             PROVE  FALSE
  BY DEF MinedStep
<1>1. d # c
  BY DEF AppendRow, LedgerOK, Row
<1>2. latest'[d] = latest[d] /\ latest[d].left \in Nat
  BY <1>1, QueueAssumption DEF AppendRow, LedgerOK, Rows
<1> QED BY <1>2

\* What next-card may offer has room for another conclusion.
LEMMA OfferOpen ==
    ASSUME LedgerOK, NEW a \in Agents, NEW c \in Offer(a), c \notin Broad,
           ~ClaimBlocksCard(c), latest[c].st # "released"
    PROVE  concl[c] <= DistinctShapes(c)
<1>1. c \in Cards /\ ~CardClosedForRun(c)
  BY DEF Offer, Candidates
<1>2. IsFiniteSet(HypsOn(c))
  BY QueueAssumption, FS_Subset DEF HypsOn
<1>3. IsFiniteSet({Shape[h] : h \in HypsOn(c)})
  BY <1>2, ImageFinite
<1>4. DistinctShapes(c) \in Nat
  BY <1>3, FS_CardinalityType DEF DistinctShapes
<1>5. latest[c].st \in RowStatuses /\ latest[c].left \in Nat /\ concl[c] \in Nat
  BY <1>1, QueueAssumption DEF LedgerOK, Rows
<1>6. VisibleStatus(c) = "unclaimed" \/ VisibleStatus(c) \in Terminal
  BY <1>5 DEF VisibleStatus, ClaimBlocksCard, RowStatuses, Terminal
<1>7. ~(concl[c] >= DistinctShapes(c) + 1) \/ concl[c] = 0
  BY <1>1, <1>5, <1>6 DEF CardClosedForRun, Productive, Terminal
<1> QED BY <1>4, <1>5, <1>7

\* For any agents and hypotheses, next-card hands out no concrete card that
\* was concluded more often than it has distinct hypotheses, an expired lease
\* over the conclusion notwithstanding.
THEOREM MinedIsClosed == Spec => MinedStaysClosed
<1>1. TypeOK /\ [Next]_vars => [MinedStep]_vars
  <2> SUFFICES ASSUME TypeOK, Next PROVE MinedStep
    OBVIOUS
  <2> USE DEF TypeOK
  <2>1. CASE UNCHANGED latest
    <3> SUFFICES ASSUME NEW d \in Cards PROVE ~(latest'[d].left > latest[d].left)
      BY DEF MinedStep
    <3> QED BY <2>1, QueueAssumption DEF LedgerOK, Rows
  <2>2. ASSUME NEW a \in Agents, NextCard(a) PROVE MinedStep
    <3> PICK c \in Offer(a) : AppendRow(c, "claimed", a, "next")
      BY <2>2 DEF NextCard
    <3> SUFFICES ASSUME NEW d \in Cards \ Broad, latest'[d].left > latest[d].left,
                        ~ClaimBlocksCard(d), latest[d].st # "released"
                 PROVE  concl[d] <= DistinctShapes(d)
      BY DEF MinedStep
    <3>1. d = c
      <4>1. d # c => latest'[d] = latest[d]
        BY DEF AppendRow, LedgerOK
      <4>2. latest[d].left \in Nat
        BY QueueAssumption DEF LedgerOK, Rows
      <4> QED BY <4>1, <4>2
    <3> QED BY <3>1, OfferOpen
  <2>3. ASSUME NEW a \in Agents, Adopt(a) PROVE MinedStep
    BY <2>1, <2>3, AppendHandsOut DEF Adopt, SessionsOK, ledger
  <2>4. ASSUME NEW a \in Agents, EnvWrite(a) PROVE MinedStep
    BY <2>4, AppendHandsOut DEF EnvWrite, SessionsOK
  <2>5. ASSUME NEW a \in Agents, NEW c \in Cards, NEW st, UpdateCard(a, c, st) PROVE MinedStep
    BY <2>5, AppendHandsOut DEF UpdateCard
  <2>6. ASSUME NEW row \in rel, ReleaseAppend(row) PROVE MinedStep
    BY <2>6, AppendHandsOut DEF ReleaseAppend, SessionsOK, ReleaseRows
  <2>7. ASSUME NEW h \in Hyps, AcceptRecord(h) PROVE MinedStep
    <3>1. hyp[h].card \in Cards
      BY <2>7 DEF AcceptRecord, HypsOK
    <3>2. AppendRow(hyp[h].card, "crash", hyp[h].ag, "accept") \/ UNCHANGED ledger
      BY <2>7 DEF AcceptRecord
    <3> QED BY <2>1, <3>1, <3>2, AppendHandsOut DEF ledger
  <2>8. CASE Tick
    <3> SUFFICES ASSUME NEW d \in Cards PROVE ~(latest'[d].left > latest[d].left)
      BY DEF MinedStep
    <3>1. latest'[d].left = Less(latest[d].left) /\ latest[d].left \in Nat
      BY <2>8, QueueAssumption DEF Tick, AgedRow, LedgerOK, Rows
    <3> QED BY <3>1 DEF Less
  <2> QED
    BY <2>1, <2>2, <2>3, <2>4, <2>5, <2>6, <2>7, <2>8
    DEF Next, ledger, EnvRead, FinishReport, SessionStart, SessionEnd, AddHyp, EnvBlockHyp,
        UpdateHyp, Probe, ReleaseScan, AcceptReconcile, FoldDuplicate, RejectArtifact, Reconsider
<1> QED BY <1>1, QueueTypeCorrect, PTL DEF Spec, MinedStaysClosed, MinedStep

-----------------------------------------------------------------------------
(* Surfaces *)

\* Without hypotheses and without agents that claim by update-card, every live
\* lease comes from next-card and no command is under way.
SurfaceInv ==
    /\ \A c \in Cards : ClaimBlocksCard(c) => latest[c].src = "next"
    /\ \A a \in Agents : pend[a] = Idle
    /\ SurfaceOneHolder

\* A row that is not a lease leaves the others as they are.
LEMMA AppendFrees ==
    ASSUME LedgerOK, SurfaceInv, NEW c \in Cards, NEW st, st # "claimed", NEW ag, NEW src,
           AppendRow(c, st, ag, src), UNCHANGED pend
    PROVE  SurfaceInv'
<1>1. \A d \in Cards : latest'[d] = IF d = c THEN Row(st, ag, src) ELSE latest[d]
  BY DEF AppendRow, LedgerOK
<1>2. ~ClaimBlocksCard(c)'
  BY <1>1 DEF ClaimBlocksCard, Row
<1>3. \A d \in Cards : d # c => latest'[d] = latest[d] /\ (ClaimBlocksCard(d)' <=> ClaimBlocksCard(d))
  BY <1>1 DEF ClaimBlocksCard
<1> QED BY <1>2, <1>3 DEF SurfaceInv, SurfaceOneHolder

\* A card next-card hands out is the agent's already, or nobody's and its
\* surface nobody's.
LEMMA NextCardShares ==
    ASSUME LedgerOK, SurfaceInv, NEW a \in Agents, NextCard(a)
    PROVE  SurfaceInv'
<1> PICK c \in Offer(a) : AppendRow(c, "claimed", a, "next")
  BY DEF NextCard
<1>1. c \in Cards /\ (OwnLease(a, c) \/ (~ClaimBlocksCard(c) /\ Surface[c] \notin OwnedSurfaces))
  BY DEF Offer, Candidates
<1>2. \A d \in Cards : latest'[d] = IF d = c THEN Row("claimed", a, "next") ELSE latest[d]
  BY <1>1 DEF AppendRow, LedgerOK
<1>3. latest'[c].ag = a /\ latest'[c].src = "next"
  BY <1>1, <1>2 DEF Row
<1>4. \A d \in Cards : d # c => latest'[d] = latest[d] /\ (ClaimBlocksCard(d)' <=> ClaimBlocksCard(d))
  BY <1>2 DEF ClaimBlocksCard
<1>5. \A d \in Cards : ClaimBlocksCard(d)' => latest'[d].src = "next"
  BY <1>3, <1>4 DEF SurfaceInv
<1>6. \A d \in Cards : d # c /\ Surface[d] = Surface[c] /\ ClaimBlocksCard(d)' => latest'[d].ag = a
  <2> SUFFICES ASSUME NEW d \in Cards, d # c, Surface[d] = Surface[c], ClaimBlocksCard(d)
               PROVE  latest[d].ag = a
    BY <1>4
  <2>1. Surface[c] \in OwnedSurfaces
    BY DEF OwnedSurfaces
  <2>2. ClaimBlocksCard(c) /\ latest[c].ag = a
    BY <1>1, <2>1 DEF OwnLease
  <2>3. latest[c].src = "next" /\ latest[d].src = "next"
    BY <1>1, <2>2 DEF SurfaceInv
  <2> QED BY <1>1, <2>2, <2>3 DEF SurfaceInv, SurfaceOneHolder
<1>7. SurfaceOneHolder'
  BY <1>3, <1>4, <1>6 DEF SurfaceInv, SurfaceOneHolder
<1>8. UNCHANGED pend
  BY DEF NextCard
<1> QED BY <1>5, <1>7, <1>8 DEF SurfaceInv

\* Every step keeps it.
LEMMA SurfaceStep ==
    ASSUME Hyps = {}, "claimed" \notin CardStatuses, TypeOK, SurfaceInv, [Next]_vars
    PROVE  SurfaceInv'
<1> USE DEF TypeOK
<1>1. CASE UNCHANGED <<latest, pend>>
  BY <1>1 DEF SurfaceInv, SurfaceOneHolder, ClaimBlocksCard
<1>2. ASSUME NEW a \in Agents, NextCard(a) PROVE SurfaceInv'
  BY <1>2, NextCardShares
<1>3. ASSUME NEW a \in Agents, Adopt(a) \/ EnvRead(a) \/ EnvWrite(a) PROVE FALSE
  <2>1. pend[a].op \in {"adopt", "envread", "envwrite"}
    BY <1>3 DEF Adopt, EnvRead, EnvWrite
  <2>2. pend[a].op = "idle"
    BY DEF SurfaceInv, Idle
  <2> QED BY <2>1, <2>2
<1>4. ASSUME NEW a \in Agents, NEW c \in Cards, NEW st \in CardStatuses, UpdateCard(a, c, st)
      PROVE  SurfaceInv'
  BY <1>4, AppendFrees DEF UpdateCard
<1>5. ASSUME NEW row \in rel, ReleaseAppend(row) PROVE SurfaceInv'
  <2>1. row.card \in Cards /\ row.st # "claimed"
    BY DEF SessionsOK, ReleaseRows, Terminal
  <2> QED BY <1>5, <2>1, AppendFrees DEF ReleaseAppend
<1>6. ASSUME NEW a \in Agents, SessionEnd(a) PROVE SurfaceInv'
  <2>1. latest' = latest /\ pend' = [pend EXCEPT ![a] = Idle]
    BY <1>6 DEF SessionEnd
  <2>2. \A b \in Agents : pend'[b] = Idle
    BY <2>1 DEF SurfaceInv, SessionsOK
  <2> QED BY <2>1, <2>2 DEF SurfaceInv, SurfaceOneHolder, ClaimBlocksCard
<1>7. CASE Tick
  <2>1. \A c \in Cards : /\ latest'[c].st = latest[c].st /\ latest'[c].ag = latest[c].ag
                         /\ latest'[c].src = latest[c].src /\ latest'[c].left = Less(latest[c].left)
    BY <1>7 DEF Tick, AgedRow
  <2>2. \A c \in Cards : latest[c].left \in Nat
    BY QueueAssumption DEF LedgerOK, Rows
  <2>3. \A c \in Cards : ClaimBlocksCard(c)' => ClaimBlocksCard(c)
    BY <2>1, <2>2 DEF ClaimBlocksCard, Less
  <2>4. pend' = pend
    BY <1>7 DEF Tick
  <2> QED BY <2>1, <2>3, <2>4 DEF SurfaceInv, SurfaceOneHolder
<1> QED
  BY <1>1, <1>2, <1>3, <1>4, <1>5, <1>6, <1>7
  DEF Next, vars, ledger, FinishReport, SessionStart, ReleaseScan

\* For any agents, cards and surfaces, where leases come from next-card only:
\* two agents never hold live leases on cards of one surface, however leases are
\* renewed, expire and are released (workqueue.py, _claim_next_card_locked).
THEOREM SurfacesHaveOneHolder ==
    ASSUME Hyps = {}, "claimed" \notin CardStatuses
    PROVE  Spec => []SurfaceOneHolder
<1>1. Init => SurfaceInv
  BY DEF Init, SurfaceInv, SurfaceOneHolder, ClaimBlocksCard
<1>2. TypeOK /\ SurfaceInv /\ [Next]_vars => SurfaceInv'
  BY SurfaceStep
<1>3. SurfaceInv => SurfaceOneHolder
  BY DEF SurfaceInv
<1> QED BY <1>1, <1>2, <1>3, QueueTypeCorrect, PTL DEF Spec

-----------------------------------------------------------------------------
(* The strategy lanes, for any slots, files, lanes and limits.             *)
(*                                                                         *)
(* While no generator failed, the list is one window of the pool, and what *)
(* anybody ever worked is in it; a wider window holds the narrower one, so *)
(* a file that a wider window adds is a file nobody has worked.  Hence a   *)
(* list with nothing left on it is as long as lists get.                   *)

\* No generator has failed, as far as a free run is concerned.
Clear == mode = "free" => fails = 0

\* Cards that anybody has worked, leased or has a hypothesis on.
Touched == {c \in WorkCards : c \in tried \/ claim[c] # 0 \/ \E a \in Slots : opened[a] = c}

\* Listed cards, the campaign's aside, that nobody works.
Loose == {c \in Open(listed) \ {Camp} : claim[c] = 0 /\ \A b \in Slots : opened[b] # c}

\* A made list is a window; a failed generator leaves none.
SourceInv == Clear =>
    /\ clean => \E M \in Listings(limit) :
                   core = Core(M) /\ Touched \subseteq M /\ listed \in {M, {}} /\ (~bad => listed = M)
    /\ ~clean => listed = {} /\ Touched = {} /\ core = 0
    /\ stage # "refresh" /\ ~bad => clean
    /\ bad => listed = {} /\ fails > 0

\* Once the window was reconsidered, it has room left or there is work on it.
Expanded ==
    stage \in {"assign", "reassign", "admit", "last"} /\ Grows /\ ~bad /\ Clear =>
        \/ ~WindowFull
        \/ \E a \in Slots : \E d \in Offers(a) : d \notin tried
        \/ Loose # {}

\* Once the lanes were, every slot's lane has work or is the best there is.
Assigned ==
    stage \in {"admit", "last"} /\ ~Pinned => \A a \in Slots : Works(a) \/ lane[a] \in Targets(a)

\* A lease is on a card that is still open, and so is a hypothesis, under its
\* slot's lease.
ClaimInv ==
    /\ \A c \in WorkCards : claim[c] # 0 => ~Closed(c)
    /\ \A a \in Slots : opened[a] # NoWork => claim[opened[a]] = a

\* Sessions run in their stage only, and only a free run looks twice.
StageInv ==
    /\ stage # "run" => running = {}
    /\ stage \in {"recheck", "reassign", "last"} => mode = "free"

LanesInv ==
    /\ LanesTypeOK /\ StageInv /\ ClaimInv /\ SourceInv /\ Expanded /\ Assigned
    /\ StopEarned /\ WindowBounded

\* The words that stand in the stages.
LEMMA StageWords ==
    {"refresh", "expand", "assign", "admit", "run", "recheck", "reassign", "last",
     "exhausted", "failed"} \subseteq Stages
  BY DEF Stages

LEMMA PoolFinite == IsFiniteSet(Pool) /\ IsFiniteSet(WorkCards) /\ Camp \notin Files
<1>1. IsFiniteSet(Files) /\ Camp \notin Files BY LanesAssumption
<1>2. Pool \in SUBSET Files BY DEF Pool
<1>3. IsFiniteSet(Files \cup {Camp}) BY <1>1, FS_AddElement
<1> QED BY <1>1, <1>2, <1>3, FS_Subset DEF WorkCards

\* A wider window has no less room, and never more than asked for.
LEMMA RoomGrows ==
    ASSUME NEW v \in Limits, NEW w \in Limits, v <= w
    PROVE  v \in Nat /\ w \in Nat /\ Room(v) \in Nat /\ Room(w) \in Nat /\ Room(v) <= v /\ Room(v) <= Room(w)
<1>1. Cardinality(Files) \in Nat /\ Base \in Nat BY LanesAssumption, FS_CardinalityType
<1>2. v \in Nat /\ w \in Nat BY <1>1 DEF Limits
<1>3. Held[v] \in Nat /\ Held[w] \in Nat /\ Held[v] <= v /\ Held[v] <= Held[w] BY LanesAssumption
<1> QED BY <1>2, <1>3 DEF Room

\* A wider window holds the narrower one.
LEMMA WindowGrows ==
    ASSUME NEW v \in Limits, NEW w \in Limits, v <= w, NEW S \in Windows(v), NEW T \in Windows(w)
    PROVE  S \subseteq T
<1>1. S \in SUBSET Pool /\ T \in SUBSET Pool BY DEF Windows
<1>2. IsFiniteSet(S) /\ IsFiniteSet(T) BY <1>1, PoolFinite, FS_Subset
<1>3. Cardinality(S) \in Nat /\ Cardinality(T) \in Nat BY <1>2, FS_CardinalityType
<1>4. SUFFICES ASSUME NEW x \in S, x \notin T PROVE FALSE
  OBVIOUS
<1>5. ASSUME NEW y \in T PROVE y \in S
  <2>1. x \in Nat /\ y \in Nat BY <1>1, LanesAssumption DEF Pool
  <2>2. ~(x < y) BY <1>1, <1>4, <1>5 DEF Windows
  <2>3. y < x \/ y = x BY <2>1, <2>2
  <2> QED BY <2>3, <1>1, <1>4, <1>5 DEF Windows
<1>6. T \in SUBSET S BY <1>5
<1>7. Cardinality(T) <= Cardinality(S) /\ (Cardinality(S) = Cardinality(T) => S = T)
  BY <1>2, <1>6, FS_Subset
<1>8. T # Pool BY <1>1, <1>4
<1>9. Cardinality(T) = Room(w) /\ Cardinality(S) <= Room(v) BY <1>8 DEF Windows
<1>10. S = T BY <1>3, <1>7, <1>9, RoomGrows
<1> QED BY <1>4, <1>10

\* What a list is made of, and how many files it has.
LEMMA ListingFacts ==
    ASSUME NEW w, NEW M \in Listings(w)
    PROVE  /\ M \subseteq Pool \cup Unranked /\ M \subseteq WorkCards
           /\ M = (M \cap Pool) \cup Unranked /\ M \ {Camp} = M \cap Pool
           /\ Grows => M \cap Pool \in Windows(w)
           /\ ~Grows => M = Pool \cup Unranked
           /\ Core(M) \in 0 .. Cardinality(Files)
<1>1. PICK S \in SUBSET Pool : M = S \cup Unranked /\ S \in (IF Grows THEN Windows(w) ELSE {Pool})
  BY DEF Listings, Windows
<1>2. Unranked \subseteq {Camp} /\ Unranked \subseteq WorkCards /\ Pool \subseteq Files BY DEF Unranked, WorkCards, Pool
<1>3. Camp \notin Pool BY <1>2, PoolFinite
<1>4. M \cap Pool = S /\ M \ {Camp} = S BY <1>1, <1>2, <1>3
<1>5. S \in SUBSET Files /\ IsFiniteSet(Files) BY <1>2, LanesAssumption
<1>6. Cardinality(S) \in Nat /\ Cardinality(S) <= Cardinality(Files) /\ Cardinality(Files) \in Nat
  BY <1>5, FS_Subset, FS_CardinalityType
<1>7. Core(M) \in 0 .. Cardinality(Files) BY <1>4, <1>6 DEF Core
<1> QED BY <1>1, <1>2, <1>4, <1>7 DEF WorkCards

\* A list holds the one of a narrower window, and no more than its own.
LEMMA ListingGrows ==
    ASSUME NEW v \in Limits, NEW w \in Limits, v <= w, NEW M \in Listings(v), NEW N \in Listings(w)
    PROVE  M \subseteq N /\ (Grows => Core(M) <= v)
<1>1. CASE ~Grows BY <1>1, ListingFacts
<1>2. CASE Grows
  <2>1. M \cap Pool \in Windows(v) /\ N \cap Pool \in Windows(w) BY <1>2, ListingFacts
  <2>2. M \cap Pool \subseteq N \cap Pool BY <2>1, WindowGrows
  <2>3. M = (M \cap Pool) \cup Unranked /\ N = (N \cap Pool) \cup Unranked /\ M \ {Camp} = M \cap Pool
    BY ListingFacts
  <2>4. Core(M) <= Room(v) /\ Core(M) \in Nat
    <3>1. Core(M) \in 0 .. Cardinality(Files) BY ListingFacts
    <3> QED BY <2>1, <2>3, <3>1 DEF Core, Windows
  <2>5. Core(M) <= v BY <2>4, RoomGrows
  <2> QED BY <2>2, <2>3, <2>5
<1> QED BY <1>1, <1>2

\* Where the window stands, and how far it can go.
LEMMA LimitTypes ==
    ASSUME LanesTypeOK, WindowBounded
    PROVE  limit \in Limits /\ (WindowFull => limit + Base \in Limits) /\ limit < limit + Base
<1>1. Cardinality(Files) \in Nat /\ Base \in Nat /\ Base > 0 BY LanesAssumption, FS_CardinalityType
<1>2. limit \in Nat /\ limit > 0 /\ core \in Nat /\ core <= Cardinality(Files) BY <1>1 DEF LanesTypeOK
<1> QED BY <1>1, <1>2 DEF WindowBounded, WindowFull, Limits

\* A lane is supplied when somebody could be offered one of its cards.
LEMMA CountPositive ==
    ASSUME LanesTypeOK, NEW l
    PROVE  Count(l) > 0 <=> \E c \in Open(listed) : claim[c] = 0 /\ l \in Serves(c)
<1> DEFINE S == {c \in Open(listed) : claim[c] = 0 /\ l \in Serves(c)}
<1>1. S \in SUBSET WorkCards BY DEF LanesTypeOK, Open
<1>2. IsFiniteSet(S) BY <1>1, PoolFinite, FS_Subset
<1>3. Cardinality(S) \in Nat /\ (Cardinality(S) = 0 <=> S = {}) BY <1>2, FS_CardinalityType, FS_EmptySet
<1>4. Count(l) > 0 <=> S # {} BY <1>3 DEF Count
<1> QED BY <1>4

\* What Refresh does to the list.
LEMMA RefreshTypes ==
    ASSUME LanesTypeOK, NEW w \in Nat \ {0}, Refresh(w), mode' = mode
    PROVE  /\ listed' \subseteq WorkCards /\ limit' \in Nat \ {0} /\ core' \in 0 .. Cardinality(Files)
           /\ clean' \in BOOLEAN /\ bad' \in BOOLEAN /\ fails' \in 0 .. MaxFails
<1> PICK S \in Listings(w) :
        \/ /\ listed' = S /\ limit' = w /\ core' = Core(S)
           /\ clean' = TRUE /\ bad' = FALSE /\ UNCHANGED fails
        \/ /\ fails < MaxFails /\ fails' = fails + 1 /\ UNCHANGED <<limit, core, clean>>
           /\ \/ mode = "free" /\ listed' = S /\ UNCHANGED bad
              \/ listed' = (IF mode = "delta" THEN listed ELSE {}) /\ bad' = TRUE
  BY DEF Refresh
<1>1. S \subseteq WorkCards /\ Core(S) \in 0 .. Cardinality(Files) BY ListingFacts
<1>2. fails' \in 0 .. MaxFails BY LanesAssumption DEF LanesTypeOK
<1>3. listed' \subseteq WorkCards BY <1>1 DEF LanesTypeOK
<1> QED BY <1>1, <1>2, <1>3 DEF LanesTypeOK

\* A streak does not grow past its bound.
LEMMA DryTypes ==
    ASSUME streak \in [Slots -> 0 .. (DryS1 + ForceExtra)]
    PROVE  0 \in 0 .. (DryS1 + ForceExtra) /\ \A a \in Slots : DryFor(a) \in 0 .. (DryS1 + ForceExtra)
<1>1. DryS1 \in Nat /\ ForceExtra \in Nat BY LanesAssumption
<1>2. ASSUME NEW a \in Slots PROVE DryFor(a) \in 0 .. (DryS1 + ForceExtra)
  <2>1. streak[a] \in 0 .. (DryS1 + ForceExtra) OBVIOUS
  <2> QED BY <1>1, <2>1 DEF DryFor
<1> QED BY <1>1, <1>2

\* Every step keeps the types.
LEMMA LanesTypeStep == LanesTypeOK /\ [LanesNext]_laneVars => LanesTypeOK'
<1> SUFFICES ASSUME LanesTypeOK, [LanesNext]_laneVars PROVE LanesTypeOK'
  OBVIOUS
<1> USE StageWords DEF LanesTypeOK, list, slots, queue, Go
<1>1. CASE UNCHANGED laneVars BY <1>1 DEF laneVars
<1>2. CASE StartGeneration
  <2>1. claim' \in [WorkCards -> Slots \cup {0}] BY <1>2 DEF StartGeneration
  <2>2. iter' \in 0 .. 2 BY <1>2 DEF StartGeneration
  <2>3. /\ listed' \subseteq WorkCards /\ limit' \in Nat \ {0} /\ core' \in 0 .. Cardinality(Files)
        /\ clean' \in BOOLEAN /\ bad' \in BOOLEAN /\ fails' \in 0 .. MaxFails
    <3>1. CASE UNCHANGED list BY <3>1
    <3>2. CASE Refresh(limit) BY <1>2, <3>2, RefreshTypes DEF StartGeneration
    <3> QED BY <1>2, <3>1, <3>2 DEF StartGeneration
  <2>4. stage' \in Stages BY <1>2 DEF StartGeneration
  <2> QED BY <1>2, <2>1, <2>2, <2>3, <2>4 DEF StartGeneration
<1>3. CASE ExpandStep
  <2>1. stage' \in Stages BY <1>3 DEF ExpandStep
  <2>2. limit + Base \in Nat \ {0} BY LanesAssumption
  <2>3. /\ listed' \subseteq WorkCards /\ limit' \in Nat \ {0} /\ core' \in 0 .. Cardinality(Files)
        /\ clean' \in BOOLEAN /\ bad' \in BOOLEAN /\ fails' \in 0 .. MaxFails
    <3>1. CASE UNCHANGED list BY <3>1
    <3>2. CASE Refresh(limit + Base) BY <1>3, <2>2, <3>2, RefreshTypes DEF ExpandStep
    <3> QED BY <1>3, <3>1, <3>2 DEF ExpandStep, Expand
  <2> QED BY <1>3, <2>1, <2>3 DEF ExpandStep
<1>4. CASE AssignStep
  <2>1. stage' \in Stages BY <1>4 DEF AssignStep
  <2>2. CASE UNCHANGED lane BY <1>4, <2>1, <2>2 DEF AssignStep
  <2>3. ASSUME NEW to \in [Slots -> Lanes \cup {Pin}], lane' = to,
               \A a \in Slots : to[a] \in (IF Works(a) THEN {lane[a]} ELSE Targets(a))
        PROVE  LanesTypeOK'
    <3>1. ASSUME NEW a \in Slots, opened[a] # NoWork PROVE lane'[a] \in Serves(opened[a])
      <4>1. opened[a] \in WorkCards /\ lane[a] \in Serves(opened[a]) BY <3>1
      <4>2. Works(a) BY <4>1 DEF Works
      <4> QED BY <2>3, <4>1, <4>2
    <3> QED BY <1>4, <2>1, <2>3, <3>1 DEF AssignStep
  <2> QED BY <1>4, <2>2, <2>3 DEF AssignStep, Assign
<1>5. CASE Admit
  <2>1. stage' \in Stages /\ running' \subseteq Slots BY <1>5 DEF Admit
  <2> QED BY <1>5, <2>1 DEF Admit
<1>6. CASE Score
  <2>1. stage' \in Stages BY <1>6 DEF Score
  <2>2. CASE UNCHANGED slots BY <1>6, <2>1, <2>2 DEF Score
  <2>3. CASE Rotate
    <3>1. PICK complete \in BOOLEAN, pick \in [Slots -> Lanes \cup {Pin}] :
             /\ \A a \in Slots : pick[a] \in IF Rotates(a, complete) THEN Onto(a) ELSE {lane[a]}
             /\ lane' = pick
             /\ streak' = [a \in Slots |-> IF Rotates(a, complete) THEN 0 ELSE DryFor(a)]
      BY <2>3 DEF Rotate
    <3>2. \A a \in Slots : DryFor(a) \in 0 .. (DryS1 + ForceExtra) BY DryTypes
    <3>3. 0 \in 0 .. (DryS1 + ForceExtra) BY DryTypes
    <3>4. streak' \in [Slots -> 0 .. (DryS1 + ForceExtra)] BY <3>1, <3>2, <3>3
    <3>5. \A a \in Slots : opened[a] # NoWork => lane'[a] = lane[a] BY <3>1 DEF Rotates
    <3>6. lane' \in [Slots -> Lanes \cup {Pin}] BY <3>1
    <3> QED BY <1>6, <2>1, <3>4, <3>5, <3>6 DEF Score
  <2> QED BY <1>6, <2>2, <2>3 DEF Score
<1>7. CASE Recheck
  <2>1. stage' \in Stages BY <1>7 DEF Recheck
  <2> QED BY <1>7, <2>1 DEF Recheck
<1>8. ASSUME NEW a \in Slots, Claim(a) PROVE LanesTypeOK'
  <2>1. claim' \in [WorkCards -> Slots \cup {0}] BY <1>8 DEF Claim
  <2> QED BY <1>8, <2>1 DEF Claim
<1>9. ASSUME NEW a \in Slots, Open1(a) PROVE LanesTypeOK'
  <2>1. PICK c \in Offers(a) : opened' = [opened EXCEPT ![a] = c] /\ tried' = tried \cup {c}
    BY <1>9 DEF Open1
  <2>2. c \in WorkCards /\ lane[a] \in Serves(c) BY DEF Offers, Open
  <2>3. tried' \subseteq WorkCards /\ shut' \subseteq tried' BY <1>9, <2>1, <2>2 DEF Open1
  <2>4. opened' \in [Slots -> WorkCards \cup {NoWork}] BY <2>1, <2>2
  <2> QED BY <1>9, <2>1, <2>2, <2>3, <2>4 DEF Open1
<1>10. ASSUME NEW a \in Slots, Conclude(a) PROVE LanesTypeOK'
  <2>1. claim' \in [WorkCards -> Slots \cup {0}] BY <1>10 DEF Conclude
  <2>2. opened' \in [Slots -> WorkCards \cup {NoWork}] BY <1>10 DEF Conclude
  <2>3. opened[a] \in tried BY <1>10 DEF Conclude
  <2>4. shut' \subseteq tried' BY <1>10, <2>3 DEF Conclude
  <2> QED BY <1>10, <2>1, <2>2, <2>4 DEF Conclude
<1>11. ASSUME NEW a \in Slots, EndSession(a) PROVE LanesTypeOK' BY <1>11 DEF EndSession
<1> QED BY <1>1, <1>2, <1>3, <1>4, <1>5, <1>6, <1>7, <1>8, <1>9, <1>10, <1>11 DEF LanesNext, Scheduler, Session

\* A slot keeps its lane while a hypothesis of it is open.
LEMMA HeldStep ==
    LanesTypeOK /\ [LanesNext]_laneVars => \A a \in Slots : opened[a] # NoWork => lane'[a] = lane[a]
<1> SUFFICES ASSUME LanesTypeOK, [LanesNext]_laneVars, NEW a \in Slots, opened[a] # NoWork
             PROVE  lane'[a] = lane[a]
  OBVIOUS
<1>1. CASE UNCHANGED lane BY <1>1
<1>2. CASE AssignStep
  <2>1. Works(a) BY DEF LanesTypeOK, Works
  <2> QED BY <1>2, <2>1 DEF AssignStep, Assign
<1>3. CASE Score BY <1>3 DEF Score, Rotate, Rotates, slots
<1> QED BY <1>1, <1>2, <1>3 DEF LanesNext, laneVars, slots, Scheduler, Session, StartGeneration,
     ExpandStep, Admit, Recheck, Claim, Open1, Conclude, EndSession

LEMMA StageStep == LanesTypeOK /\ StageInv /\ [LanesNext]_laneVars => StageInv'
  BY DEF StageInv, LanesNext, laneVars, Scheduler, Session, StartGeneration, ExpandStep, AssignStep,
     Admit, Score, Recheck, Claim, Open1, Conclude, EndSession, Go

\* Every step keeps leases on open cards.
LEMMA ClaimStep == LanesTypeOK /\ ClaimInv /\ [LanesNext]_laneVars => ClaimInv'
<1> SUFFICES ASSUME LanesTypeOK, ClaimInv, [LanesNext]_laneVars PROVE ClaimInv'
  OBVIOUS
<1> USE LanesAssumption DEF LanesTypeOK, ClaimInv, Closed
<1>1. CASE UNCHANGED queue BY <1>1 DEF queue
<1>2. CASE StartGeneration BY <1>2 DEF StartGeneration
<1>3. ASSUME NEW a \in Slots, Claim(a) PROVE ClaimInv'
  <2>1. PICK c \in Offers(a) : claim' = [claim EXCEPT ![c] = a] BY <1>3 DEF Claim
  <2>2. c \in WorkCards /\ c \notin shut /\ \A b \in Slots : opened[b] # c BY <2>1 DEF Offers, Open
  <2>3. UNCHANGED <<shut, opened>> BY <1>3 DEF Claim
  <2> QED BY <2>1, <2>2, <2>3
<1>4. ASSUME NEW a \in Slots, Open1(a) PROVE ClaimInv'
  <2>1. PICK d \in Offers(a) : claim[d] = a /\ opened' = [opened EXCEPT ![a] = d] BY <1>4 DEF Open1
  <2>2. UNCHANGED <<shut, claim>> BY <1>4 DEF Open1
  <2> QED BY <2>1, <2>2
<1>5. ASSUME NEW a \in Slots, Conclude(a) PROVE ClaimInv'
  <2>1. opened[a] \in WorkCards /\ claim[opened[a]] = a BY <1>5 DEF Conclude
  <2>2. /\ claim' = [claim EXCEPT ![opened[a]] = 0] /\ opened' = [opened EXCEPT ![a] = NoWork]
        /\ shut' \subseteq shut \cup {opened[a]}
    BY <1>5, <2>1 DEF Conclude
  <2>3. \A c \in WorkCards : claim'[c] # 0 => c # opened[a] /\ claim'[c] = claim[c] BY <2>1, <2>2
  <2>4. \A c \in WorkCards : claim'[c] # 0 => c \notin shut' BY <2>2, <2>3
  <2>5. ASSUME NEW b \in Slots, opened'[b] # NoWork PROVE claim'[opened'[b]] = b
    <3>1. b # a /\ opened'[b] = opened[b] BY <2>2, <2>5
    <3>2. opened[b] \in WorkCards /\ claim[opened[b]] = b BY <2>5, <3>1
    <3>3. opened[b] # opened[a] BY <2>1, <3>1, <3>2
    <3> QED BY <2>2, <3>1, <3>2, <3>3
  <2> QED BY <2>4, <2>5
<1> QED BY <1>1, <1>2, <1>3, <1>4, <1>5 DEF LanesNext, laneVars, queue, Scheduler, Session,
     ExpandStep, AssignStep, Admit, Score, Recheck, EndSession

\* The pool and its windows stay: the mode does.
LEMMA ListingsStay ==
    ASSUME mode' = mode
    PROVE  /\ Listings(limit)' = Listings(limit') /\ Pool' = Pool /\ Unranked' = Unranked
           /\ Grows' <=> Grows
<1>1. Pool' = Pool BY DEF Pool, Pinned
<1>2. Unranked' = Unranked BY DEF Unranked
<1>3. Grows' <=> Grows BY DEF Grows
<1>4. Windows(limit)' = Windows(limit') BY <1>1 DEF Windows, Room
<1> QED BY <1>1, <1>2, <1>3, <1>4 DEF Listings

\* A step that leaves the list alone works what is on it.
LEMMA SourceFrame ==
    ASSUME SourceInv, mode' = mode, UNCHANGED list, Touched' \subseteq Touched \cup listed,
           stage' # "refresh" => stage # "refresh" \/ clean
    PROVE  SourceInv'
<1>1. Clear' <=> Clear BY DEF Clear, list
<1>2. SUFFICES ASSUME Clear
               PROVE  /\ clean' => \E M \in Listings(limit)' :
                            /\ core' = Core(M)' /\ Touched' \subseteq M
                            /\ listed' \in {M, {}} /\ (~bad' => listed' = M)
                      /\ ~clean' => listed' = {} /\ Touched' = {} /\ core' = 0
                      /\ stage' # "refresh" /\ ~bad' => clean'
                      /\ bad' => listed' = {} /\ fails' > 0
  BY <1>1 DEF SourceInv
<1>3. Listings(limit)' = Listings(limit) BY ListingsStay DEF list
<1>4. CASE clean
  <2>1. PICK M \in Listings(limit) : /\ core = Core(M) /\ Touched \subseteq M
                                     /\ listed \in {M, {}} /\ (~bad => listed = M)
    BY <1>2, <1>4 DEF SourceInv
  <2>2. Touched' \subseteq M BY <2>1
  <2>3. core' = Core(M)' BY <2>1 DEF list, Core
  <2> QED BY <1>2, <1>3, <1>4, <2>1, <2>2, <2>3 DEF list, SourceInv
<1>5. CASE ~clean BY <1>2, <1>5 DEF SourceInv, list
<1> QED BY <1>4, <1>5

\* A new list holds what anybody worked.
LEMMA RefreshSource ==
    ASSUME LanesTypeOK, WindowBounded, SourceInv, NEW w \in Limits, limit <= w, Refresh(w), mode' = mode,
           Touched' \subseteq Touched, ~clean \/ Grows
    PROVE  SourceInv'
<1>1. limit \in Limits BY LimitTypes
<1>2. SUFFICES ASSUME Clear'
               PROVE  /\ clean' => \E M \in Listings(limit)' :
                            /\ core' = Core(M)' /\ Touched' \subseteq M
                            /\ listed' \in {M, {}} /\ (~bad' => listed' = M)
                      /\ ~clean' => listed' = {} /\ Touched' = {} /\ core' = 0
                      /\ stage' # "refresh" /\ ~bad' => clean'
                      /\ bad' => listed' = {} /\ fails' > 0
  BY DEF SourceInv
<1>3. PICK S \in Listings(w) :
        \/ /\ listed' = S /\ limit' = w /\ core' = Core(S)
           /\ clean' = TRUE /\ bad' = FALSE /\ UNCHANGED fails
        \/ /\ fails < MaxFails /\ fails' = fails + 1 /\ UNCHANGED <<limit, core, clean>>
           /\ \/ mode = "free" /\ listed' = S /\ UNCHANGED bad
              \/ listed' = (IF mode = "delta" THEN listed ELSE {}) /\ bad' = TRUE
  BY DEF Refresh
<1>4. CASE /\ listed' = S /\ limit' = w /\ core' = Core(S)
           /\ clean' = TRUE /\ bad' = FALSE /\ UNCHANGED fails
  <2>1. Clear BY <1>2, <1>4 DEF Clear
  <2>2. Touched \subseteq S
    <3>1. CASE clean
      <4>1. PICK M \in Listings(limit) : Touched \subseteq M BY <2>1, <3>1 DEF SourceInv
      <4> QED BY <1>1, <4>1, ListingGrows
    <3> QED BY <2>1, <3>1 DEF SourceInv
  <2>3. S \in Listings(limit)' BY <1>4, ListingsStay
  <2>4. core' = Core(S)' BY <1>4 DEF Core
  <2> QED BY <1>4, <2>2, <2>3, <2>4
<1>5. CASE /\ fails' = fails + 1 /\ UNCHANGED <<limit, core, clean>>
           /\ listed' = (IF mode = "delta" THEN listed ELSE {}) /\ bad' = TRUE
  <2>1. mode # "free" /\ Clear /\ fails' > 0 BY <1>2, <1>5 DEF Clear, LanesTypeOK
  <2>2. listed' = {} BY <1>5, <2>1 DEF SourceInv, Grows
  <2>3. CASE clean
    <3>1. PICK M \in Listings(limit) : core = Core(M) /\ Touched \subseteq M BY <2>1, <2>3 DEF SourceInv
    <3>2. M \in Listings(limit)' BY <1>5, <3>1, ListingsStay
    <3>3. core' = Core(M)' BY <1>5, <3>1 DEF Core
    <3> QED BY <1>5, <2>1, <2>2, <2>3, <3>1, <3>2, <3>3
  <2>4. CASE ~clean BY <1>5, <2>1, <2>2, <2>4 DEF SourceInv
  <2> QED BY <2>3, <2>4
<1>6. ~(mode = "free" /\ fails' = fails + 1) BY <1>2 DEF Clear, LanesTypeOK
<1> QED BY <1>3, <1>4, <1>5, <1>6

\* The list stays what SourceInv says through every step.
LEMMA SourceStep == LanesTypeOK /\ WindowBounded /\ SourceInv /\ [LanesNext]_laneVars => SourceInv'
<1> SUFFICES ASSUME LanesTypeOK, WindowBounded, SourceInv, [LanesNext]_laneVars PROVE SourceInv'
  OBVIOUS
<1>1. mode' = mode
  BY DEF LanesNext, laneVars, Scheduler, Session, StartGeneration, ExpandStep, AssignStep, Admit, Score,
     Recheck, Claim, Open1, Conclude, EndSession
<1>2. UNCHANGED queue => Touched' = Touched BY DEF queue, Touched
<1>3. limit \in Limits /\ limit <= limit BY LimitTypes DEF LanesTypeOK
<1>4. CASE UNCHANGED <<list, queue, stage>>
  <2>1. UNCHANGED list /\ UNCHANGED queue /\ UNCHANGED stage BY <1>4
  <2> QED BY <1>1, <1>2, <2>1, SourceFrame
<1>5. CASE StartGeneration
  <2>1. Touched' \subseteq Touched BY <1>5 DEF StartGeneration, Touched, LanesTypeOK
  <2>2. CASE clean BY <1>1, <1>5, <2>1, <2>2, SourceFrame DEF StartGeneration
  <2>3. CASE ~clean
    <3>1. Refresh(limit) BY <1>5, <2>3 DEF StartGeneration
    <3> QED BY <1>1, <1>3, <2>1, <2>3, <3>1, RefreshSource
  <2> QED BY <2>2, <2>3
<1>6. CASE ExpandStep
  <2>1. Touched' = Touched BY <1>2, <1>6 DEF ExpandStep
  <2>2. stage # "refresh" BY <1>6 DEF ExpandStep
  <2>3. CASE UNCHANGED list BY <1>1, <2>1, <2>2, <2>3, SourceFrame
  <2>4. CASE Grows /\ WindowFull /\ Refresh(limit + Base)
    <3>1. limit + Base \in Limits /\ limit <= limit + Base BY <2>4, LimitTypes, LanesAssumption DEF LanesTypeOK
    <3> QED BY <1>1, <2>1, <2>4, <3>1, RefreshSource
  <2> QED BY <1>6, <2>3, <2>4 DEF ExpandStep, Expand
<1>7. CASE AssignStep \/ Admit \/ Score \/ Recheck
  <2>1. UNCHANGED list /\ UNCHANGED queue /\ stage # "refresh"
    BY <1>7 DEF AssignStep, Admit, Score, Recheck
  <2> QED BY <1>1, <1>2, <2>1, SourceFrame
<1>8. ASSUME NEW a \in Slots, Claim(a) PROVE SourceInv'
  <2>1. PICK c \in Offers(a) : claim' = [claim EXCEPT ![c] = a] BY <1>8 DEF Claim
  <2>2. c \in listed /\ UNCHANGED <<tried, opened>> BY <1>8 DEF Offers, Open, Claim
  <2>3. Touched' \subseteq Touched \cup listed BY <2>1, <2>2 DEF Touched, LanesTypeOK
  <2>4. UNCHANGED list /\ UNCHANGED stage BY <1>8 DEF Claim
  <2> QED BY <1>1, <2>3, <2>4, SourceFrame
<1>9. ASSUME NEW a \in Slots, Open1(a) PROVE SourceInv'
  <2>1. PICK c \in Offers(a) : opened' = [opened EXCEPT ![a] = c] /\ tried' = tried \cup {c}
    BY <1>9 DEF Open1
  <2>2. c \in listed /\ claim' = claim BY <1>9 DEF Offers, Open, Open1
  <2>3. Touched' \subseteq Touched \cup listed BY <2>1, <2>2 DEF Touched, LanesTypeOK
  <2>4. UNCHANGED list /\ UNCHANGED stage BY <1>9 DEF Open1
  <2> QED BY <1>1, <2>3, <2>4, SourceFrame
<1>10. ASSUME NEW a \in Slots, Conclude(a) PROVE SourceInv'
  <2>1. /\ claim' = [claim EXCEPT ![opened[a]] = IF @ = a THEN 0 ELSE @]
        /\ opened' = [opened EXCEPT ![a] = NoWork] /\ tried' = tried
    BY <1>10 DEF Conclude
  <2>2. NoWork \notin WorkCards BY LanesAssumption DEF NoWork, WorkCards, Camp
  <2>3. Touched' \subseteq Touched BY <2>1, <2>2 DEF Touched, LanesTypeOK
  <2>4. UNCHANGED list /\ UNCHANGED stage BY <1>10 DEF Conclude
  <2> QED BY <1>1, <2>3, <2>4, SourceFrame
<1>11. ASSUME NEW a \in Slots, EndSession(a) PROVE SourceInv' BY <1>4, <1>11 DEF EndSession
<1> QED BY <1>4, <1>5, <1>6, <1>7, <1>8, <1>9, <1>10, <1>11 DEF LanesNext, laneVars, Scheduler, Session

\* What the list is while no generator failed.
LEMMA ListIsWindow ==
    ASSUME SourceInv, Clear, ~bad, stage # "refresh"
    PROVE  listed \in Listings(limit) /\ core = Core(listed) /\ Touched \subseteq listed
<1>1. clean BY DEF SourceInv
<1> QED BY <1>1 DEF SourceInv

\* A card that a wider list adds is nobody's.
LEMMA AddedIsLoose ==
    ASSUME LanesTypeOK, WindowBounded, WindowFull, SourceInv, Clear, clean, Grows,
           NEW S \in Listings(limit + Base), listed' = S, UNCHANGED queue
    PROVE  Core(S) < limit + Base \/ Loose' # {}
<1>1. limit \in Limits /\ limit + Base \in Limits /\ limit <= limit + Base /\ limit < limit + Base
  BY LimitTypes, LanesAssumption DEF LanesTypeOK
<1>2. PICK M \in Listings(limit) : Touched \subseteq M BY DEF SourceInv
<1>3. M \subseteq S /\ Core(M) <= limit BY <1>1, <1>2, ListingGrows
<1>4. CASE M = S
  <2>1. Core(S) \in Nat /\ limit \in Nat /\ Base \in Nat
    <3>1. Core(S) \in 0 .. Cardinality(Files) BY ListingFacts
    <3> QED BY <3>1, LanesAssumption DEF LanesTypeOK
  <2> QED BY <1>1, <1>3, <1>4, <2>1
<1>5. ASSUME NEW c \in S, c \notin M PROVE c \in Loose'
  <2>1. c \in WorkCards /\ M = (M \cap Pool) \cup Unranked /\ S = (S \cap Pool) \cup Unranked
    BY <1>2, <1>5, ListingFacts
  <2>2. c \in Pool BY <1>5, <2>1
  <2>3. c # Camp BY <2>2, PoolFinite DEF Pool
  <2>4. c \notin tried /\ claim[c] = 0 /\ \A b \in Slots : opened[b] # c BY <1>2, <1>5, <2>1 DEF Touched
  <2>5. c \notin shut BY <2>4 DEF LanesTypeOK
  <2>6. ~Closed(c)' BY <2>5 DEF Closed, queue
  <2>7. c \in Open(listed)' BY <1>5, <2>6 DEF Open
  <2> QED BY <2>3, <2>4, <2>7 DEF Loose, queue
<1> QED BY <1>3, <1>4, <1>5

\* Looking at the window once more leaves it with room, or a card to work.
LEMMA ExpandKeeps ==
    ASSUME LanesTypeOK, WindowBounded, SourceInv, ExpandStep, Grows, ~bad', Clear'
    PROVE  \/ ~WindowFull'
           \/ \E a \in Slots : \E d \in Offers(a)' : d \notin tried'
           \/ Loose' # {}
<1>1. UNCHANGED queue /\ UNCHANGED slots /\ UNCHANGED mode /\ stage # "refresh" BY DEF ExpandStep
<1>2. CASE UNCHANGED list /\ ~Spent
  <2>1. \A a \in Slots : Offers(a)' = Offers(a)
    BY <1>1, <1>2 DEF Offers, Open, Closed, queue, slots, list
  <2> QED BY <1>1, <1>2, <2>1 DEF Spent, queue
<1>3. CASE UNCHANGED list /\ ~WindowFull BY <1>3 DEF WindowFull, list
<1>4. CASE WindowFull /\ Refresh(limit + Base)
  <2>1. PICK S \in Listings(limit + Base) :
          \/ listed' = S /\ limit' = limit + Base /\ core' = Core(S) /\ UNCHANGED fails
          \/ fails' = fails + 1 /\ (mode = "free" \/ bad' = TRUE)
    BY <1>4 DEF Refresh
  <2>2. listed' = S /\ limit' = limit + Base /\ core' = Core(S) /\ UNCHANGED fails
    BY <1>1, <2>1 DEF Clear, LanesTypeOK
  <2>3. Clear BY <1>1, <2>2 DEF Clear
  <2>4. clean
    <3>1. core # 0 BY <1>4 DEF WindowFull, LanesTypeOK
    <3> QED BY <2>3, <3>1 DEF SourceInv
  <2>5. Core(S) < limit + Base \/ Loose' # {} BY <1>1, <1>4, <2>2, <2>3, <2>4, AddedIsLoose
  <2>6. Core(S) \in 0 .. Cardinality(Files) /\ Cardinality(Files) \in Nat BY ListingFacts, LanesAssumption, FS_CardinalityType
  <2>7. Core(S) < limit + Base => ~(Core(S) >= limit + Base) BY <2>6, LanesAssumption DEF LanesTypeOK
  <2> QED BY <2>2, <2>5, <2>7 DEF WindowFull
<1> QED BY <1>1, <1>2, <1>3, <1>4 DEF ExpandStep, Expand

\* The lanes change around the cards that are offered.
LEMMA AssignKeeps ==
    ASSUME LanesTypeOK, AssignStep, NEW a \in Slots, NEW d \in Offers(a)
    PROVE  d \in Offers(a)'
<1>1. /\ UNCHANGED list /\ UNCHANGED queue /\ d \in Open(listed) /\ d \in WorkCards
      /\ lane[a] \in Serves(d) /\ claim[d] \in {0, a} /\ \A b \in Slots : opened[b] # d
  BY DEF AssignStep, Offers, Open, LanesTypeOK
<1>2. claim[d] = 0 => Count(lane[a]) > 0 BY <1>1, CountPositive
<1>3. Works(a) BY <1>1, <1>2 DEF Works
<1>4. lane'[a] = lane[a] BY <1>3 DEF AssignStep, Assign
<1>5. d \in Open(listed)' BY <1>1 DEF Open, Closed, list, queue
<1> QED BY <1>1, <1>4, <1>5 DEF Offers, queue

LEMMA ExpandedStep ==
    LanesTypeOK /\ WindowBounded /\ StageInv /\ SourceInv /\ Expanded /\ [LanesNext]_laneVars => Expanded'
<1> SUFFICES ASSUME LanesTypeOK, WindowBounded, StageInv, SourceInv, Expanded, [LanesNext]_laneVars PROVE Expanded'
  OBVIOUS
<1>1. CASE ExpandStep
  <2>1. mode' = mode BY <1>1 DEF ExpandStep
  <2>2. Pool' = Pool /\ Unranked' = Unranked /\ (Grows' <=> Grows) BY <2>1, ListingsStay
  <2> QED BY <1>1, <2>2, ExpandKeeps DEF Expanded
<1>2. CASE AssignStep
  <2>1. UNCHANGED list /\ UNCHANGED queue /\ mode' = mode /\ stage \in {"assign", "reassign"}
    BY <1>2 DEF AssignStep
  <2>2. Pool' = Pool /\ Unranked' = Unranked /\ (Grows' <=> Grows) BY <2>1, ListingsStay
  <2>3. Loose' = Loose BY <2>1 DEF Loose, Open, Closed, list, queue
  <2>4. ASSUME NEW a \in Slots, NEW d \in Offers(a), d \notin tried
        PROVE  \E b \in Slots : \E e \in Offers(b)' : e \notin tried'
    BY <1>2, <2>1, <2>4, AssignKeeps DEF queue
  <2> QED BY <2>1, <2>2, <2>3, <2>4 DEF Expanded, Clear, WindowFull, list
<1>3. CASE stage' \notin {"assign", "reassign", "admit", "last"} BY <1>3 DEF Expanded
<1>4. CASE UNCHANGED laneVars
  <2>1. UNCHANGED list /\ UNCHANGED queue /\ UNCHANGED slots /\ mode' = mode /\ UNCHANGED stage
    BY <1>4 DEF laneVars
  <2>2. Pool' = Pool /\ Unranked' = Unranked /\ (Grows' <=> Grows) BY <2>1, ListingsStay
  <2>3. Loose' = Loose BY <2>1 DEF Loose, Open, Closed, list, queue
  <2>4. \A a \in Slots : Offers(a)' = Offers(a) BY <2>1 DEF Offers, Open, Closed, queue, slots, list
  <2> QED BY <2>1, <2>2, <2>3, <2>4 DEF Expanded, Clear, WindowFull, list, queue
<1>5. ASSUME \/ StartGeneration \/ Admit \/ Score \/ Recheck
             \/ \E a \in Slots : Claim(a) \/ Open1(a) \/ Conclude(a) \/ EndSession(a)
      PROVE  stage' \notin {"assign", "reassign", "admit", "last"}
  BY <1>5 DEF StageInv, StartGeneration, Admit, Score, Recheck, Claim, Open1, Conclude, EndSession, Go
<1> QED BY <1>1, <1>2, <1>3, <1>4, <1>5 DEF LanesNext, Scheduler, Session

LEMMA AssignedStep == LanesTypeOK /\ StageInv /\ Assigned /\ [LanesNext]_laneVars => Assigned'
<1> SUFFICES ASSUME LanesTypeOK, StageInv, Assigned, [LanesNext]_laneVars PROVE Assigned'
  OBVIOUS
<1>1. ASSUME UNCHANGED list, UNCHANGED queue PROVE \A l : Count(l)' = Count(l)
  BY <1>1 DEF Count, Open, Closed, list, queue
<1>2. CASE AssignStep
  <2>1. UNCHANGED list /\ UNCHANGED queue /\ UNCHANGED mode BY <1>2 DEF AssignStep
  <2>2. \A l : Count(l)' = Count(l) BY <1>1, <2>1
  <2>3. ASSUME ~Pinned, NEW a \in Slots PROVE Works(a)' \/ lane'[a] \in Targets(a)'
    <3>1. lane'[a] \in (IF Works(a) THEN {lane[a]} ELSE Targets(a)) BY <1>2, <2>3 DEF AssignStep, Assign
    <3>2. Targets(a)' = Targets(a) BY <2>2 DEF Targets
    <3>3. Works(a) => Works(a)' BY <2>1, <2>2, <3>1 DEF Works, queue
    <3> QED BY <3>1, <3>2, <3>3
  <2> QED BY <2>1, <2>3 DEF Assigned, Pinned
<1>3. CASE stage' \notin {"admit", "last"} BY <1>3 DEF Assigned
<1>4. CASE UNCHANGED laneVars
  <2>1. UNCHANGED list /\ UNCHANGED queue /\ UNCHANGED slots /\ UNCHANGED mode /\ UNCHANGED stage
    BY <1>4 DEF laneVars
  <2>2. \A l : Count(l)' = Count(l) BY <1>1, <2>1
  <2>3. ASSUME NEW a \in Slots PROVE Targets(a)' = Targets(a) /\ (Works(a)' <=> Works(a))
    BY <2>1, <2>2 DEF Targets, Works, queue, slots
  <2> QED BY <2>1, <2>3 DEF Assigned, Pinned, slots
<1>5. ASSUME \/ StartGeneration \/ ExpandStep \/ Admit \/ Score \/ Recheck
             \/ \E a \in Slots : Claim(a) \/ Open1(a) \/ Conclude(a) \/ EndSession(a)
      PROVE  stage' \notin {"admit", "last"}
  BY <1>5 DEF StageInv, StartGeneration, ExpandStep, Admit, Score, Recheck, Claim, Open1, Conclude,
     EndSession, Go
<1> QED BY <1>2, <1>3, <1>4, <1>5 DEF LanesNext, Scheduler, Session

\* When no slot has anything, every card of the list that anybody may work is
\* closed or under a lease.
LEMMA Unreached ==
    ASSUME LanesTypeOK, ClaimInv, SourceInv, Assigned, ~Pinned, stage \in {"admit", "last"}, Clear, ~bad,
           \A a \in Slots : Skips(a),
           NEW c \in listed, c = Camp => Reserved \in Slots
    PROVE  Closed(c) \/ claim[c] # 0
<1> SUFFICES ASSUME ~Closed(c), claim[c] = 0 PROVE FALSE
  OBVIOUS
<1>1. \A a \in Slots : opened[a] = NoWork /\ Offers(a) = {} BY DEF Skips
<1>2. NoWork \notin WorkCards BY LanesAssumption DEF NoWork, WorkCards, Camp
<1>3. listed \subseteq WorkCards /\ Touched \subseteq listed BY ListIsWindow DEF LanesTypeOK
<1>4. \A a \in Slots : ~(Count(lane[a]) > 0)
  <2> SUFFICES ASSUME NEW a \in Slots, Count(lane[a]) > 0 PROVE FALSE
    OBVIOUS
  <2>1. PICK d \in Open(listed) : claim[d] = 0 /\ lane[a] \in Serves(d) BY CountPositive
  <2>2. d \in WorkCards BY <1>3 DEF Open
  <2>3. d \in Offers(a) BY <1>1, <1>2, <2>1, <2>2 DEF Offers
  <2> QED BY <1>1, <2>3
<1>5. \A a \in Slots : ~Works(a)
  <2> SUFFICES ASSUME NEW a \in Slots, Works(a) PROVE FALSE
    OBVIOUS
  <2>1. PICK d \in WorkCards : claim[d] = a /\ lane[a] \in Serves(d) BY <1>1, <1>2, <1>4 DEF Works
  <2>2. a # 0 BY LanesAssumption
  <2>3. d \in listed BY <1>3, <2>1, <2>2 DEF Touched
  <2>4. ~Closed(d) BY <1>1, <1>2, <2>1, <2>2 DEF ClaimInv
  <2>5. d \in Offers(a) BY <1>1, <1>2, <2>1, <2>3, <2>4 DEF Offers, Open
  <2> QED BY <1>1, <2>5
<1>6. \A a \in Slots : lane[a] \in Targets(a) BY <1>5 DEF Assigned
<1>7. \A l \in Serves(c) : Count(l) > 0 BY <1>3, CountPositive DEF Open
<1>8. \A a \in Slots : /\ lane[a] = "S1" /\ ~(a = Reserved /\ Count("S4") > 0)
                       /\ {l \in Lanes \ {"S1", "S4"} : Count(l) > 0} = {}
  <2> TAKE a \in Slots
  <2>1. lane[a] \in Targets(a) /\ ~(Count(lane[a]) > 0) BY <1>4, <1>6
  <2> QED BY <2>1 DEF Targets
<1>9. CASE c = Camp
  <2>1. Reserved \in Slots /\ Count("S4") > 0 BY <1>7, <1>9 DEF Serves
  <2> QED BY <1>8, <2>1
<1>10. CASE c # Camp
  <2>1. c \in Files BY <1>3, <1>10 DEF WorkCards
  <2>2. PICK l \in LanesOf[c] : l # "S4" BY <2>1, LanesAssumption
  <2>3. Count(l) > 0 /\ l \in Lanes BY <1>7, <1>10, <2>1, <2>2 DEF Serves, Lanes
  <2>4. 1 \in Slots BY LanesAssumption
  <2>5. l = "S1" BY <1>8, <2>2, <2>3, <2>4
  <2> QED BY <1>4, <1>8, <2>3, <2>4, <2>5
<1> QED BY <1>9, <1>10

\* A pinned run that stops has closed its list.
LEMMA PinnedStop ==
    ASSUME LanesTypeOK, SourceInv, Expanded, FixedLaneExhausted, stage = "admit"
    PROVE  Finished
<1>1. Pinned /\ mode # "free" /\ Clear BY DEF FixedLaneExhausted, Pinned, Clear
<1>2. ~bad BY <1>1 DEF FixedLaneExhausted, Unavailable, LaneDone, SourceInv
<1>3. listed \in Listings(limit) BY <1>1, <1>2, ListIsWindow
<1>4. Unranked = {} BY <1>1 DEF Unranked
<1>5. listed \subseteq Pool /\ (~Grows => listed = Pool) BY <1>3, <1>4, ListingFacts
<1>6. \A c \in listed : c \in Files /\ Pin \in Serves(c)
  BY <1>1, <1>5, PoolFinite DEF Pool, Serves
<1>7. \A c \in listed : Closed(c) BY <1>6 DEF FixedLaneExhausted, Unavailable
<1>8. Open(listed) = {} BY <1>7 DEF Open
<1>9. Loose = {} /\ \A a \in Slots : Offers(a) = {} BY <1>8 DEF Loose, Offers
<1>10. Grows => ~WindowFull BY <1>1, <1>2, <1>9 DEF Expanded
<1> QED BY <1>4, <1>5, <1>7, <1>10 DEF Finished

\* A free or a delta run that stops has had nothing to offer.
LEMMA OpenStop ==
    ASSUME LanesTypeOK, ClaimInv, SourceInv, Expanded, Assigned, ~Pinned, Clear, ~bad,
           stage \in {"admit", "last"}, \A a \in Slots : Skips(a)
    PROVE  Finished
<1>1. listed \in Listings(limit) BY ListIsWindow
<1>2. \A c \in listed : (c = Camp => Reserved \in Slots) => Closed(c) \/ claim[c] # 0 BY Unreached
<1>3. Loose = {} BY <1>2, PoolFinite DEF Loose, Open
<1>4. \A a \in Slots : Offers(a) = {} BY DEF Skips
<1>5. CASE Grows BY <1>2, <1>3, <1>4, <1>5 DEF Expanded, Finished
<1>6. CASE ~Grows BY <1>1, <1>2, <1>6, ListingFacts DEF Finished
<1> QED BY <1>5, <1>6

\* The run stops only where everything is done.
LEMMA StopStep ==
    LanesTypeOK /\ StageInv /\ ClaimInv /\ SourceInv /\ Expanded /\ Assigned /\ StopEarned /\ [LanesNext]_laneVars
    => StopEarned'
<1> SUFFICES ASSUME LanesTypeOK, StageInv, ClaimInv, SourceInv, Expanded, Assigned, StopEarned,
                    [LanesNext]_laneVars
             PROVE  StopEarned'
  OBVIOUS
<1>1. ASSUME mode' = mode, UNCHANGED queue, UNCHANGED list PROVE Finished' <=> Finished
  <2>1. Pool' = Pool /\ Unranked' = Unranked /\ (Grows' <=> Grows) BY <1>1, ListingsStay
  <2> QED BY <1>1, <2>1 DEF Finished, Closed, WindowFull, queue, list
<1>2. CASE UNCHANGED laneVars
  <2>1. UNCHANGED list /\ UNCHANGED queue /\ UNCHANGED mode /\ UNCHANGED stage BY <1>2 DEF laneVars
  <2> QED BY <1>1, <2>1 DEF StopEarned, list
<1>3. CASE Admit
  <2>1. UNCHANGED list /\ UNCHANGED queue /\ UNCHANGED mode /\ stage = "admit" BY <1>3 DEF Admit
  <2>2. CASE FixedLaneExhausted
    <3>1. Finished BY <2>1, <2>2, PinnedStop
    <3> QED BY <1>1, <2>1, <3>1 DEF StopEarned
  <2>3. CASE ~FixedLaneExhausted /\ stage' = "exhausted"
    <3>1. DeltaExhausted /\ ~bad BY <1>3, <2>3 DEF Admit, Go, DeltaExhausted
    <3>2. ~Pinned /\ Clear /\ mode = "delta" BY <3>1 DEF DeltaExhausted, Pinned, Clear
    <3>3. Finished BY <2>1, <3>1, <3>2, OpenStop DEF DeltaExhausted
    <3> QED BY <1>1, <2>1, <3>3 DEF StopEarned
  <2> QED BY <2>2, <2>3 DEF StopEarned
<1>4. CASE Recheck
  <2>1. UNCHANGED list /\ UNCHANGED queue /\ UNCHANGED mode /\ stage = "last" /\ mode = "free"
    BY <1>4 DEF Recheck, StageInv
  <2>2. SUFFICES ASSUME stage' = "exhausted", fails = 0 PROVE Finished
    BY <1>1, <2>1 DEF StopEarned, list
  <2>3. ~Pinned /\ Clear BY <2>1, <2>2 DEF Pinned, Clear
  <2>4. ~bad BY <2>2, <2>3 DEF SourceInv
  <2>5. \A a \in Slots : Skips(a) BY <1>4, <2>2 DEF Recheck, Go
  <2> QED BY <2>1, <2>3, <2>4, <2>5, OpenStop
<1>5. ASSUME \/ StartGeneration \/ ExpandStep \/ AssignStep \/ Score
             \/ \E a \in Slots : Claim(a) \/ Open1(a) \/ Conclude(a) \/ EndSession(a)
      PROVE  stage' # "exhausted"
  BY <1>5 DEF StageInv, StartGeneration, ExpandStep, AssignStep, Score, Claim, Open1, Conclude,
     EndSession, Go
<1> QED BY <1>2, <1>3, <1>4, <1>5 DEF StopEarned, LanesNext, Scheduler, Session

\* The window grows only while the source fills it.
LEMMA WindowStep == LanesTypeOK /\ WindowBounded /\ [LanesNext]_laneVars => WindowBounded'
<1> SUFFICES ASSUME LanesTypeOK, WindowBounded, [LanesNext]_laneVars PROVE WindowBounded'
  OBVIOUS
<1>1. CASE limit' = limit BY <1>1 DEF WindowBounded
<1>2. CASE WindowFull /\ limit' = limit + Base
  <2>1. Cardinality(Files) \in Nat /\ Base \in Nat BY LanesAssumption, FS_CardinalityType
  <2> QED BY <1>2, <2>1, LimitTypes DEF WindowBounded, Limits
<1>3. ASSUME NEW w, Refresh(w) PROVE limit' \in {limit, w} BY <1>3 DEF Refresh
<1>4. StartGeneration => limit' = limit BY <1>3 DEF StartGeneration, list
<1>5. ExpandStep => limit' = limit \/ (WindowFull /\ limit' = limit + Base)
  BY <1>3 DEF ExpandStep, Expand, list
<1> QED BY <1>1, <1>2, <1>4, <1>5 DEF LanesNext, laneVars, list, Scheduler, Session, AssignStep, Admit, Score,
     Recheck, Claim, Open1, Conclude, EndSession

LEMMA LanesInvInit == LanesInit => LanesInv
<1> SUFFICES ASSUME LanesInit PROVE LanesInv
  OBVIOUS
<1>1. Cardinality(Files) \in Nat /\ Base \in Nat /\ Base > 0 /\ DryS1 \in Nat /\ ForceExtra \in Nat
      /\ MaxFails \in Nat
  BY LanesAssumption, FS_CardinalityType
<1>2. NoWork \notin WorkCards BY LanesAssumption DEF NoWork, WorkCards, Camp
<1>3. LanesTypeOK
  <2>1. streak \in [Slots -> 0 .. (DryS1 + ForceExtra)] BY <1>1 DEF LanesInit
  <2>2. tried \subseteq WorkCards /\ shut \subseteq tried BY DEF LanesInit
  <2>2a. "S1" \in Lanes BY DEF Lanes
  <2>3. lane \in [Slots -> Lanes \cup {Pin}] BY <2>2a DEF LanesInit
  <2>4. core \in 0 .. Cardinality(Files) /\ fails \in 0 .. MaxFails /\ iter \in 0 .. 2 BY <1>1 DEF LanesInit
  <2>5. claim \in [WorkCards -> Slots \cup {0}] /\ opened \in [Slots -> WorkCards \cup {NoWork}]
    BY DEF LanesInit
  <2>6. limit \in Nat \ {0} /\ stage \in Stages BY <1>1, StageWords DEF LanesInit
  <2> QED BY <2>1, <2>2, <2>3, <2>4, <2>5, <2>6 DEF LanesInit, LanesTypeOK
<1>4. Touched = {} BY <1>2 DEF LanesInit, Touched
<1>5. SourceInv BY <1>4 DEF LanesInit, SourceInv
<1>6. WindowBounded BY <1>1 DEF LanesInit, WindowBounded
<1> QED BY <1>3, <1>5, <1>6 DEF LanesInit, LanesInv, StageInv, ClaimInv, Expanded, Assigned, StopEarned

LEMMA LanesInvStep == LanesInv /\ [LanesNext]_laneVars => LanesInv'
  BY LanesTypeStep, StageStep, ClaimStep, SourceStep, ExpandedStep, AssignedStep, StopStep, WindowStep
  DEF LanesInv

\* Every state of a run's generations is of the right type.
THEOREM LanesTypeCorrect == LanesSpec => []LanesTypeOK
<1>1. LanesInv => LanesTypeOK BY DEF LanesInv
<1> QED BY <1>1, LanesInvInit, LanesInvStep, PTL DEF LanesSpec

\* A run stops for want of work only where none was left, its window is bounded,
\* and a slot stays on its lane while a hypothesis of it is open.
THEOREM LanesAreKept == LanesSpec => LanesKept
<1>1. LanesInv => StopEarned /\ WindowBounded BY DEF LanesInv
<1>2. LanesInv /\ [LanesNext]_laneVars => [\A a \in Slots : opened[a] # NoWork => lane'[a] = lane[a]]_laneVars
  BY HeldStep DEF LanesInv
<1> QED BY <1>1, <1>2, LanesInvInit, LanesInvStep, PTL DEF LanesSpec, LanesKept, LaneHeld
=============================================================================
