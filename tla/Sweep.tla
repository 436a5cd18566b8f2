------------------------------- MODULE Sweep -------------------------------
(***************************************************************************)
(* The review-coverage ledgers (src/lib/coverage_ledger.py,                *)
(* src/lib/read_ledger.py) and the budgeted sweep that works through what  *)
(* they leave unreceipted (src/lib/sweep.py).                              *)
(*                                                                         *)
(* A file is a set of units; a line range is the set of units it covers.   *)
(* A file's content is a version number.  The sweep is one process at a    *)
(* time, stopped by SIGTERM at the end of the audit and killed past the    *)
(* wall; agents mark what they read, and a rank pass rewrites the manifest.*)
(***************************************************************************)
EXTENDS Integers, FiniteSets, Sequences

CONSTANTS
    Files,        \* auditable files, in name order
    UnitsOf,      \* file -> number of units in it
    TokenBudget,  \* [sweep] token_budget; a prompt and a reply cost 1 each
    MaxFails,     \* MAX_CONSECUTIVE_FAILURES
    MaxEdits,     \* bound: source edits
    MaxLaunches,  \* bound: sweep processes
    MaxMarks      \* bound: receipts and sessions of agents

ASSUME SweepAssumption ==
    /\ IsFiniteSet(Files) /\ UnitsOf \in [Files -> Nat]
    /\ TokenBudget \in Nat /\ MaxFails \in Nat
    /\ MaxEdits \in Nat /\ MaxLaunches \in Nat /\ MaxMarks \in Nat

VARIABLES
    src,        \* file -> content in the checkout
    man,        \* manifest.jsonl: file -> content hash
    offered,    \* files that ever entered the ranked window
    receipts,   \* receipts.jsonl: [unit, sha, by, shown]
    reads,      \* reads.jsonl: [unit, sha, shown]
    leads,      \* units whose leads are in hypotheses.jsonl
    saved,      \* sweep.json
    job, queue, psha, open, spent, fails, term,  \* the sweep process
    held,       \* units whose reply had leads not yet recorded
    paid,       \* tokens really spent
    asked,      \* unit -> content -> calls that were sent
    forgiven,   \* of these, the ones that brought nothing or were cut off by a kill
    looked,     \* what the session of an agent has read: unit -> content; 0: nothing
    edits, launches, marks, kills

listed == <<src, man, offered>>
process == <<job, queue, psha, open, spent, fails, term, held>>
billed == <<asked, forgiven>>
count == <<edits, launches, marks, kills>>
sweepVars == <<listed, receipts, reads, leads, saved, process, paid, billed, looked, count>>

Units == UNION {{<<f, i>> : i \in 1 .. UnitsOf[f]} : f \in Files}
Versions == 1 .. MaxEdits + 1

-----------------------------------------------------------------------------
(* The ledgers *)

(* examined_ranges_by_file: receipts pinned to the manifest's content *)
Covered == {u \in Units : \E r \in receipts : r.unit = u /\ r.sha = man[u[1]]}

(* write_manifest: the content as it is, and offered is never taken back *)
Rank(window) ==
    /\ man # src \/ ~ (window \subseteq offered)
    /\ man' = src /\ offered' = offered \cup window
    /\ UNCHANGED <<src, receipts, reads, leads, saved, process, paid, billed, looked, count>>

Edit(f) ==
    /\ edits < MaxEdits /\ edits' = edits + 1
    /\ src' = [src EXCEPT ![f] = edits + 2]
    /\ UNCHANGED <<man, offered, receipts, reads, leads, saved, process, paid, billed,
                   looked, launches, marks, kills>>

(* a session reads a unit of the checkout *)
Look(u) ==
    /\ looked[u] # src[u[1]] /\ marks < MaxMarks
    /\ looked' = [looked EXCEPT ![u] = src[u[1]]]
    /\ UNCHANGED <<listed, receipts, reads, leads, saved, process, paid, billed, count>>

(* content_matches_manifest *)
Matches(f) == src[f] = man[f]

(* bin/state mark-examined: what the session has read, on the manifest's content *)
Mark(u) ==
    /\ marks < MaxMarks /\ looked[u] # 0 /\ Matches(u[1])
    /\ receipts' = receipts \cup {[unit |-> u, sha |-> man[u[1]], by |-> "agent", shown |-> looked[u]]}
    /\ marks' = marks + 1
    /\ UNCHANGED <<listed, reads, leads, saved, process, paid, billed, looked, edits,
                   launches, kills>>

(* record_observed_reads, when the session has ended *)
Observe ==
    /\ marks < MaxMarks /\ \E u \in Units : looked[u] # 0
    /\ reads' = reads \cup {[unit |-> u, sha |-> man[u[1]], shown |-> looked[u]] :
                              u \in {v \in Units : looked[v] # 0 /\ Matches(v[1])}}
    /\ looked' = [u \in Units |-> 0] /\ marks' = marks + 1
    /\ UNCHANGED <<listed, receipts, leads, saved, process, paid, billed, edits, launches,
                   kills>>

-----------------------------------------------------------------------------
(* The sweep *)

Share(f) == (6 * Cardinality({u \in Covered : u[1] = f})) \div UnitsOf[f]

(* never offered first, then the least read, then by name *)
Before(u, v) ==
    LET key(w) == <<IF w[1] \in offered THEN 1 ELSE 0, Share(w[1]), w[1], w[2]>>
        a == key(u)  b == key(v)
    IN \E k \in 1 .. 4 : a[k] < b[k] /\ \A j \in 1 .. k - 1 : a[j] = b[j]

(* plan_units: the unreceipted units, each once, in that order *)
Plans ==
    LET left == Units \ Covered
    IN {p \in [1 .. Cardinality(left) -> left] : \A i, j \in DOMAIN p : i < j => Before(p[i], p[j])}

(* persist *)
Persist(stop, s) == saved' = [spent |-> s, stop |-> stop]

Quit ==
    /\ job' = "idle" /\ queue' = <<>> /\ open' = {} /\ spent' = 0 /\ fails' = 0 /\ term' = FALSE
    /\ psha' = [f \in Files |-> 0]

Finish(stop, s) == Persist(stop, s) /\ Quit /\ UNCHANGED held

(* run: refused while another sweep holds the lock *)
Launch ==
    /\ job = "idle" /\ launches < MaxLaunches /\ launches' = launches + 1
    /\ job' = "loop" /\ queue' \in Plans /\ psha' = man /\ open' = Units \ Covered
    /\ spent' = saved.spent /\ fails' = 0 /\ term' = FALSE
    /\ UNCHANGED <<listed, receipts, reads, leads, saved, held, paid, billed, looked, edits,
                   marks, kills>>

(* refresh_open_units *)
Open == open \ Covered

(* a unit receipted meanwhile, or whose file changed after the plan, is passed over *)
Skips(u) == u \notin Open \/ src[u[1]] # psha[u[1]]

(* the end of the plan: a unit that failed or was passed over is still open *)
Verdict == IF Open = {} THEN "exhausted" ELSE "incomplete"

(* the top of the loop: every way to stop before the next unit *)
StopSweep ==
    /\ job = "loop"
    /\ \/ term /\ queue # <<>> /\ Finish("interrupted", spent)
       \/ ~ term /\ queue # <<>> /\ spent >= TokenBudget /\ Finish("budget", spent)
       \/ /\ ~ term /\ queue # <<>> /\ spent < TokenBudget /\ ~ Skips(Head(queue))
          /\ spent + 1 > TokenBudget /\ Finish("budget", spent)
       \/ queue = <<>> /\ Finish(Verdict, spent)
    /\ UNCHANGED <<listed, receipts, reads, leads, paid, billed, looked, count>>

PassOver ==
    /\ job = "loop" /\ ~ term /\ queue # <<>> /\ spent < TokenBudget /\ Skips(Head(queue))
    /\ queue' = Tail(queue) /\ open' = Open
    /\ UNCHANGED <<listed, receipts, reads, leads, saved, job, psha, spent, fails, term,
                   held, paid, billed, looked, count>>

(* the prompt is charged, and saved, before the call *)
Charge ==
    /\ job = "loop" /\ ~ term /\ queue # <<>> /\ spent + 1 <= TokenBudget /\ ~ Skips(Head(queue))
    /\ spent' = spent + 1 /\ open' = Open /\ job' = "charged"
    /\ Persist("interrupted", spent + 1)
    /\ UNCHANGED <<listed, receipts, reads, leads, queue, psha, fails, term, held, paid,
                   billed, looked, count>>

(* one call more about a unit, with the content it was planned with *)
Counted(n, u) == [n EXCEPT ![u][psha[u[1]]] = @ + 1]

(* not sent after all: refunded *)
Refund ==
    /\ job = "charged" /\ term /\ Finish("interrupted", spent - 1)
    /\ UNCHANGED <<listed, receipts, reads, leads, paid, billed, looked, count>>

Send ==
    /\ job = "charged" /\ ~ term
    /\ job' = "asked" /\ paid' = paid + 1
    /\ asked' = Counted(asked, Head(queue))
    /\ UNCHANGED <<listed, receipts, reads, leads, saved, queue, psha, open, spent, fails,
                   term, held, forgiven, looked, count>>

(* Bug: the receipt is pinned to what the manifest says by now *)
AcceptsNow(u) == Matches(u[1])

(* record_receipt: the content that was shown is still the manifest's, and the file's *)
Accepts(u) == man[u[1]] = psha[u[1]] /\ Matches(u[1])

(* no reply, one that does not parse, or a receipt refused *)
Fail(cost) ==
    /\ forgiven' = Counted(forgiven, Head(queue))
    /\ \/ term /\ Finish("interrupted", spent + cost)
       \/ ~ term /\ fails + 1 >= MaxFails /\ Finish("backend", spent + cost)
       \/ /\ ~ term /\ fails + 1 < MaxFails
          /\ Persist("interrupted", spent + cost)
          /\ fails' = fails + 1 /\ spent' = spent + cost
          /\ job' = "loop" /\ queue' = Tail(queue) /\ open' = Open
          /\ UNCHANGED <<psha, term, held>>

(* the decision returns; a good reply makes a receipt unless one was written meanwhile *)
Reply(answer) ==
    LET u == Head(queue) IN
    /\ job = "asked"
    /\ paid' = IF answer = "none" THEN paid ELSE paid + 1
    /\ IF answer \in {"good", "lead"} /\ (u \in Open => Accepts(u))
       THEN /\ receipts' = IF u \notin Open THEN receipts
                           ELSE receipts \cup {[unit |-> u, sha |-> man[u[1]], by |-> "sweep",
                                                shown |-> psha[u[1]]]}
            /\ open' = Open \ {u} /\ spent' = spent + 1 /\ job' = "leads" /\ fails' = 0
            /\ held' = IF answer = "lead" THEN held \cup {u} ELSE held
            /\ UNCHANGED <<queue, psha, term, saved, forgiven>>
       ELSE /\ Fail(IF answer = "none" THEN 0 ELSE 1)
            /\ UNCHANGED receipts
    /\ UNCHANGED <<listed, reads, leads, asked, looked, count>>

Leads ==
    /\ job = "leads"
    /\ leads' = leads \cup held
    /\ Persist("interrupted", spent) /\ held' = {}
    /\ IF term THEN Quit
       ELSE /\ job' = "loop" /\ queue' = Tail(queue)
            /\ UNCHANGED <<psha, open, spent, fails, term>>
    /\ UNCHANGED <<listed, receipts, reads, paid, billed, looked, count>>

(* stop_sweeps: SIGTERM, and past the decision's ceiling or the wall SIGKILL *)
Term ==
    /\ job # "idle" /\ ~ term /\ term' = TRUE
    /\ UNCHANGED <<listed, receipts, reads, leads, saved, job, queue, psha, open, spent,
                   fails, held, paid, billed, looked, count>>

KillSweep ==
    /\ job # "idle" /\ term
    /\ kills' = kills + 1 /\ held' = {}
    /\ forgiven' = IF job = "asked" THEN Counted(forgiven, Head(queue)) ELSE forgiven
    /\ Quit
    /\ UNCHANGED <<listed, receipts, reads, leads, saved, paid, asked, looked, edits, launches,
                   marks>>

SweepInit ==
    /\ src = [f \in Files |-> 1] /\ man = src /\ offered = {}
    /\ receipts = {} /\ reads = {} /\ leads = {}
    /\ saved = [spent |-> 0, stop |-> ""]
    /\ job = "idle" /\ queue = <<>> /\ psha = [f \in Files |-> 0] /\ open = {}
    /\ spent = 0 /\ fails = 0 /\ term = FALSE /\ held = {}
    /\ paid = 0 /\ asked = [u \in Units |-> [v \in Versions |-> 0]] /\ forgiven = asked
    /\ looked = [u \in Units |-> 0]
    /\ edits = 0 /\ launches = 0 /\ marks = 0 /\ kills = 0

SweepSteps ==
    \/ StopSweep \/ PassOver \/ Charge \/ Refund \/ Send \/ Leads
    \/ \E a \in {"none", "bad", "good", "lead"} : Reply(a)

SweepNext ==
    \/ \E w \in SUBSET Files : Rank(w)
    \/ \E f \in Files : Edit(f)
    \/ \E u \in Units : Look(u) \/ Mark(u)
    \/ Observe \/ Launch \/ SweepSteps \/ Term \/ KillSweep

SweepSpec == SweepInit /\ [][SweepNext]_sweepVars /\ WF_sweepVars(SweepSteps)

-----------------------------------------------------------------------------
(* the type of every variable *)
SweepTypeOK ==
    /\ src \in [Files -> Versions] /\ man \in [Files -> Versions] /\ offered \subseteq Files
    /\ receipts \subseteq [unit : Units, sha : Versions, by : {"agent", "sweep"}, shown : Versions]
    /\ reads \subseteq [unit : Units, sha : Versions, shown : Versions]
    /\ leads \subseteq Units /\ held \subseteq Units
    /\ saved \in [spent : 0 .. TokenBudget + 1,
                  stop : {"", "interrupted", "budget", "exhausted", "incomplete", "backend"}]
    /\ job \in {"idle", "loop", "charged", "asked", "leads"}
    /\ queue \in Seq(Units) /\ (job \in {"charged", "asked", "leads"} => queue # <<>>)
    /\ psha \in [Files -> Versions \cup {0}] /\ open \subseteq Units
    /\ spent \in 0 .. TokenBudget + 1 /\ fails \in 0 .. MaxFails /\ term \in BOOLEAN
    /\ paid \in Nat /\ asked \in [Units -> [Versions -> Nat]]
    /\ forgiven \in [Units -> [Versions -> Nat]]
    /\ looked \in [Units -> Versions \cup {0}]
    /\ edits \in 0 .. MaxEdits /\ launches \in 0 .. MaxLaunches
    /\ marks \in 0 .. MaxMarks /\ kills \in Nat

(* What the sweep really spends stays within its budget, over restarts and    *)
(* kills: each launch can overrun it by the one reply it was waiting for, and *)
(* a kill can forget no more than that reply.                                 *)
SpendBounded == paid <= TokenBudget + 1 + kills

(* The sweep's receipt is for the very content its prompt showed, whatever    *)
(* was edited and ranked while the call was out.                              *)
ReceiptIsOfContent == \A r \in receipts : r.by = "sweep" => r.sha = r.shown

(* A unit is paid for again with the content it was shown with only after a  *)
(* call about it that brought nothing, over restarts, kills, rank passes and  *)
(* what agents mark while a call is out.                                      *)
PaidOnce == \A u \in Units, v \in Versions : asked[u][v] <= forgiven[u][v] + 1

(* A sweep that was not killed leaves no reply's leads behind, however it was *)
(* stopped: the receipt would keep any later sweep from asking again.         *)
LeadsKept == [][(job = "leads" /\ kills' = kills /\ job' = "idle") => held \subseteq leads']_sweepVars

(* A sweep that says it is exhausted has seen a receipt for every unit.       *)
ExhaustedIsReceipted ==
    [][(job = "loop" /\ saved'.stop = "exhausted" /\ job' = "idle") =>
          \A u \in Units : \E r \in receipts : r.unit = u]_sweepVars

(* A sweep comes to an end.                                                   *)
SweepEnds == (job # "idle") ~> (job = "idle")

(* Over edits, stops, kills and restarts the sweep keeps its budget, receipts *)
(* what it showed, pays once for a unit, records the leads of what it         *)
(* receipted, and says exhausted only when it is.                             *)
SweepKept == [](SpendBounded /\ ReceiptIsOfContent /\ PaidOnce) /\ LeadsKept /\ ExhaustedIsReceipted
=============================================================================
