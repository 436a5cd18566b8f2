------------------------------- MODULE MCGate -------------------------------
(***************************************************************************)
(* What sessions file and when it is reviewed: the sealed gate ("gate", two *)
(* slots and one artifact), the crash tree triage works on ("tree", two    *)
(* agents, a reproducer, its edit, and one whose trace names no state), and *)
(* the transcript a session is judged by ("text"); what a probe files as   *)
(* evidence ("evidence") and when a receipt speaks for it ("receipt").     *)
(***************************************************************************)
EXTENDS SealedGate, CrashTree, ProbeEvidence, FiniteSets
CONSTANTS s1, s2, f1, c1

\* What providers, agents, tools and CLIs write.
Line(who, form, says, used, done, context) ==
    [who |-> who, form |-> form, says |-> says, used |-> used, done |-> done, context |-> context]
SomeLines ==
    {Line("provider", "error", {"429"}, 0, 0, 0),
     Line("provider", "error", {"401"}, 0, 0, 0),
     Line("provider", "result", {"5xx"}, 0, 0, 0),
     Line("provider", "plain", {"quota", "dialect"}, 0, 0, 0),
     Line("provider", "agent_message", {"limit", "retry"}, 0, 0, 0),
     Line("agent", "assistant", {"429", "limit", "retry", "credential"}, 1, 0, 2),
     Line("agent", "agent_message", {"limit", "quota"}, 0, 0, 0),
     Line("tool", "user", {"5xx", "dialect", "401", "retry", "unservable"}, 0, 1, 0),
     Line("cli", "plain", {"dialect"}, 0, 0, 0),
     Line("agent", "assistant", {}, 1, 0, 1)}

\* The crash bundle is slot s1's.
OwnerS1 == [c \in Crashes |-> s1]

\* Bound: a behaviour files one artifact, a finding (then the clock runs to
\* MaxClock) or a crash (one tick less); unfiled ones are never mentioned.
OneArtifact ==
    /\ \A x, y \in Artifacts : disk[x] # "absent" /\ disk[y] # "absent" => x = y
    /\ (\E c \in Crashes : disk[c] # "absent") => clock < MaxClock

CaseState == [c \in {"c1", "c2", "c3"} |-> IF c = "c2" THEN "none" ELSE "s"]
CaseRoute == [c \in {"c1", "c2", "c3"} |-> CASE c = "c2" -> "none" [] c = "c3" -> "edited" [] OTHER -> "r"]
CaseRevises == {<<"c3", "c1">>}

VARIABLE part    \* the component this behaviour is of

VARIABLES x_log, x_half, x_tools, x_seen, x_state, x_quota, x_worst
Text == INSTANCE Transcript WITH
    Lines <- SomeLines, ContextCap <- 2, MaxLines <- 3, Hours <- {0, 5, 12, 18, 23},
    log <- x_log, half <- x_half, tools <- x_tools, seen <- x_seen, state <- x_state,
    quota <- x_quota, worst <- x_worst
TextVars == <<x_log, x_half, x_tools, x_seen, x_state, x_quota, x_worst>>

-----------------------------------------------------------------------------
\* A component that is not asked about rests in an initial state, or is absent.
BaseRests == Init
TreeRests == TreeInit
TextAbsent ==
    /\ x_log = 0 /\ x_half = 0 /\ x_tools = 0 /\ x_seen = 0 /\ x_state = 0 /\ x_quota = 0 /\ x_worst = 0
EvidenceRests == ProbeInit /\ config = "alt"
JudgedRests == ReceiptInit /\ bundle.probed = "" /\ host.rev = "" /\ host.declared = ""

MCInit ==
    \/ part = "gate" /\ Init /\ TreeRests /\ TextAbsent /\ EvidenceRests /\ JudgedRests
    \/ part = "tree" /\ TreeInit /\ BaseRests /\ TextAbsent /\ EvidenceRests /\ JudgedRests
    \/ part = "text" /\ Text!Init /\ BaseRests /\ TreeRests /\ EvidenceRests /\ JudgedRests
    \/ part = "evidence" /\ ProbeInit /\ BaseRests /\ TreeRests /\ TextAbsent /\ JudgedRests
    \/ part = "receipt" /\ ReceiptInit /\ BaseRests /\ TreeRests /\ TextAbsent /\ EvidenceRests

MCNext ==
    \/ part = "gate" /\ Next /\ UNCHANGED <<part, treeVars, TextVars, probeVars, receiptVars>>
    \/ part = "tree" /\ TreeNext /\ UNCHANGED <<part, vars, TextVars, probeVars, receiptVars>>
    \/ part = "text" /\ Text!Next /\ UNCHANGED <<part, vars, treeVars, probeVars, receiptVars>>
    \/ part = "evidence" /\ ProbeNext /\ UNCHANGED <<part, vars, treeVars, TextVars, receiptVars>>
    \/ part = "receipt" /\ ReceiptNext /\ UNCHANGED <<part, vars, treeVars, TextVars, probeVars>>

mcVars == <<part, vars, treeVars, TextVars, probeVars, receiptVars>>

MCSpec ==
    /\ MCInit /\ [][MCNext]_mcVars

\* Bounds: what goes wrong from outside, one or two things at a time.
MCBound ==
    /\ part = "gate" => OneArtifact
    /\ part = "tree" => (filed = 3 => In("finding") = {} /\ \A n \in Bundles : maker[n] = "a1")

-----------------------------------------------------------------------------
\* A session whose provider did not fail has no provider issue whatever it
\* quotes, each completed tool call is counted once, a session is checkpointed
\* between calls, a pause ends ahead, and a transcript only looks worse with time.
IssueKept ==
    /\ [](part = "text" => Text!HealthyIsNone /\ Text!CountedOnce /\ Text!CappedBetweenCalls /\ Text!ResetAhead)
    /\ [][part = "text" => Text!GrowsWorse]_TextVars

=============================================================================
