----------------------------- MODULE Transcript -----------------------------
(***************************************************************************)
(* What the harness learns from a session's transcript                     *)
(* (src/lib/audit_helpers.py): the tool calls and the context the wrapper  *)
(* polls while the CLI still writes it, and at its end the provider issue  *)
(* that decides whether the run pauses, retries or gives the backend up.   *)
(*                                                                         *)
(* A line has a form (what kind of event it is, or "plain"), the provider  *)
(* wording its text matches, tool calls started and completed, and a       *)
(* context size.  Who wrote it is known here and not to the harness.       *)
(***************************************************************************)
EXTENDS Naturals, Integers, Sequences, SequencesExt, FiniteSetsExt

CONSTANTS
    Lines,       \* [who, form, says, used, done, context]
    ContextCap,  \* CONTEXT_SOFT_CAP
    MaxLines,    \* bound: lines of one transcript
    Hours        \* clock times a notice may name

VARIABLES
    log,     \* the complete lines
    half,    \* TRUE: the last line has no newline yet
    tools,   \* [at, total]: the wrapper's tool_call_delta
    seen,    \* [at, context, inflight]: its context_tokens_delta
    state,   \* "running", "capped", "ended"
    quota,   \* the watchdog's marker: the CLI was stalled on a quota
    worst    \* the issue of the iteration's transcripts so far

vars == <<log, half, tools, seen, state, quota, worst>>

Ranks == [none |-> 0, transient |-> 1, capacity_limited |-> 2, backend_rejected |-> 3]
Some(ls, P(_)) == \E i \in 1 .. Len(ls) : P(ls[i])
Whole == IF half THEN Front(log) ELSE log
\* As a reader of the file has it: an event cut short does not parse, and is
\* a plain line then.
Scanned == IF half THEN Append(Front(log), [Last(log) EXCEPT !.form = "plain"]) ELSE log

-----------------------------------------------------------------------------
(* The provider's wording, by the pattern that finds it *)

\* status codes and wording of one class each
CapacityWords == {"429", "quota"}
TransientWords == {"5xx", "overloaded"}
Failing(l) == l.form \in {"error", "turn.failed"}
Trusted(l) == Failing(l) \/ l.form \in {"plain", "agent_message"}

\* Bug: an account limit counts wherever its two halves are.
NoticeAnywhere(l) == {"limit", "retry"} \subseteq l.says

\* An account limit and when it ends, in one line.
Notice(l) == Trusted(l) /\ {"limit", "retry"} \subseteq l.says

\* A result event's own status.
ResultSays(l, w) == l.form = "result" /\ w \in l.says

Refusal(l) ==
    \/ l.form = "system" /\ "refusal" \in l.says
    \/ ResultSays(l, "401")
    \/ ResultSays(l, "unservable") /\ l.says \cap {"400", "404", "[API Error:"} # {}
    \/ Failing(l) /\ l.says \cap {"401", "credential", "Invalid prompt:"} # {}
    \/ l.form = "plain" /\ {"ERROR", "credential"} \subseteq l.says
    \/ (Failing(l) \/ (l.form = "plain" /\ "ERROR" \in l.says)) /\ {"400", "unservable"} \subseteq l.says

Dialect(l) == "dialect" \in l.says
Capacity(l) == \/ Failing(l) /\ l.says \cap (CapacityWords \cup {"limit"}) # {}
               \/ ResultSays(l, "429")
CapacityPlain(l) == l.form = "plain" /\ l.says \cap CapacityWords # {}
Passing(l) == (Failing(l) /\ l.says \cap TransientWords # {}) \/ ResultSays(l, "5xx")
PassingPlain(l) == l.form = "plain" /\ l.says \cap TransientWords # {}

\* _provider_issue_from_lines: the watchdog's word, then what cannot clear,
\* then capacity, then what passes.  A plain line counts in a transcript that
\* speaks the CLI's dialect somewhere.
Issue(ls, marked) ==
    IF marked THEN "capacity_limited"
    ELSE IF Some(ls, Refusal) THEN "backend_rejected"
    ELSE IF Some(ls, Capacity) \/ (Some(ls, Dialect) /\ Some(ls, CapacityPlain)) \/ Some(ls, Notice)
         THEN "capacity_limited"
    ELSE IF Some(ls, Passing) \/ (Some(ls, Dialect) /\ Some(ls, PassingPlain)) THEN "transient"
    ELSE "none"

\* unserved_model_error: an error text that names the model and says it is not served.
Unserved(ls) == Some(ls, LAMBDA l : (Failing(l) \/ l.form \in {"result", "plain"}) /\ "model" \in l.says)

\* launch_failure: a preflight that named its model gone is refused, unless it timed out.
LaunchIssue(ls, timedOut) ==
    IF Issue(ls, FALSE) = "none" /\ Unserved(ls) /\ ~timedOut THEN "backend_rejected" ELSE Issue(ls, FALSE)

-----------------------------------------------------------------------------
(* Tool calls and context *)

Calls(ls) == FoldLeft(LAMBDA n, l : n + l.used, 0, ls)
Completed(ls) == FoldLeft(LAMBDA n, l : n + l.done, 0, ls)
Inflight(ls) == Calls(ls) - Completed(ls)
Largest(ls) == FoldLeft(LAMBDA n, l : IF l.context > n THEN l.context ELSE n, 0, ls)
From(at) == SubSeq(Whole, at + 1, Len(Whole))

-----------------------------------------------------------------------------
(* When capacity comes back *)

\* The clock hour a notice names, next time it comes; a time that has just
\* passed is not taken for tomorrow's, unless that is six hours off at most.
ClockReset(h, now) ==
    IF h > now THEN {h} ELSE IF h + 24 - now <= 6 THEN {h + 24} ELSE {}

\* _provider_reset_from_text: a rejection's own time, the first clock time that
\* serves, else a duration; {} when the transcript names none.
Reset(events, clocks, durations, now) ==
    IF events # {} THEN {Max(events)}
    ELSE LET fit == SelectSeq(clocks, LAMBDA h : ClockReset(h, now) # {}) IN
         IF fit # <<>> THEN ClockReset(fit[1], now)
         ELSE IF durations # <<>> THEN {now + durations[1]} ELSE {}

-----------------------------------------------------------------------------
(* The session *)

Fresh == /\ log = <<>> /\ half = FALSE
         /\ tools = [at |-> 0, total |-> 0]
         /\ seen = [at |-> 0, context |-> 0, inflight |-> 0]
         /\ state = "running" /\ quota = FALSE

Init == Fresh /\ worst = "none"

\* The CLI writes a line, whole or up to its newline.
Write(l) ==
    /\ state = "running" /\ ~half /\ Len(log) < MaxLines
    /\ log' = Append(log, l)
    /\ half' \in BOOLEAN
    /\ UNCHANGED <<tools, seen, state, quota, worst>>

Newline ==
    /\ state = "running" /\ half
    /\ half' = FALSE
    /\ UNCHANGED <<log, tools, seen, state, quota, worst>>

\* tool_call_delta: the complete lines from the offset on.
PollTools ==
    /\ state = "running"
    /\ tools' = [at |-> Len(Whole), total |-> tools.total + Completed(From(tools.at))]
    /\ UNCHANGED <<log, half, seen, state, quota, worst>>

\* context_tokens_delta, after the tool poll of the same round.
PollContext ==
    /\ state = "running"
    /\ LET new == From(seen.at) IN
       seen' = [at |-> Len(Whole), context |-> Max({seen.context, Largest(new)}),
                inflight |-> seen.inflight + Inflight(new)]
    /\ state' = IF seen'.context >= ContextCap /\ seen'.inflight <= 0 THEN "capped" ELSE "running"
    /\ UNCHANGED <<log, half, tools, quota, worst>>

\* The CLI ends or is ended, its watchdog may have left a marker, and the
\* transcript is scanned once, the cut line too.
Worse(a, b) == IF Ranks[a] < Ranks[b] THEN b ELSE a
End(marked) ==
    /\ state \in {"running", "capped"}
    /\ state' = "ended" /\ quota' = marked
    /\ worst' = Worse(worst, Issue(Scanned, marked))
    /\ UNCHANGED <<log, half, tools, seen>>

\* The next session of the iteration, or a retry: a new file, new offsets.
Again ==
    /\ state = "ended"
    /\ log' = <<>> /\ half' = FALSE
    /\ tools' = [at |-> 0, total |-> 0]
    /\ seen' = [at |-> 0, context |-> 0, inflight |-> 0]
    /\ state' = "running" /\ quota' = FALSE
    /\ UNCHANGED worst

Next == (\E l \in Lines : Write(l)) \/ Newline \/ PollTools \/ PollContext
        \/ (\E marked \in BOOLEAN : End(marked)) \/ Again

-----------------------------------------------------------------------------
(* Properties *)

\* Whatever an agent says and its tools print, a session whose provider did not
\* fail has no provider issue: nobody is paused or given up for quoted text,
\* unless the session was cut off within a line.
HealthyIsNone ==
    state = "ended" /\ ~quota /\ ~half /\ (\A i \in 1 .. Len(log) : log[i].who # "provider")
        => LaunchIssue(Scanned, FALSE) = "none" /\ Issue(Scanned, quota) = "none"

\* The wrapper has counted each completed call once, and none of an unfinished line.
CountedOnce == tools.total = Completed(SubSeq(log, 1, tools.at)) /\ tools.at <= Len(Whole)

\* A session is checkpointed for its context only between two tool calls.
CappedBetweenCalls == state = "capped" => Inflight(SubSeq(log, 1, seen.at)) <= 0

\* A pause told by a transcript ends later, and a clock time that has passed
\* does not put it off by a day.
ResetAhead ==
    \A now \in Hours, h \in Hours : \A r \in Reset({}, <<h>>, <<>>, now) : r > now /\ (h <= now => r - now <= 6)

\* A transcript never looks healthier for what is written later.
GrowsWorse == log' # log /\ log' # <<>> => Ranks[Issue(log', FALSE)] >= Ranks[Issue(log, FALSE)]
=============================================================================
