---------------------------- MODULE AgentSession ----------------------------
(***************************************************************************)
(* One agent session: audit_runner.run_agent calls                         *)
(* llm_invoke.run_agent_prompt, which starts lib/timeout.py (the wrapper), *)
(* which starts the agent CLI in a session of its own and reaps it.  The   *)
(* caller polls the transcript to cap the session; for one backend a       *)
(* watchdog thread ends a stalled one.                                     *)
(*                                                                         *)
(* A signal reaches the wrapper at any point; its handlers nest.  Waits    *)
(* are ordered as the code's numbers are: the wrapper's second of grace is *)
(* over before the five seconds its caller gives it.                       *)
(***************************************************************************)
EXTENDS Naturals

CONSTANTS
    TurnCap,        \* completed tool calls that end a session
    Grace,          \* _CRASH_ENRICHMENT_GRACE_COMMANDS
    MaxCalls        \* bound: calls an agent makes

ASSUME SessionAssumption == TurnCap \in Nat /\ Grace \in Nat /\ MaxCalls \in Nat

Codes == {"ok", "fail", "native"}   \* "native": the CLI's own turn limit

VARIABLES
    cli,            \* "run", an exit code, or "signal"
    bg,             \* a background process of the CLI's session runs
    calls, seen,    \* tool calls completed, and counted by the caller
    crash,          \* the agent has a crash whose report is unfinished
    limit,          \* enrichment_limit, 0 for None
    wrapper,        \* what timeout.py is doing
    wrc,            \* its exit status
    stage,          \* what the caller is doing
    capped,         \* the cap ended the session
    watch,          \* the watchdog: "none", "on", "asked" (the marker is written), "done"
    attempt, alone, \* which try; the CLI ended before anybody signalled it
    result          \* AgentResult's return code

cliVars == <<cli, bg, calls, crash, alone>>
callerVars == <<seen, limit, stage, capped, attempt, result>>
sessionVars == <<cliVars, wrapper, wrc, watch, callerVars>>

Statuses == Codes \cup {"signal", "timeout", "forwarded"}

\* The type of every variable.
SessionTypeOK ==
    /\ cli \in Codes \cup {"run", "signal"} /\ bg \in BOOLEAN
    /\ calls \in 0 .. MaxCalls /\ seen \in 0 .. calls /\ crash \in BOOLEAN
    /\ limit \in 0 .. (MaxCalls + Grace)
    /\ wrapper \in {"wait", "reaped", "tail", "escalate", "forward", "gone"}
    /\ wrc \in Statuses \cup {"none"} /\ (wrc # "none" <=> wrapper = "gone")
    /\ stage \in {"poll", "sweep", "stop", "wait", "check", "over"}
    /\ capped \in BOOLEAN /\ watch \in {"none", "on", "asked", "done"} /\ attempt \in 1 .. 2 /\ alone \in BOOLEAN
    /\ result \in Statuses \cup {"none", "checkpoint"}

Launched ==
    /\ cli' = "run" /\ bg' = FALSE /\ calls' = 0 /\ seen' = 0 /\ crash' = FALSE /\ limit' = 0
    /\ wrapper' = "wait" /\ wrc' = "none" /\ stage' = "poll" /\ capped' = FALSE
    /\ watch' = "none" /\ alone' = FALSE /\ result' = "none"

SessionInit ==
    /\ cli = "run" /\ bg = FALSE /\ calls = 0 /\ seen = 0 /\ crash = FALSE /\ limit = 0
    /\ wrapper = "wait" /\ wrc = "none" /\ stage = "poll" /\ capped = FALSE
    /\ watch \in {"none", "on"} /\ attempt = 1 /\ alone = FALSE /\ result = "none"

-----------------------------------------------------------------------------
(* The agent *)

Works ==
    /\ cli = "run" /\ calls < MaxCalls /\ calls' = calls + 1
    /\ crash' \in BOOLEAN /\ bg' \in {bg, TRUE}
    /\ UNCHANGED <<cli, alone, wrapper, wrc, watch, callerVars>>

Exits ==
    /\ cli = "run" /\ cli' \in Codes
    /\ alone' = (wrapper = "wait" /\ stage \in {"poll", "sweep"} /\ watch \in {"none", "on"})
    /\ UNCHANGED <<bg, calls, crash, wrapper, wrc, watch, callerVars>>

-----------------------------------------------------------------------------
(* timeout.py *)

\* TERM: any of the session's processes may ignore it or exit in its own way.
Asked == /\ cli' \in (IF cli = "run" THEN {"run", "signal"} \cup Codes ELSE {cli})
         /\ bg' \in {bg, FALSE}
         /\ UNCHANGED <<calls, crash, alone>>

\* Bug: only the child is killed.
KilledChild == /\ cli' = (IF cli = "run" THEN "signal" ELSE cli) /\ UNCHANGED bg
               /\ UNCHANGED <<calls, crash, alone>>

\* kill_group with KILL, and the child reaped.
Killed == /\ cli' = (IF cli = "run" THEN "signal" ELSE cli) /\ bg' = FALSE
          /\ UNCHANGED <<calls, crash, alone>>

Leave(status) == wrapper' = "gone" /\ wrc' = status

\* waitpid returns; the alarm is still set.
Reaps == /\ wrapper = "wait" /\ cli # "run" /\ wrapper' = "reaped"
         /\ UNCHANGED <<cliVars, wrc, watch, callerVars>>

\* The alarm is cleared, then what the child left in its group is ended.
ClearAlarm == /\ wrapper = "reaped" /\ wrapper' = "tail"
              /\ UNCHANGED <<cliVars, wrc, watch, callerVars>>

Leaves == /\ wrapper = "tail" /\ Killed /\ Leave(cli)
          /\ UNCHANGED <<watch, callerVars>>

\* Bug: the deadline does not cover the wait for the child.
ArmedLate == {"reaped", "forward"}

\* Where a SIGALRM finds the wrapper.
Armed == {"wait", "reaped", "forward"}

\* The deadline: escalate_and_exit.
Alarm == /\ wrapper \in Armed /\ wrapper' = "escalate" /\ Asked
         /\ UNCHANGED <<wrc, watch, callerVars>>

Escalate == /\ wrapper = "escalate" /\ Killed /\ Leave("timeout")
            /\ UNCHANGED <<watch, callerVars>>

\* on_forwarded, when the wrapper is TERMed.
Forward == wrapper' = IF wrapper = "gone" THEN "gone" ELSE "forward"

Forwarded == /\ wrapper = "forward" /\ Killed /\ Leave("forwarded")
             /\ UNCHANGED <<watch, callerVars>>

Wrapper == Reaps \/ ClearAlarm \/ Leaves \/ Escalate \/ Forwarded

\* gemini_watchdog: the marker, TERM to the session, then to the wrapper.
WatchdogAsks ==
    /\ stage \in {"poll", "sweep", "stop", "wait"} /\ watch = "on" /\ wrapper # "gone"
    /\ watch' = "asked" /\ Asked
    /\ UNCHANGED <<wrapper, wrc, callerVars>>

WatchdogStops ==
    /\ watch = "asked" /\ watch' = "done" /\ Forward
    /\ UNCHANGED <<cliVars, wrc, callerVars>>

-----------------------------------------------------------------------------
(* The caller *)

\* The cap is reached, and the agent is in no unfinished report, or has had its
\* grace for it in calls or (late) in time.
CapDue(total, late) ==
    /\ total >= TurnCap
    /\ crash => limit > 0 /\ (total >= limit \/ late)

\* The poll loop of _run_agent_process.
Poll ==
    /\ stage = "poll"
    /\ IF wrapper = "gone" THEN stage' = "wait" /\ UNCHANGED <<seen, limit>>
       ELSE /\ seen' = calls
            /\ limit' = IF calls >= TurnCap /\ crash /\ limit = 0 THEN calls + Grace ELSE limit
            /\ \E late \in BOOLEAN : stage' = IF CapDue(calls, late) THEN "sweep" ELSE "poll"
    /\ UNCHANGED <<cliVars, wrapper, wrc, watch, capped, attempt, result>>

\* kill_descendants: TERM, a second, KILL to those it found.  What left the
\* tree, or was started since, is left to the wrapper.
Sweep ==
    /\ stage = "sweep" /\ stage' = "stop"
    /\ cli' \in IF cli = "run" THEN {"signal"} \cup Codes ELSE {cli}
    /\ bg' \in IF cli = "run" THEN {bg, FALSE} ELSE {bg}
    /\ UNCHANGED <<calls, crash, alone, wrapper, wrc, watch, seen, limit, capped, attempt, result>>

\* process.terminate() on a process that is gone does nothing, and says nothing.
Terminate ==
    /\ stage = "stop" /\ stage' = "wait" /\ Forward /\ capped' = TRUE
    /\ UNCHANGED <<cliVars, wrc, watch, seen, limit, attempt, result>>

\* A checkpoint is a status of 0; a native limit is made one.
Collect ==
    /\ stage = "wait" /\ wrapper = "gone" /\ stage' = "check"
    /\ result' = IF capped \/ wrc = "native" THEN "checkpoint" ELSE wrc
    /\ UNCHANGED <<cliVars, wrapper, wrc, watch, seen, limit, capped, attempt>>

\* run_agent: one retry when the stream idled before any work was done.
Retry ==
    /\ stage = "check" /\ attempt = 1 /\ watch = "none" /\ calls < 2 /\ result # "timeout"
    /\ attempt' = 2 /\ Launched

Conclude ==
    /\ stage = "check" /\ stage' = "over"
    /\ UNCHANGED <<cliVars, wrapper, wrc, watch, seen, limit, capped, attempt, result>>

Caller == Poll \/ Sweep \/ Terminate \/ Collect \/ Retry \/ Conclude

SessionNext == Works \/ Exits \/ Wrapper \/ Alarm \/ WatchdogAsks \/ WatchdogStops \/ Caller

\* The wrapper and the caller run on, and the clock does; the agent may hang.
SessionSpec ==
    /\ SessionInit /\ [][SessionNext]_sessionVars
    /\ WF_sessionVars(Wrapper) /\ WF_sessionVars(Alarm) /\ WF_sessionVars(Caller)

-----------------------------------------------------------------------------
(* Properties *)

\* timeout.py 221-262, 328-358: when the caller goes on, however the session
\* ended, nothing of it runs.
NothingLeft == stage \in {"check", "over"} => cli # "run" /\ ~bg

\* timeout.py 5-12, 360-384, llm_invoke.py 1693-1698: a status reported as the
\* CLI's own is the one it returned unasked, or the watchdog's marker is there.
StatusTrue == result \in {"ok", "fail"} => cli = result /\ (alone \/ watch \in {"asked", "done"})

\* timeout.py 264-320: a session that hangs is ended all the same.
SessionEnds == <>(stage = "over")

\* A session that is over has left no process behind, and its status is the one
\* its end deserves.
SessionKept == NothingLeft /\ StatusTrue
=============================================================================
