------------------------------- MODULE MCFuzz -------------------------------
(***************************************************************************)
(* Processes an audit starts beside its scheduler, one per behaviour: the  *)
(* fuzz campaign ("fuzz"), one agent session under its wrapper ("session"), *)
(* and the budgeted reading sweep ("sweep").                               *)
(***************************************************************************)
EXTENDS FuzzCampaign, Sweep, AgentSession
CONSTANTS p1

\* One file of two units, one of a single unit.
UnitsOfFiles == [f \in {1, 2} |-> IF f = 1 THEN 2 ELSE 1]

VARIABLE part    \* the component this behaviour is of

-----------------------------------------------------------------------------
\* Every component but one rests in an initial state.
BaseRests == CampaignInit
SessionRests == SessionInit /\ watch = "none"
ReadingRests == SweepInit

MCInit ==
    \/ part = "fuzz" /\ CampaignInit /\ SessionRests /\ ReadingRests
    \/ part = "session" /\ SessionInit /\ BaseRests /\ ReadingRests
    \/ part = "sweep" /\ SweepInit /\ BaseRests /\ SessionRests

MCNext ==
    \/ part = "fuzz" /\ CampaignNext /\ UNCHANGED <<part, sessionVars, sweepVars>>
    \/ part = "session" /\ SessionNext /\ UNCHANGED <<part, campaignVars, sweepVars>>
    \/ part = "sweep" /\ SweepNext /\ UNCHANGED <<part, campaignVars, sessionVars>>

mcVars == <<part, campaignVars, sessionVars, sweepVars>>

MCSpec ==
    /\ MCInit /\ [][MCNext]_mcVars
    /\ \A p \in Procs : /\ WF_campaignVars(part = "fuzz" /\ Step(p))
                         /\ SF_campaignVars(part = "fuzz" /\ Enter(p) /\ slot = Nobody)
    /\ \A p \in Procs, h \in Harnesses, a \in Artifacts :
          SF_campaignVars(part = "fuzz" /\ at = h /\ Replay(p, a, TRUE))
    /\ WF_sessionVars(part = "session" /\ Wrapper)
    /\ WF_sessionVars(part = "session" /\ Alarm)
    /\ WF_sessionVars(part = "session" /\ Caller)
    /\ WF_sweepVars(part = "sweep" /\ SweepSteps)

\* Bounds: what goes wrong from outside, one or two things at a time.
MCBound ==
    /\ part = "sweep" => /\ edits + marks + kills <= 2 /\ offered \subseteq {1}
                         /\ \A u, v \in DOMAIN looked : looked[u] # 0 /\ looked[v] # 0 => u = v

-----------------------------------------------------------------------------
\* Every artifact left behind is judged in the end, and every session and every
\* sweep ends.
EachEnds == PendingAdjudicated /\ (part = "session" => SessionEnds) /\ SweepEnds
=============================================================================
