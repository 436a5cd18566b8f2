------------------------------ MODULE MCShared ------------------------------
(***************************************************************************)
(* What several actors share, one question per behaviour: the source pins of *)
(* two runs ("pins"), two cards of one file claimed by two agents          *)
(* ("surface"), and two launches on one results tree ("launch").           *)
(***************************************************************************)
EXTENDS SourcePins, AuditRun
CONSTANTS p1, p2

VARIABLE part    \* the component this behaviour is of

VARIABLES q_latest, q_lastTerm, q_concl, q_ownTerm, q_accepted, q_hyp, q_runs, q_crashRun,
          q_recent, q_art, q_unfinished, q_live, q_pend, q_rel, q_view, q_covered, q_said
Surface == INSTANCE WorkQueue WITH
    Agents <- {"a1", "a2"}, Cards <- {"broad", "site"}, Broad <- {"broad"}, Hyps <- {},
    NoAgent <- "nobody", NoCard <- "no card",
    Surface <- [c \in {"broad", "site"} |-> "file"], Shape <- [h \in {} |-> h],
    CardStatuses <- {"discarded", "blocked"}, TTL <- 2, Grace <- 1, MinRuns <- 0,
    MinShapes <- 0, MaxRuns <- 1, MaxConclusions <- 1, latest <- q_latest,
    lastTerm <- q_lastTerm, concl <- q_concl, ownTerm <- q_ownTerm, accepted <- q_accepted,
    hyp <- q_hyp, runs <- q_runs, crashRun <- q_crashRun, recent <- q_recent, art <- q_art,
    unfinished <- q_unfinished, live <- q_live, pend <- q_pend, rel <- q_rel,
    view <- q_view, covered <- q_covered, said <- q_said
SurfaceVars == <<q_latest, q_lastTerm, q_concl, q_ownTerm, q_accepted, q_hyp, q_runs, q_crashRun,
    q_recent, q_art, q_unfinished, q_live, q_pend, q_rel, q_view, q_covered, q_said>>

-----------------------------------------------------------------------------
\* Every component but one rests in an initial state.
BaseRests == PinInit
SurfaceRests == Surface!Init
LaunchRests == LaunchInit /\ config = [b \in Backends |-> Unrecorded]

MCInit ==
    \/ part = "pins" /\ PinInit /\ SurfaceRests /\ LaunchRests
    \/ part = "surface" /\ Surface!Init /\ BaseRests /\ LaunchRests
    \/ part = "launch" /\ LaunchInit /\ BaseRests /\ SurfaceRests

MCNext ==
    \/ part = "pins" /\ PinNext /\ UNCHANGED <<part, SurfaceVars, launchVars>>
    \/ part = "surface" /\ Surface!Next /\ UNCHANGED <<part, pinVars, launchVars>>
    \/ part = "launch" /\ LaunchNext /\ UNCHANGED <<part, pinVars, SurfaceVars>>

mcVars == <<part, pinVars, SurfaceVars, launchVars>>

MCSpec ==
    /\ MCInit /\ [][MCNext]_mcVars
    /\ \A p \in Claimants : WF_pinVars(part = "pins" /\ Claiming(p)) /\ SF_pinVars(part = "pins" /\ Enter(p))
    /\ WF_SurfaceVars(part = "surface" /\ Surface!Tick)
    /\ WF_SurfaceVars(part = "surface" /\ \E row \in q_rel : Surface!ReleaseAppend(row))

\* Bounds: what goes wrong from outside, one or two things at a time.
MCBound ==
    /\ part = "launch" => /\ step[1] = "off" => step[2] = "off"
                          /\ Cardinality(use[2]) <= 1 /\ step[2] \notin {"signalled", "killed"}
                          /\ total[1] > 0 => step[2] \in {"off", "fatal", "done"}
                          /\ raced # {} => total[1] <= 1
                          /\ mark # {} \/ (\A b \in Backends : config[b] = "delta") => step[2] = "off"

-----------------------------------------------------------------------------
\* next-card gives no two agents live leases on cards of one file, and the
\* leases of an agent that never runs again end.
SurfaceShared ==
    /\ [](part = "surface" => Surface!SurfaceOneHolder)
    /\ ((part = "surface") => Surface!DeadLeaseEnds)

=============================================================================
