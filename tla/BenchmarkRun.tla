---------------------------- MODULE BenchmarkRun ----------------------------
(***************************************************************************)
(* lib/benchmark_runner.py: one benchmark run directory through starts,    *)
(* kills, resumes and regenerations.                                       *)
(*                                                                         *)
(* A run pins the source and the build it measures (run.json), audits its  *)
(* cells in order, and records each in cell.json before the audit, after   *)
(* it and after the finalizers.  A killed run is started again under the   *)
(* same id; a regeneration scores the evidence on disk without auditing.   *)
(* The checkout and the build are edited by hand at any time.              *)
(* One runner works on the directory at a time (BenchmarkLock).            *)
(***************************************************************************)
EXTENDS Naturals

CONSTANTS
    Checkouts,    \* what the checkout and the build can be
    Builds,
    Last,         \* cells are 1..Last, in the order the run takes them
    Direct,       \* those of the model-direct condition
    MaxEdits,     \* bound: edits of the checkout and the build by hand
    MaxKills      \* bound: kills of the runner

Cells == 1 .. Last
Unpinned == [src |-> "none", bld |-> "none"]
Pins == [src : Checkouts, bld : Builds]

ASSUME RunAssumption ==
    /\ "none" \notin Checkouts \cup Builds
    /\ Last \in Nat /\ Direct \subseteq Cells /\ MaxEdits \in Nat /\ MaxKills \in Nat

\* What a cell directory's marker files can say (benchmark.py cell_run_quality).
Qualities == {"clean", "incomplete", "provider_recovered", "provider_limited",
              "source_drift", "build_drift", "unowned_artifacts",
              "backend_terminated", "processes_unreaped"}
Noncomparable == {"provider_limited", "source_drift", "build_drift", "processes_unreaped"}

Blank == [status |-> "none", quality |-> "clean", wall |-> FALSE, results |-> FALSE,
          mark |-> "clean", unavailable |-> FALSE, unreaped |-> FALSE,
          unowned |-> FALSE, terminated |-> FALSE,
          audit |-> "none", artifacts |-> FALSE, on |-> Unpinned]

CellRecords ==
    [status : {"none", "running", "incomplete", "failed", "done"}, quality : Qualities,
     wall : BOOLEAN, results : BOOLEAN,
     mark : Qualities, unavailable : BOOLEAN, unreaped : BOOLEAN,
     unowned : BOOLEAN, terminated : BOOLEAN,
     audit : {"none", "cut", "whole"}, artifacts : BOOLEAN, on : [src : Checkouts \cup {"none"}, bld : Builds \cup {"none"}]]

VARIABLES
    world,        \* the checkout and the build, as they are now
    recorded,     \* run.json: source_signature and build_identity
    cell,         \* the cell directories
    phase, at,    \* where the runner is, and at which cell
    read,         \* the source signature this start read
    down,         \* provider_unavailable
    status,       \* the cell's status, in the runner's memory
    failed,       \* regenerate: a finalizer of this cell failed
    edits, kills  \* bounded

run == <<phase, at, read, down, status, failed>>
runVars == <<world, recorded, cell, run, edits, kills>>

\* The type of every variable.
RunTypeOK ==
    /\ world \in Pins /\ recorded \in Pins \cup {Unpinned}
    /\ cell \in [Cells -> CellRecords]
    /\ phase \in {"off", "preflight", "pin", "next", "wiped", "audit", "ended",
               "checkpoint", "finalize", "regen", "recovered"}
    /\ at \in 1 .. Last + 1
    /\ read \in Checkouts \cup {"none"}
    /\ down \in BOOLEAN /\ failed \in BOOLEAN
    /\ status \in {"done", "incomplete", "failed"}
    /\ edits \in 0 .. MaxEdits /\ kills \in 0 .. MaxKills

RunInit ==
    /\ world \in Pins
    /\ recorded = Unpinned
    /\ cell = [c \in Cells |-> Blank]
    /\ phase = "off" /\ at = 1 /\ read = "none" /\ down = FALSE
    /\ status = "done" /\ failed = FALSE
    /\ edits = 0 /\ kills = 0

-----------------------------------------------------------------------------
(* Cell records *)

\* cell_run_quality: the marker files, in their order of precedence.
CellRunQuality(d, st) ==
    LET unowned == d.unowned /\ d.mark \notin {"provider_limited", "source_drift", "build_drift"}
        marked == IF unowned THEN "unowned_artifacts" ELSE d.mark
        ended == d.terminated /\ marked \notin {"provider_limited", "source_drift",
                                                "build_drift", "unowned_artifacts"}
        named == IF ended THEN "backend_terminated" ELSE marked
    IN  IF d.unreaped THEN "processes_unreaped"
        ELSE IF st = "incomplete" /\ named = "clean" THEN "incomplete" ELSE named

\* write_cell: the record is replaced whole; the markers decide its quality.
Written(d, st, wall, results) ==
    [d EXCEPT !.status = st, !.wall = wall, !.results = results,
              !.quality = CellRunQuality(d, st)]

\* The checkpoint before the finalizers never says done.
CheckpointStatus(st) == IF st = "done" THEN "incomplete" ELSE st

-----------------------------------------------------------------------------
(* The world *)

\* The checkout is edited, or the build replaced by hand, while a run is on
\* or between two.
Edit ==
    /\ edits < MaxEdits /\ edits' = edits + 1
    /\ world' \in Pins \ {world}
    /\ UNCHANGED <<recorded, cell, run, kills>>

\* The process ends, and its memory with it.
RunnerExits == phase' = "off" /\ at' = 1 /\ read' = "none" /\ down' = FALSE
        /\ status' = "done" /\ failed' = FALSE

\* The runner is killed wherever it is; what it wrote stays.
KillRunner ==
    /\ phase # "off" /\ kills < MaxKills /\ kills' = kills + 1
    /\ RunnerExits
    /\ UNCHANGED <<world, recorded, cell, edits>>

-----------------------------------------------------------------------------
(* Starting *)

\* _source_pin_mismatch: a recorded source state that is no longer there.
SourceRefused(p, src) == p # Unpinned /\ p.src # src

\* _run_locked as far as the source check; a refused start changes nothing.
Start ==
    /\ phase = "off"
    /\ ~SourceRefused(recorded, world.src)
    /\ read' = world.src /\ phase' = "preflight"
    /\ UNCHANGED <<world, recorded, cell, at, down, status, failed, edits, kills>>

\* preflight_build of a resumed run: nothing is built, the recorded build is
\* verified and the run refused when it is gone.
VerifyBuild ==
    /\ phase = "preflight" /\ recorded # Unpinned
    /\ IF recorded.bld = world.bld
         THEN phase' = "pin" /\ UNCHANGED <<at, read, down, status, failed>>
         ELSE RunnerExits
    /\ UNCHANGED <<world, recorded, cell, edits, kills>>

\* preflight_build of a new run: the build converges, or the run is refused.
Converge ==
    /\ phase = "preflight" /\ recorded = Unpinned
    /\ \/ /\ \E b \in Builds : world' = [world EXCEPT !.bld = b]
          /\ phase' = "pin" /\ UNCHANGED <<at, read, down, status, failed>>
       \/ RunnerExits /\ UNCHANGED world
    /\ UNCHANGED <<recorded, cell, edits, kills>>

\* What run.json says from here on: a pin is kept as it is.
Pinned == IF recorded # Unpinned THEN recorded ELSE [src |-> read, bld |-> world.bld]

PublishPin ==
    /\ phase = "pin"
    /\ recorded' = Pinned
    /\ phase' = "next" /\ read' = "none"
    /\ UNCHANGED <<world, cell, at, down, status, failed, edits, kills>>

-----------------------------------------------------------------------------
(* One cell of a run *)

Set(c, d) == cell' = [cell EXCEPT ![c] = d]

\* A cell recorded done is left alone.
Finished(d) == d.status = "done"

SkipDone ==
    /\ phase = "next" /\ at \in Cells /\ Finished(cell[at])
    /\ at' = at + 1
    /\ UNCHANGED <<world, recorded, cell, phase, read, down, status, failed, edits, kills>>

\* The backend was unavailable to an earlier cell: this one is not started,
\* and its record names no results.
SkipUnavailable ==
    /\ phase = "next" /\ at \in Cells /\ ~Finished(cell[at]) /\ down
    /\ Set(at, Written([cell[at] EXCEPT !.unavailable = TRUE, !.mark = "provider_limited"],
                       "incomplete", FALSE, FALSE))
    /\ at' = at + 1
    /\ UNCHANGED <<world, recorded, phase, read, down, status, failed, edits, kills>>

\* Anything else is measured again from nothing.
Wipe ==
    /\ phase = "next" /\ at \in Cells /\ ~Finished(cell[at]) /\ ~down
    /\ Set(at, Blank) /\ phase' = "wiped"
    /\ UNCHANGED <<world, recorded, at, read, down, status, failed, edits, kills>>

\* The pinned build is compared before the audit; the start is recorded.
StartCell ==
    /\ phase = "wiped"
    /\ IF world.bld # recorded.bld
         THEN /\ Set(at, Written([cell[at] EXCEPT !.mark = "build_drift"],
                                 "incomplete", FALSE, FALSE))
              /\ phase' = "next" /\ at' = at + 1
         ELSE /\ Set(at, Written(cell[at], "running", FALSE, TRUE))
              /\ phase' = "audit" /\ UNCHANGED at
    /\ UNCHANGED <<world, recorded, read, down, status, failed, edits, kills>>

\* How run_harness and run_model_direct can leave the cell: the audit to its
\* end or cut short, artifacts or none, work the reaper could not end, evidence
\* in the shared tree, the provider's marks; and the exit status.
Ending(c) ==
    {e \in [audit : {"cut", "whole"}, artifacts : BOOLEAN, unreaped : BOOLEAN,
            unowned : BOOLEAN, mark : {"clean", "provider_recovered", "provider_limited"},
            rc : {0, 1}, terminated : BOOLEAN] :
        /\ e.mark = "provider_limited" => e.audit = "cut"
        /\ e.rc = 0 => e.audit = "whole" \/ e.mark = "provider_limited" \/ e.terminated
        /\ e.rc = 1 => e.audit = "cut"
        /\ e.terminated => /\ c \in Direct /\ e.audit = "cut" /\ e.artifacts
                           /\ e.rc = 0 /\ e.mark # "provider_limited"
        /\ e.unowned => e.artifacts /\ ~e.terminated}

\* The audit ends and the source is compared with the pin; on remembers what
\* the comparisons saw.
EndAudit ==
    /\ phase = "audit"
    /\ \E e \in Ending(at) :
        LET drift == world.src # recorded.src
        IN  /\ Set(at, [cell[at] EXCEPT
                   !.audit = e.audit, !.artifacts = e.artifacts,
                   !.unreaped = e.unreaped, !.unowned = e.unowned,
                   !.unavailable = e.mark = "provider_limited",
                   !.terminated = e.terminated,
                   !.mark = IF drift THEN "source_drift" ELSE e.mark,
                   !.on = [src |-> world.src, bld |-> "none"]])
            /\ down' = (down \/ e.mark = "provider_limited")
            /\ status' = IF e.mark = "provider_limited" THEN "incomplete"
                         ELSE IF e.rc = 1 THEN "failed"
                         ELSE IF drift THEN "incomplete" ELSE "done"
    /\ phase' = "ended"
    /\ UNCHANGED <<world, recorded, at, read, failed, edits, kills>>

BuildDrifted(b) == b # recorded.bld

\* The build is compared too.
CompareBuild ==
    /\ phase = "ended"
    /\ LET drift == BuildDrifted(world.bld)
       IN  /\ Set(at, [cell[at] EXCEPT !.mark = IF drift THEN "build_drift" ELSE @,
                                      !.on = [src |-> @.src, bld |-> world.bld]])
           /\ status' = IF drift /\ status = "done" THEN "incomplete" ELSE status
    /\ phase' = "checkpoint"
    /\ UNCHANGED <<world, recorded, at, read, down, failed, edits, kills>>

\* The wall is recorded before the finalizers, which may take for ever.
Checkpoint ==
    /\ phase = "checkpoint"
    /\ Set(at, Written(cell[at], CheckpointStatus(status), TRUE, TRUE))
    /\ phase' = "finalize"
    /\ UNCHANGED <<world, recorded, at, read, down, status, failed, edits, kills>>

\* Crash triage and the find gate run, or fail; metrics; the last record.  A
\* cell whose work is still running ends the run.
Finalize ==
    /\ phase = "finalize"
    /\ \E ok \in BOOLEAN :
        Set(at, Written(cell[at], IF ok THEN status ELSE "incomplete", TRUE, TRUE))
    /\ IF cell[at].unreaped
         THEN RunnerExits
         ELSE phase' = "next" /\ at' = at + 1 /\ status' = "done" /\ UNCHANGED <<read, down, failed>>
    /\ UNCHANGED <<world, recorded, edits, kills>>

\* Every cell was looked at: the report is written.
Report ==
    /\ phase \in {"next", "regen"} /\ at = Last + 1
    /\ RunnerExits
    /\ UNCHANGED <<world, recorded, cell, edits, kills>>

-----------------------------------------------------------------------------
(* Regeneration *)

Regenerate ==
    /\ phase = "off"
    /\ phase' = "regen"
    /\ UNCHANGED <<world, recorded, cell, at, read, down, status, failed, edits, kills>>

\* A model-direct session that died over evidence is worth scoring.
TerminationRecovered(c, d) ==
    /\ c \in Direct /\ d.status = "failed" /\ d.artifacts
    /\ CellRunQuality(d, "failed") \notin Noncomparable

\* A cell without results is passed over; the others' quality is refreshed.
\* The replay build is compared with the one the cell recorded.
Reopen ==
    /\ phase = "regen" /\ at \in Cells
    /\ IF ~cell[at].results
         THEN at' = at + 1 /\ UNCHANGED <<cell, phase, failed>>
         ELSE LET d == cell[at]
                  again == TerminationRecovered(at, d)
                  d1 == [d EXCEPT !.terminated = @ \/ again,
                                  !.quality = IF again THEN CellRunQuality(
                                      [d EXCEPT !.terminated = TRUE], d.status) ELSE @]
                  unowned == d1.unowned /\ d1.quality \notin
                                 {"provider_limited", "source_drift", "build_drift"}
              IN  /\ Set(at, [d1 EXCEPT !.quality = IF unowned THEN "unowned_artifacts" ELSE @])
                  /\ failed' = (d.artifacts /\ world.bld # recorded.bld)
                  /\ phase' = "recovered" /\ UNCHANGED at
    /\ UNCHANGED <<world, recorded, read, down, status, edits, kills>>

\* What only the finalizers were missing from.
Completable(d) == d.status = "incomplete" \/ TerminationRecovered(at, d)
\* Bug: only the provider's own mark keeps a cell out.
PromotableDrifted(d) == Completable(d) /\ ~d.unavailable
\* A cell the finalizers can complete, and whose recorded reason does not keep
\* it out of the comparison.
Promotable(d) ==
    /\ Completable(d)
    /\ d.quality \notin Noncomparable /\ ~d.unavailable

\* The finalizers run over the frozen evidence, or fail; a cell that only
\* lacked them becomes done.
Refinalize ==
    /\ phase = "recovered"
    /\ \E ok \in BOOLEAN :
        LET d == cell[at]
            done == ok /\ ~failed /\ Promotable(d)
        IN  Set(at, IF done THEN [d EXCEPT !.status = "done",
                         !.quality = IF @ = "incomplete" THEN "clean" ELSE @] ELSE d)
    /\ phase' = "regen" /\ at' = at + 1 /\ failed' = FALSE
    /\ UNCHANGED <<world, recorded, read, down, status, edits, kills>>

-----------------------------------------------------------------------------
CellStep == SkipDone \/ SkipUnavailable \/ Wipe \/ StartCell \/ EndAudit \/ CompareBuild
        \/ Checkpoint \/ Finalize \/ Report

RunNext ==
    \/ Edit \/ KillRunner
    \/ Start \/ VerifyBuild \/ Converge \/ PublishPin
    \/ CellStep
    \/ Regenerate \/ Reopen \/ Refinalize

RunSpec == RunInit /\ [][RunNext]_runVars

-----------------------------------------------------------------------------
(* Properties *)

\* aggregate_run: the cells the medians and totals are taken over.
Counted(d) == d.status = "done"

\* Every cell in the comparison was audited on the source and the build the
\* run pins, whatever was edited, killed, resumed and regenerated before:
\* _resume_refusal's "mixing generations would average two different
\* experiments into one result".  A cell that is both unreaped and unowned is
\* left to UnreapedExcluded.
OneExperiment ==
    \A c \in Cells : Counted(cell[c]) =>
        cell[c].on = recorded \/ (cell[c].unreaped /\ cell[c].unowned)

\* A cell counts only when its audit came to an end that was compared with
\* the pin and whose wall is on record: one killed in between is never scored
\* on what it left.
CountedIsMeasured ==
    \A c \in Cells : Counted(cell[c]) => cell[c].wall /\ cell[c].on \in Pins

\* No resume or regeneration discards or replaces a finished measurement.
DoneKept ==
    [][\A c \in Cells : cell[c].status = "done" =>
          /\ cell'[c].status = "done"
          /\ cell'[c].on = cell[c].on /\ cell'[c].audit = cell[c].audit]_runVars

\* Over kills, edits and regenerations a run's done cells are one experiment,
\* each measured by a whole audit, and a done cell is not taken back.
RunKept == [](OneExperiment /\ CountedIsMeasured) /\ DoneKept
=============================================================================
