----------------------------- MODULE Scheduler ------------------------------
(***************************************************************************)
(* The operator scheduler over a linear dataflow (runtime/scheduler.rs,    *)
(* planner/runtime.rs).  One process runs all stages: it asks the database *)
(* for the first ready stage after the one it ran last, and runs one       *)
(* transition of it.  Which stages are ready is durable; where the         *)
(* rotation stands is not, and begins anew with every restart.             *)
(*                                                                         *)
(* LinearDataflow lets the stages run in any order; here the order is the  *)
(* scheduler's, and only the process as a whole is fair.                   *)
(***************************************************************************)
EXTENDS LinearDataflow

VARIABLE stage_cursor     \* the stage that ran last; -1: none since the load

schedVars == <<vars, stage_cursor>>

ReadyStages == {s \in Stages : Ready(s)}

\* Mutant: the rotation does not go round.
NoWrap(ready, cursor) == {s \in ready : s > cursor}

\* next_ready_stage: the ready stages the choice is made from.
Candidates(ready, cursor) ==
    LET after == {s \in ready : s > cursor}
    IN IF after # {} THEN after ELSE ready

StageStep(s) ==
    CASE s = 0 -> ScanStep
      [] s \in Transforms -> TransformStep(s)
      [] s = SinkStage -> SinkStep

\* step_one_operator: the cursor moves to the stage that is run.
StepOperator ==
    \E s \in {Min(c) : c \in {Candidates(ReadyStages, stage_cursor)} \ {{}}} :
        /\ StageStep(s)
        /\ stage_cursor' = s

\* The Runtime restarts, or the dataflow is evicted from its cache and loaded
\* again: LoadedDataflow::load begins without a cursor.
Reload ==
    /\ stage_cursor # -1
    /\ stage_cursor' = -1
    /\ UNCHANGED vars

Others == Commit \/ Round \/ Register \/ \E s \in Operators : Collect(s)

SchedInit == Init /\ stage_cursor = -1
SchedNext ==
    \/ StepOperator
    \/ Others /\ UNCHANGED stage_cursor
    \/ Reload

\* The Runtime loop publishes, runs operators and collects every stream in
\* rotation.  Nothing obliges the source to commit, nor a dataflow to be
\* registered; restarts may come at any time, between steps.
SchedSpec ==
    /\ SchedInit /\ [][SchedNext]_schedVars
    /\ WF_schedVars(Round /\ UNCHANGED stage_cursor)
    /\ WF_schedVars(StepOperator)
    /\ \A s \in Operators : WF_schedVars(Collect(s) /\ UNCHANGED stage_cursor)
=============================================================================
