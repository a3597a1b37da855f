---------------------------- MODULE WorkflowRows ----------------------------
(***************************************************************************)
(* The rows of one campaign and what the services compute from them:       *)
(* WorkflowEngineService, StatusRollupService and                          *)
(* DeliverableDerivationService (app/services), as functions of the rows   *)
(* they read.  No state here: WorkflowEngine applies them atomically and   *)
(* WorkflowTxn to snapshots.                                               *)
(*                                                                         *)
(* A timestamp is abstracted to whether it is set.  Dates, owners, waiting *)
(* fields and effort are left out.  Health is left out too: a step's       *)
(* health is a function of the branch that sets its status.                *)
(***************************************************************************)
EXTENDS FiniteSets, Naturals

CONSTANTS
  Steps,          \* the workflow steps of the campaign
  Stages,         \* its stages
  StageOf,        \* StageOf[s]: stage_id of step s
  Preds,          \* Preds[s]: the finish_to_start predecessors of s
  Deliverables,   \* its deliverables
  DeliverableOf,  \* DeliverableOf[s]: linked_deliverable_id of step s ...
  NoDeliverable,  \* ... or NoDeliverable
  BirthStage,     \* BirthStage[d]: the stage d's type puts it in when generated
  Planning        \* the "planning" stage

ASSUME GraphAssumption ==
  /\ StageOf \in [Steps -> Stages]
  /\ Preds \in [Steps -> SUBSET Steps]
  /\ \A s \in Steps : s \notin Preds[s]
ASSUME DeliverableAssumption ==
  /\ NoDeliverable \notin Deliverables
  /\ DeliverableOf \in [Steps -> Deliverables \union {NoDeliverable}]
  /\ BirthStage \in [Deliverables -> Stages]
  /\ Planning \in Stages

\* GlobalStatus
Status == {"not_started", "in_progress", "on_hold", "blocked_client",
           "blocked_internal", "blocked_dependency", "done", "cancelled"}

\* normalized_status; whether actual_start and actual_done are set
StepRow == [status : Status, started : BOOLEAN, done : BOOLEAN]

StageRow == [status : Status, done : BOOLEAN]

CampaignRow == [status : Status, source : {"derived", "manual"}]

NewStep == [status |-> "not_started", started |-> FALSE, done |-> FALSE]
NewStage == [status |-> "not_started", done |-> FALSE]
NewCampaign == [status |-> "not_started", source |-> "derived"]
Finished == [status |-> "done", started |-> TRUE, done |-> TRUE]

\* In what follows step is the step rows and live the steps not yet deleted;
\* a dependency row disappears with either of its steps.

-----------------------------------------------------------------------------
(* Completing a step                                                       *)

(* Mutant: one finished predecessor is enough.                             *)
ReadyAny(step, live, s) ==
  Preds[s] \intersect live = {} \/ \E p \in Preds[s] \intersect live : step[p].done

Ready(step, live, s) == \A p \in Preds[s] \intersect live : step[p].done

(* Mutant: the successor's actual_done is not looked at.                   *)
WithSuccessorsAlways(step, live, s) ==
  [t \in Steps |->
     IF t \in live /\ s \in Preds[t]
       THEN [step[t] EXCEPT !.status = IF Ready(step, live, t)
                                         THEN "in_progress"
                                         ELSE "blocked_dependency"]
       ELSE step[t]]

(* _activate_successors: an unfinished successor of s starts once all its  *)
(* predecessors have finished, and is blocked by them until then.          *)
WithSuccessors(step, live, s) ==
  [t \in Steps |->
     IF t \in live /\ s \in Preds[t] /\ ~step[t].done
       THEN [step[t] EXCEPT !.status = IF Ready(step, live, t)
                                         THEN "in_progress"
                                         ELSE "blocked_dependency"]
       ELSE step[t]]

(* Mutant: the successors are looked at before the step is finished.       *)
CompletedLate(step, live, s) ==
  [WithSuccessors(step, live, s) EXCEPT ![s] = Finished]

Completed(step, live, s) ==
  WithSuccessors([step EXCEPT ![s] = Finished], live, s)

-----------------------------------------------------------------------------
(* Managing a step: the completion_date field, then the status action      *)

Completions == {"keep", "clear", "set"}   \* absent, blank, a date

StatusActions == {"not_started", "in_progress", "on_hold", "cancelled",
                  "blocked_client", "blocked_internal", "blocked_dependency",
                  "reopen", "clear_blocker"}

WithCompletion(row, completion) ==
  IF completion = "set" THEN [row EXCEPT !.status = "done", !.done = TRUE]
  ELSE IF completion = "clear" THEN [row EXCEPT !.done = FALSE]
  ELSE row

(* Each action names its status, except reopen and clear_blocker; all but  *)
(* cancelled and clear_blocker unset actual_done.                          *)
WithAction(row, action) ==
  [status  |-> IF action = "reopen" THEN "in_progress"
               ELSE IF action # "clear_blocker" THEN action
               ELSE IF row.started THEN "in_progress" ELSE "not_started",
   started |-> action = "in_progress" \/ (action # "not_started" /\ row.started),
   done    |-> action = "cancelled" \/ (action = "clear_blocker" /\ row.done)]

(* manage_step.  "none" is a request without a status action.              *)
Managed(step, live, s, completion, action) ==
  LET row == WithCompletion(step[s], completion)
  IN  IF action = "done" THEN Completed(step, live, s)
      ELSE [step EXCEPT ![s] = IF action = "none" THEN row
                                                  ELSE WithAction(row, action)]

-----------------------------------------------------------------------------
(* What parents show                                                       *)

Inside(live, g) == {s \in live : StageOf[s] = g}

(* Mutant: the three kinds of blocked collapse into one.                   *)
StageStatusShort(seen) ==
  IF seen = {"done"} THEN "done"
  ELSE IF "blocked_dependency" \in seen THEN "blocked"
  ELSE IF "in_progress" \in seen THEN "in_progress" ELSE "not_started"

(* The status of a stage whose steps have the statuses seen.               *)
StageStatus(seen) ==
  IF seen = {"done"} THEN "done"
  ELSE IF "blocked_dependency" \in seen THEN "blocked_dependency"
  ELSE IF "blocked_client" \in seen THEN "blocked_client"
  ELSE IF "blocked_internal" \in seen THEN "blocked_internal"
  ELSE IF "in_progress" \in seen THEN "in_progress"
  ELSE IF "on_hold" \in seen THEN "on_hold"
  ELSE IF seen = {"cancelled"} THEN "cancelled"
  ELSE "not_started"

(* Mutant: actual_done of the stage is the latest of its steps' dates, set *)
(* as soon as one is.                                                      *)
DerivedStageAny(step, live, g) ==
  [status |-> StageStatus({step[s].status : s \in Inside(live, g)}),
   done   |-> \E s \in Inside(live, g) : step[s].done]

(* Mutant: a stage is finished when its status says so.                    *)
DerivedStageByStatus(step, live, g) ==
  LET status == StageStatus({step[s].status : s \in Inside(live, g)})
  IN  [status |-> status, done |-> status = "done"]

(* _refresh_stage_from_steps                                               *)
DerivedStage(step, live, g) ==
  [status |-> StageStatus({step[s].status : s \in Inside(live, g)}),
   done   |-> /\ Inside(live, g) # {}
              /\ \A s \in Inside(live, g) : step[s].done]

Refreshed(stage, step, live, some) ==
  [g \in Stages |-> IF g \in some THEN DerivedStage(step, live, g) ELSE stage[g]]

(* reset_campaign_to_derived scans the stages in whatever order the query  *)
(* returns them: the last blocked one wins, else the first that is in      *)
(* progress or done.  The statuses it can end with:                        *)
RollUps(stage) ==
  LET seen    == {stage[g].status : g \in Stages}
      blocked == seen \intersect {"blocked_client", "blocked_internal"}
      moving  == seen \intersect {"in_progress", "done"}
  IN  IF "blocked_dependency" \in seen THEN {"blocked_dependency"}
      ELSE IF blocked # {} THEN blocked
      ELSE IF moving # {} THEN moving
      ELSE {"not_started"}

(* derive_operational_stage_status: a stage with the most in-progress      *)
(* steps of the deliverable (any of them on a tie), planning when it has   *)
(* none.                                                                   *)
OperationalStages(step, live, d) ==
  LET busy     == {s \in live : DeliverableOf[s] = d
                                  /\ step[s].status = "in_progress"}
      count(g) == Cardinality(Inside(busy, g))
  IN  IF busy = {} THEN {Planning}
      ELSE {g \in Stages : \A h \in Stages : count(h) <= count(g)}
=============================================================================
