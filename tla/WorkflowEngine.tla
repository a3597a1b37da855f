--------------------------- MODULE WorkflowEngine ---------------------------
(***************************************************************************)
(* One campaign under every request that changes a step's status or what   *)
(* its parents show, each request atomic: the step endpoints               *)
(* (app/api/core_routes.py), the campaign and deliverable endpoints        *)
(* (app/api/routes/campaigns.py) and the stage repair of the ops job.      *)
(* Permissions are abstracted: some user may issue each request.           *)
(***************************************************************************)
EXTENDS WorkflowRows

CONSTANTS
  Asked,       \* the status actions users ask for on a step
  Overrides    \* the statuses users set on, or cascade from, the campaign

ASSUME AskedAssumption == Asked \subseteq StatusActions
ASSUME OverridesAssumption == Overrides \subseteq Status

VARIABLES
  step,          \* step[s]: row of workflow_steps
  stage,         \* stage[g]: row of stages
  campaign,      \* the row of campaigns
  deliverables,  \* the deliverables that still exist
  operational    \* operational[d]: operational_stage_status of d

vars == <<step, stage, campaign, deliverables, operational>>

(* The steps that still exist: a deliverable's steps are deleted with it.  *)
Live == {s \in Steps : DeliverableOf[s] \in deliverables \union {NoDeliverable}}

TypeOK ==
  /\ step \in [Steps -> StepRow]
  /\ stage \in [Stages -> StageRow]
  /\ campaign \in CampaignRow
  /\ deliverables \subseteq Deliverables
  /\ operational \in [Deliverables -> Stages]

(* A campaign as generated: nothing has started.                           *)
Init ==
  /\ step = [s \in Steps |-> NewStep]
  /\ stage = [g \in Stages |-> NewStage]
  /\ campaign = NewCampaign
  /\ deliverables = Deliverables
  /\ operational = BirthStage

-----------------------------------------------------------------------------
(* Mutant: the source column is left as it was.                            *)
ResetCampaignKeepSource ==
  \E st \in RollUps(stage') : campaign' = [campaign EXCEPT !.status = st]

(* reset_campaign_to_derived, after the stages have been refreshed         *)
ResetCampaign ==
  \E st \in RollUps(stage') :
    campaign' = [status |-> st, source |-> "derived"]

(* recompute_operational_stage_status for the deliverable of step s        *)
Recompute(s) ==
  IF DeliverableOf[s] = NoDeliverable THEN UNCHANGED operational
  ELSE \E g \in OperationalStages(step', Live, DeliverableOf[s]) :
         operational' = [operational EXCEPT ![DeliverableOf[s]] = g]

(* What follows every change of step s: its stage is refreshed, the        *)
(* campaign reset, its deliverable recomputed.                             *)
Propagate(s) ==
  /\ stage' = Refreshed(stage, step', Live, {StageOf[s]})
  /\ ResetCampaign
  /\ Recompute(s)
  /\ UNCHANGED deliverables

(* POST /workflow-steps/{id}/complete                                      *)
Complete(s) ==
  /\ s \in Live
  /\ step' = Completed(step, Live, s)
  /\ Propagate(s)

(* The manage handler logs step.completion_date before it commits, and     *)
(* WorkflowStep has no such column: the attribute exists only if this very *)
(* request assigned it.  Otherwise the handler raises and nothing commits. *)
AssignsCompletionDate(completion, action) ==
  completion # "keep" \/ action \notin {"none", "clear_blocker"}

(* Mutant: an edit without a status action does not refresh the stage.     *)
ManageStepNoRefresh(s, completion, action) ==
  /\ s \in Live
  /\ AssignsCompletionDate(completion, action)
  /\ step' = Managed(step, Live, s, completion, action)
  /\ IF action = "none"
       THEN stage' = stage /\ ResetCampaign /\ Recompute(s) /\ UNCHANGED deliverables
       ELSE Propagate(s)

(* PATCH /workflow-steps/{id}/manage                                       *)
ManageStep(s, completion, action) ==
  /\ s \in Live
  /\ AssignsCompletionDate(completion, action)
  /\ step' = Managed(step, Live, s, completion, action)
  /\ Propagate(s)

(* POST /workflow-steps/{id}/override-due moves dates only, yet resets the *)
(* campaign to what its stages show.                                       *)
OverrideDue(s) ==
  /\ s \in Live
  /\ stage' = stage
  /\ ResetCampaign
  /\ UNCHANGED <<step, deliverables, operational>>

(* Mutant: the status is stored under one of its accepted aliases.         *)
SetCampaignStatusRaw(st) ==
  /\ st # campaign.status
  /\ campaign' = [status |-> IF st = "done" THEN "complete" ELSE st,
                  source |-> "manual"]
  /\ UNCHANGED <<step, stage, deliverables, operational>>

(* PATCH /campaigns/{id}/status                                            *)
SetCampaignStatus(st) ==
  /\ st # campaign.status
  /\ campaign' = [status |-> st, source |-> "manual"]
  /\ UNCHANGED <<step, stage, deliverables, operational>>

(* POST /campaigns/{id}/status/cascade runs manage_step on every step of   *)
(* the campaign.  Whatever the order, a step ends as its own call leaves   *)
(* it: the successors a "done" call activates are completed in their turn. *)
CascadeStatus(st) ==
  /\ step' = [s \in Steps |-> IF s \notin Live THEN step[s]
                              ELSE IF st = "done" THEN Finished
                              ELSE WithAction(step[s], st)]
  /\ stage' = Refreshed(stage, step', Live, {StageOf[s] : s \in Live})
  /\ ResetCampaign
  /\ UNCHANGED <<deliverables, operational>>

(* DELETE /deliverables/{id}: the steps and their dependencies go; neither *)
(* stage nor campaign is refreshed.                                        *)
DeleteDeliverable(d) ==
  /\ d \in deliverables
  /\ deliverables' = deliverables \ {d}
  /\ UNCHANGED <<step, stage, campaign, operational>>

(* POST /deliverables/{id}/transition, of which only the recomputation at  *)
(* its end concerns this state.                                            *)
TransitionDeliverable(d) ==
  /\ d \in deliverables
  /\ \E g \in OperationalStages(step, Live, d) :
       operational' = [operational EXCEPT ![d] = g]
  /\ UNCHANGED <<step, stage, campaign, deliverables>>

(* PATCH /deliverables/{id}/stage also stores the stage as the operational *)
(* one, whatever the steps are doing.                                      *)
SetDeliverableStage(d, g) ==
  /\ d \in deliverables
  /\ operational' = [operational EXCEPT ![d] = g]
  /\ UNCHANGED <<step, stage, campaign, deliverables>>

(* reconcile_campaign, run by the ops job, on a campaign whose template    *)
(* steps are all in place: every stage is refreshed, the campaign is not.  *)
ReconcileStages ==
  /\ stage' = Refreshed(stage, step, Live, Stages)
  /\ UNCHANGED <<step, campaign, deliverables, operational>>

Next ==
  \/ \E s \in Steps :
       \/ Complete(s)
       \/ \E completion \in Completions,
             action \in Asked \union {"done", "none"} :
            ManageStep(s, completion, action)
       \/ OverrideDue(s)
  \/ \E st \in Overrides : SetCampaignStatus(st) \/ CascadeStatus(st)
  \/ \E d \in Deliverables :
       \/ DeleteDeliverable(d)
       \/ TransitionDeliverable(d)
       \/ \E g \in Stages : SetDeliverableStage(d, g)
  \/ ReconcileStages

Spec == Init /\ [][Next]_vars

-----------------------------------------------------------------------------
(* A stage is recorded as finished exactly when all its steps are, through *)
(* completions, back-dated completions, cancellations, reopenings and      *)
(* cascades; after a deliverable was deleted a finished stage may still be *)
(* shown as open, never the other way round (_refresh_stage_from_steps     *)
(* runs for the edited step's stage only).                                 *)
StageDoneTracksSteps ==
  \A g \in Stages :
    /\ stage[g].done => \A s \in Inside(Live, g) : step[s].done
    /\ /\ deliverables = Deliverables
       /\ Inside(Steps, g) # {}
       /\ \A s \in Inside(Steps, g) : step[s].done
       => stage[g].done

(* Hand-off is the only way a step changes without its own stage being     *)
(* refreshed: a stage none of whose steps waits for another stage shows    *)
(* the status its steps call for, as long as no deliverable was deleted.   *)
SelfContained(g) ==
  \A s \in Inside(Steps, g) : \A p \in Preds[s] : StageOf[p] = g

SelfContainedStageIsDerived ==
  deliverables = Deliverables =>
    \A g \in Stages :
      SelfContained(g) =>
        stage[g].status = StageStatus({step[s].status : s \in Inside(Steps, g)})

(* A change of any step's status ends a manual override: the campaign is   *)
(* back to a status its stages, as they now stand, call for.               *)
StepChangeYieldsOverride ==
  [][(\E s \in Steps : step'[s].status # step[s].status) =>
       campaign'.source = "derived" /\ campaign'.status \in RollUps(stage')]_vars

(* A completion never touches a step that has finished, other than the     *)
(* completed one, and starts no step that still waits for a predecessor.   *)
HandOffIsGated ==
  [][\A s \in Steps : Complete(s) =>
       \A t \in Steps \ {s} :
         /\ step[t].done => step'[t] = step[t]
         /\ step'[t].status = "in_progress" /\ step[t].status # "in_progress"
              => \A p \in Preds[t] \intersect Live : step'[p].done]_vars

-----------------------------------------------------------------------------
(* docs/WORKING_CONTEXT.md:48, "Parent status defaults to derived with     *)
(* explicit source metadata": what a stage shows is derived from its       *)
(* steps.                                                                  *)
StageStatusIsDerived ==
  \A g \in Stages : stage[g].status = DerivedStage(step, Live, g).status
=============================================================================
