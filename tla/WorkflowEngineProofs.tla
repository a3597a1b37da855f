------------------------ MODULE WorkflowEngineProofs ------------------------
(***************************************************************************)
(* Theorems about WorkflowEngine, for any steps, stages, dependencies and  *)
(* deliverables.                                                           *)
(***************************************************************************)
EXTENDS WorkflowEngine, TLAPS

-----------------------------------------------------------------------------
(* What the functions of WorkflowRows return, for any rows.                *)

(* A stage always shows one of the eight statuses.                         *)
LEMMA StageStatusType == ASSUME NEW seen PROVE StageStatus(seen) \in Status
BY DEF StageStatus, Status

(* Refreshing some stages leaves stage rows.                               *)
LEMMA RefreshedType ==
  ASSUME NEW st \in [Stages -> StageRow], NEW rows, NEW live, NEW some
  PROVE  Refreshed(st, rows, live, some) \in [Stages -> StageRow]
<1>1. ASSUME NEW g \in Stages PROVE DerivedStage(rows, live, g) \in StageRow
  <2>1. (Inside(live, g) # {} /\ \A s \in Inside(live, g) : rows[s].done)
          \in BOOLEAN
    OBVIOUS
  <2> QED BY <2>1, StageStatusType DEF DerivedStage, StageRow
<1> QED BY <1>1 DEF Refreshed

(* The campaign roll-up yields statuses only.                              *)
LEMMA RollUpsType ==
  ASSUME NEW st \in [Stages -> StageRow] PROVE RollUps(st) \subseteq Status
BY DEF RollUps, StageRow, Status

(* The derived operational status of a deliverable is a stage.             *)
LEMMA OperationalType ==
  ASSUME NEW rows, NEW live, NEW d
  PROVE  OperationalStages(rows, live, d) \subseteq Stages
BY DeliverableAssumption DEF OperationalStages

(* A completion finishes its own step, finishes no other, and changes only *)
(* successors.                                                             *)
LEMMA CompletedRows ==
  ASSUME NEW rows \in [Steps -> StepRow], NEW live, NEW s \in Steps
  PROVE  /\ Completed(rows, live, s) \in [Steps -> StepRow]
         /\ Completed(rows, live, s)[s].done
         /\ Completed(rows, live, s)[s] = Finished
         /\ \A t \in Steps \ {s} :
              Completed(rows, live, s)[t].done = rows[t].done
         /\ \A t \in Steps \ {s} :
              s \notin Preds[t] => Completed(rows, live, s)[t] = rows[t]
<1> DEFINE mid == [rows EXCEPT ![s] = Finished]
<1>1. Finished \in StepRow
  BY DEF Finished, StepRow, Status
<1>2. mid \in [Steps -> StepRow] /\ mid[s] = Finished
      /\ \A t \in Steps \ {s} : mid[t] = rows[t]
  BY <1>1
<1> HIDE DEF mid
<1>3. ASSUME NEW t \in Steps
      PROVE  /\ WithSuccessors(mid, live, s)[t] \in StepRow
             /\ WithSuccessors(mid, live, s)[t].done = mid[t].done
             /\ s \notin Preds[t] => WithSuccessors(mid, live, s)[t] = mid[t]
  BY <1>2 DEF WithSuccessors, StepRow, Status
<1>4. WithSuccessors(mid, live, s)[s] = mid[s]
  BY <1>2, GraphAssumption DEF WithSuccessors
<1>5. WithSuccessors(mid, live, s) \in [Steps -> StepRow]
  BY <1>3 DEF WithSuccessors
<1>6. Completed(rows, live, s) = WithSuccessors(mid, live, s)
  BY DEF Completed, mid
<1> QED BY <1>2, <1>3, <1>4, <1>5, <1>6 DEF Finished

(* A managed step is the only one whose completion can change; only its    *)
(* successors change with it.                                              *)
LEMMA ManagedRows ==
  ASSUME NEW rows \in [Steps -> StepRow], NEW live, NEW s \in Steps,
         NEW completion \in Completions,
         NEW action \in StatusActions \union {"done", "none"}
  PROVE  /\ Managed(rows, live, s, completion, action) \in [Steps -> StepRow]
         /\ \A t \in Steps \ {s} :
              Managed(rows, live, s, completion, action)[t].done = rows[t].done
         /\ \A t \in Steps \ {s} : s \notin Preds[t] =>
              Managed(rows, live, s, completion, action)[t] = rows[t]
<1>1. CASE action = "done"
  BY <1>1, CompletedRows DEF Managed
<1>2. CASE action # "done"
  <2> DEFINE row == WithCompletion(rows[s], completion)
             new == IF action = "none" THEN row ELSE WithAction(row, action)
  <2>1. row \in StepRow
    BY DEF WithCompletion, StepRow, Status
  <2>2. action # "none" => WithAction(row, action) \in StepRow
    BY <1>2, <2>1 DEF WithAction, StatusActions, StepRow, Status
  <2>3. new \in StepRow
    BY <2>1, <2>2
  <2>4. Managed(rows, live, s, completion, action) = [rows EXCEPT ![s] = new]
    BY <1>2 DEF Managed
  <2> HIDE DEF new
  <2> QED BY <2>3, <2>4
<1> QED BY <1>1, <1>2

(* Of the other steps, a completion leaves finished ones alone and starts  *)
(* those only whose predecessors have all finished.                        *)
LEMMA CompletedGate ==
  ASSUME NEW rows \in [Steps -> StepRow], NEW live \in SUBSET Steps,
         NEW s \in Steps, NEW t \in Steps \ {s}
  PROVE  /\ rows[t].done => Completed(rows, live, s)[t] = rows[t]
         /\ /\ Completed(rows, live, s)[t].status = "in_progress"
            /\ rows[t].status # "in_progress"
            => \A p \in Preds[t] \intersect live : Completed(rows, live, s)[p].done
<1> DEFINE mid == [rows EXCEPT ![s] = Finished]
           new == WithSuccessors(mid, live, s)
<1>1. mid[t] = rows[t] /\ mid \in [Steps -> StepRow]
  BY DEF Finished, StepRow, Status
<1>2. Completed(rows, live, s) = new
  BY DEF Completed
<1> HIDE DEF mid
<1>3. \A p \in Steps : new[p].done = mid[p].done
  BY <1>1 DEF WithSuccessors, StepRow
<1>4. new[t] = rows[t] \/
        /\ ~rows[t].done
        /\ new[t].status = (IF Ready(mid, live, t) THEN "in_progress"
                                                   ELSE "blocked_dependency")
  BY <1>1 DEF WithSuccessors, StepRow
<1>5. Ready(mid, live, t) => \A p \in Preds[t] \intersect live : new[p].done
  BY <1>3 DEF Ready
<1> QED BY <1>2, <1>4, <1>5

-----------------------------------------------------------------------------
(* The rows always hold values of their columns' types.                    *)

LEMMA ResetCampaignType ==
  ASSUME stage' \in [Stages -> StageRow], ResetCampaign
  PROVE  campaign' \in CampaignRow
BY RollUpsType DEF ResetCampaign, CampaignRow

LEMMA PropagateType ==
  ASSUME TypeOK, NEW s \in Steps, Propagate(s)
  PROVE  /\ stage' \in [Stages -> StageRow] /\ campaign' \in CampaignRow
         /\ operational' \in [Deliverables -> Stages]
         /\ deliverables' = deliverables
<1>1. stage' \in [Stages -> StageRow]
  BY RefreshedType DEF Propagate, TypeOK
<1>2. campaign' \in CampaignRow
  BY <1>1, ResetCampaignType DEF Propagate
<1>3. operational' \in [Deliverables -> Stages]
  BY OperationalType DEF Propagate, Recompute, TypeOK
<1> QED BY <1>1, <1>2, <1>3 DEF Propagate

THEOREM TypeCorrect == Spec => []TypeOK
<1>1. Init => TypeOK
  BY DeliverableAssumption DEF Init, TypeOK, NewStep, NewStage, NewCampaign,
     StepRow, StageRow, CampaignRow, Status
<1>2. TypeOK /\ [Next]_vars => TypeOK'
  <2> SUFFICES ASSUME TypeOK, [Next]_vars PROVE TypeOK'
    OBVIOUS
  <2>1. ASSUME NEW s \in Steps, Complete(s) PROVE TypeOK'
    BY <2>1, CompletedRows, PropagateType DEF Complete, TypeOK
  <2>2. ASSUME NEW s \in Steps, NEW completion \in Completions,
               NEW action \in Asked \union {"done", "none"},
               ManageStep(s, completion, action)
        PROVE  TypeOK'
    BY <2>2, AskedAssumption, ManagedRows, PropagateType DEF ManageStep, TypeOK
  <2>3. ASSUME NEW s \in Steps, OverrideDue(s) PROVE TypeOK'
    BY <2>3, ResetCampaignType DEF OverrideDue, TypeOK
  <2>4. ASSUME NEW st \in Overrides, SetCampaignStatus(st) PROVE TypeOK'
    BY <2>4, OverridesAssumption DEF SetCampaignStatus, TypeOK, CampaignRow
  <2>5. ASSUME NEW st \in Overrides, CascadeStatus(st) PROVE TypeOK'
    <3>1. step' \in [Steps -> StepRow]
      BY <2>5, OverridesAssumption
         DEF CascadeStatus, TypeOK, WithAction, Finished, StepRow, Status
    <3>2. stage' \in [Stages -> StageRow]
      BY <2>5, RefreshedType DEF CascadeStatus, TypeOK
    <3>3. campaign' \in CampaignRow
      BY <2>5, <3>2, ResetCampaignType DEF CascadeStatus
    <3> QED BY <2>5, <3>1, <3>2, <3>3 DEF CascadeStatus, TypeOK
  <2>6. ASSUME NEW d \in Deliverables, DeleteDeliverable(d) PROVE TypeOK'
    BY <2>6 DEF DeleteDeliverable, TypeOK
  <2>7. ASSUME NEW d \in Deliverables, TransitionDeliverable(d) PROVE TypeOK'
    BY <2>7, OperationalType DEF TransitionDeliverable, TypeOK
  <2>8. ASSUME NEW d \in Deliverables, NEW g \in Stages,
               SetDeliverableStage(d, g)
        PROVE  TypeOK'
    BY <2>8 DEF SetDeliverableStage, TypeOK
  <2>9. CASE ReconcileStages
    BY <2>9, RefreshedType DEF ReconcileStages, TypeOK
  <2>10. CASE UNCHANGED vars
    BY <2>10 DEF vars, TypeOK
  <2> QED BY <2>1, <2>2, <2>3, <2>4, <2>5, <2>6, <2>7, <2>8, <2>9, <2>10
          DEF Next
<1> QED BY <1>1, <1>2, PTL DEF Spec

-----------------------------------------------------------------------------
(* Both invariants rest on the same argument: a request that changes a     *)
(* step in a way a stage depends on refreshes that stage, and a refreshed  *)
(* stage is exact.  The lemmas say it once, for any set of refreshed       *)
(* stages.                                                                 *)

LEMMA RefreshKeepsDone ==
  ASSUME StageDoneTracksSteps, deliverables' = deliverables,
         NEW some \in SUBSET Stages,
         stage' = Refreshed(stage, step', Live, some),
         \A t \in Live : StageOf[t] \notin some => step'[t].done = step[t].done
  PROVE  StageDoneTracksSteps'
<1>1. Live' = Live /\ Live \subseteq Steps
  BY DEF Live
<1>2. deliverables = Deliverables => Live = Steps
  BY DeliverableAssumption DEF Live
<1> SUFFICES ASSUME NEW g \in Stages
             PROVE  /\ stage'[g].done => \A s \in Inside(Live, g) : step'[s].done
                    /\ /\ deliverables = Deliverables
                       /\ Inside(Steps, g) # {}
                       /\ \A s \in Inside(Steps, g) : step'[s].done
                       => stage'[g].done
  BY <1>1 DEF StageDoneTracksSteps
<1>3. CASE g \in some
  <2>1. stage'[g].done = (/\ Inside(Live, g) # {}
                          /\ \A s \in Inside(Live, g) : step'[s].done)
    BY <1>3 DEF Refreshed, DerivedStage
  <2> QED BY <1>2, <2>1
<1>4. CASE g \notin some
  <2>1. stage'[g] = stage[g]
    BY <1>4 DEF Refreshed
  <2>2. \A s \in Inside(Live, g) : step'[s].done = step[s].done
    BY <1>4 DEF Inside
  <2> QED BY <1>2, <2>1, <2>2 DEF StageDoneTracksSteps
<1> QED BY <1>3, <1>4

LEMMA RefreshKeepsStatus ==
  ASSUME SelfContainedStageIsDerived, deliverables' = deliverables,
         NEW some \in SUBSET Stages,
         stage' = Refreshed(stage, step', Live, some),
         \A t \in Live : StageOf[t] \notin some /\ SelfContained(StageOf[t])
                          => step'[t].status = step[t].status
  PROVE  SelfContainedStageIsDerived'
<1>1. deliverables = Deliverables => Live = Steps
  BY DeliverableAssumption DEF Live
<1> SUFFICES ASSUME NEW g \in Stages, deliverables = Deliverables,
                    SelfContained(g)
             PROVE  stage'[g].status =
                      StageStatus({step'[s].status : s \in Inside(Steps, g)})
  BY DEF SelfContainedStageIsDerived, SelfContained
<1>2. CASE g \in some
  BY <1>1, <1>2 DEF Refreshed, DerivedStage
<1>3. CASE g \notin some
  <2>1. stage'[g] = stage[g]
    BY <1>3 DEF Refreshed
  <2>2. \A s \in Inside(Steps, g) : step'[s].status = step[s].status
    BY <1>1, <1>3 DEF Inside
  <2>3. {step'[s].status : s \in Inside(Steps, g)}
          = {step[s].status : s \in Inside(Steps, g)}
    BY <2>2
  <2> QED BY <2>1, <2>3 DEF SelfContainedStageIsDerived
<1> QED BY <1>2, <1>3

(* A step that waits for a step of another stage is in no self-contained   *)
(* stage, so a request on s reaches its own self-contained stage at most.  *)
LEMMA HandOffReach ==
  ASSUME NEW s \in Steps, NEW t \in Steps, StageOf[t] # StageOf[s],
         SelfContained(StageOf[t])
  PROVE  s \notin Preds[t]
BY GraphAssumption DEF SelfContained, Inside

StageInv == StageDoneTracksSteps /\ SelfContainedStageIsDerived

(* A request on one step, and the rows it leaves.                          *)
LEMMA PropagateKeepsStages ==
  ASSUME StageInv, TypeOK, NEW s \in Steps, Propagate(s),
         \A t \in Steps \ {s} :
           /\ step'[t].done = step[t].done
           /\ s \notin Preds[t] => step'[t] = step[t]
  PROVE  StageInv'
<1> DEFINE some == {StageOf[s]}
<1>1. some \in SUBSET Stages /\ deliverables' = deliverables
      /\ stage' = Refreshed(stage, step', Live, some) /\ Live \subseteq Steps
  BY GraphAssumption DEF Propagate, Live
<1>2. \A t \in Live : StageOf[t] \notin some => step'[t].done = step[t].done
  BY <1>1
<1>3. \A t \in Live : StageOf[t] \notin some /\ SelfContained(StageOf[t])
                         => step'[t].status = step[t].status
  BY <1>1, HandOffReach
<1> HIDE DEF some
<1> QED BY <1>1, <1>2, <1>3, RefreshKeepsDone, RefreshKeepsStatus DEF StageInv

LEMMA StageInvInit == Init => StageInv
<1> SUFFICES ASSUME Init PROVE StageInv
  OBVIOUS
<1>1. StageDoneTracksSteps
  BY DEF Init, StageDoneTracksSteps, NewStep, NewStage, Inside, Live
<1>2. ASSUME NEW g \in Stages
      PROVE  StageStatus({step[s].status : s \in Inside(Steps, g)}) = "not_started"
  <2>1. {step[s].status : s \in Inside(Steps, g)} \subseteq {"not_started"}
    BY DEF Init, NewStep, Inside
  <2> QED BY <2>1 DEF StageStatus
<1> QED BY <1>1, <1>2 DEF Init, StageInv, SelfContainedStageIsDerived, NewStage

LEMMA StageInvStep == StageInv /\ TypeOK /\ [Next]_vars => StageInv'
<1> SUFFICES ASSUME StageInv, TypeOK, [Next]_vars PROVE StageInv'
  OBVIOUS
<1>1. ASSUME NEW s \in Steps, Complete(s) PROVE StageInv'
  BY <1>1, CompletedRows, PropagateKeepsStages DEF Complete, TypeOK
<1>2. ASSUME NEW s \in Steps, NEW completion \in Completions,
             NEW action \in Asked \union {"done", "none"},
             ManageStep(s, completion, action)
      PROVE  StageInv'
  BY <1>2, AskedAssumption, ManagedRows, PropagateKeepsStages
     DEF ManageStep, TypeOK
<1>3. ASSUME NEW st \in Overrides, CascadeStatus(st) PROVE StageInv'
  <2> DEFINE some == {StageOf[s] : s \in Live}
  <2>1. some \in SUBSET Stages /\ deliverables' = deliverables
        /\ stage' = Refreshed(stage, step', Live, some)
    BY <1>3, GraphAssumption DEF CascadeStatus, Live
  <2>2. \A t \in Live : StageOf[t] \in some
    OBVIOUS
  <2> HIDE DEF some
  <2> QED BY <2>1, <2>2, RefreshKeepsDone, RefreshKeepsStatus DEF StageInv
<1>4. ASSUME NEW d \in Deliverables, DeleteDeliverable(d) PROVE StageInv'
  <2>1. /\ UNCHANGED <<step, stage>> /\ Live' \subseteq Live
        /\ deliverables' # Deliverables
    BY <1>4 DEF DeleteDeliverable, Live
  <2> QED BY <2>1 DEF StageInv, StageDoneTracksSteps,
                      SelfContainedStageIsDerived, Inside
<1>5. CASE ReconcileStages
  <2>1. Live \subseteq Steps /\ \A t \in Steps : StageOf[t] \in Stages
    BY GraphAssumption DEF Live
  <2>2. \A t \in Live : StageOf[t] \in Stages
    BY <2>1
  <2>3. /\ deliverables' = deliverables
        /\ stage' = Refreshed(stage, step', Live, Stages)
    BY <1>5 DEF ReconcileStages
  <2> QED BY <2>2, <2>3, RefreshKeepsDone, RefreshKeepsStatus DEF StageInv
<1>6. CASE UNCHANGED <<step, stage, deliverables>>
  BY <1>6 DEF StageInv, StageDoneTracksSteps, SelfContainedStageIsDerived,
     Live, Inside, SelfContained
<1> QED BY <1>1, <1>2, <1>3, <1>4, <1>5, <1>6
        DEF Next, OverrideDue, SetCampaignStatus, TransitionDeliverable,
            SetDeliverableStage, vars

(* A stage is recorded as finished exactly when its steps are, and never   *)
(* before, whatever requests arrive in whatever order.                     *)
THEOREM StagesFinishExactly == Spec => []StageDoneTracksSteps
<1>1. StageInv => StageDoneTracksSteps
  BY DEF StageInv
<1> QED BY <1>1, TypeCorrect, StageInvInit, StageInvStep, PTL DEF Spec

(* A stage that no hand-off from another stage reaches shows the status    *)
(* its steps call for.                                                     *)
THEOREM SelfContainedStages == Spec => []SelfContainedStageIsDerived
<1>1. StageInv => SelfContainedStageIsDerived
  BY DEF StageInv
<1> QED BY <1>1, TypeCorrect, StageInvInit, StageInvStep, PTL DEF Spec

-----------------------------------------------------------------------------
(* A change of any step's status ends a manual override.                   *)
THEOREM OverridesYield == Spec => StepChangeYieldsOverride
<1> DEFINE Yields == (\E s \in Steps : step'[s].status # step[s].status) =>
                       campaign'.source = "derived"
                       /\ campaign'.status \in RollUps(stage')
<1>1. [Next]_vars => [Yields]_vars
  <2>1. ResetCampaign => Yields
    BY DEF ResetCampaign
  <2>2. UNCHANGED step => Yields
    OBVIOUS
  <2> HIDE DEF Yields
  <2> QED BY <2>1, <2>2
          DEF Next, Complete, ManageStep, Propagate, OverrideDue,
              SetCampaignStatus, CascadeStatus, DeleteDeliverable,
              TransitionDeliverable, SetDeliverableStage, ReconcileStages, vars
<1> QED BY <1>1, PTL DEF Spec, StepChangeYieldsOverride

-----------------------------------------------------------------------------
(* A completion changes no finished step but its own and starts no step    *)
(* that still waits for a predecessor.                                     *)
THEOREM HandOffGate == Spec => HandOffIsGated
<1> DEFINE Gated ==
      \A s \in Steps : Complete(s) =>
        \A t \in Steps \ {s} :
          /\ step[t].done => step'[t] = step[t]
          /\ step'[t].status = "in_progress" /\ step[t].status # "in_progress"
               => \A p \in Preds[t] \intersect Live : step'[p].done
<1>1. TypeOK => Gated
  <2> SUFFICES ASSUME TypeOK, NEW s \in Steps, Complete(s),
                      NEW t \in Steps \ {s}
               PROVE  /\ step[t].done => step'[t] = step[t]
                      /\ /\ step'[t].status = "in_progress"
                         /\ step[t].status # "in_progress"
                         => \A p \in Preds[t] \intersect Live : step'[p].done
    OBVIOUS
  <2>1. step \in [Steps -> StepRow] /\ Live \in SUBSET Steps
        /\ step' = Completed(step, Live, s)
    BY DEF TypeOK, Live, Complete
  <2> QED BY <2>1, CompletedGate
<1>2. TypeOK /\ [Next]_vars => [Gated]_vars
  BY <1>1
<1> QED BY <1>2, TypeCorrect, PTL DEF Spec, HandOffIsGated
=============================================================================
