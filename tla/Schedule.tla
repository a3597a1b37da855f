------------------------------ MODULE Schedule ------------------------------
(***************************************************************************)
(* The dates of a campaign and the health stored with it: what the         *)
(* requests on steps, deliverables, milestones and the campaign do to them *)
(* (app/services/workflow_engine_service.py, milestone_service.py,         *)
(* campaign_health_updater.py, the date endpoints of app/api), the ops     *)
(* job's repair (stage_integrity_service.py), a restart                    *)
(* (app/db/schema_updates.py), and days that pass.                         *)
(*                                                                         *)
(* WorkflowEngine has the statuses.  Which open status a stage has is left *)
(* open here, and with it what the roll-up makes of it.                    *)
(***************************************************************************)
EXTENDS StepDates

CONSTANTS
  Situations,  \* what a campaign may look like at first: its rows
  Edits,       \* what a request on a step may carry
  RequestDays, \* the dates any other request may carry
  ScopeStart,  \* sow_start_date of the scope
  DueOffset,   \* DueOffset[d]: working days the default due date is after the start
  LastDay,     \* bound: the last day
  MaxChanges   \* bound: requests

Days == 0..LastDay
PlannedDay == Working \union {NoDay}

StageRow == [start : AnyDay, due : AnyDay, baseStart : AnyDay, baseDue : AnyDay, status : Closing]
DeliverableRow == [start : AnyDay, due : AnyDay, baseDue : AnyDay, published : BOOLEAN]
CampaignRow == [start : AnyDay, end : AnyDay, status : Closing,
                health : {"not_started", "on_track", "at_risk", "off_track"}]
Sla == {"not_due", "met", "missed"}
MilestoneRow == [due : PlannedDay, offset : Int, hasOffset : BOOLEAN, completed : AnyDay,
                 sla : Sla, manual : BOOLEAN]

\* NoDay is a date, and "none" a status, that is absent.
Edit == [start : AnyDay, due : AnyDay, completion : AnyDay \union {Blank},
         status : {"none", "done", "cancelled", "waiting", "unblocked", "begun"}]

ASSUME RequestAssumption ==
  Edits \subseteq Edit /\ RequestDays \subseteq Nat /\ ScopeStart \in AnyDay
ASSUME DueAssumption == DueOffset \in [Deliverables -> Nat]
\* A milestone is due on a working day, and has no offset in a campaign that has no
\* start: generation measures the one from the other (_create_milestones, of
\* campaign_generation_service.py).  What else is planned may be planned on any day.
ASSUME SituationAssumption ==
  \A s \in Situations :
    /\ s.step \in [Steps -> StepRow] /\ s.stage \in [Stages -> StageRow]
    /\ s.deliverable \in [Deliverables -> DeliverableRow] /\ s.campaign \in CampaignRow
    /\ s.milestone \in [Milestones -> MilestoneRow]
    /\ \A m \in Milestones : s.milestone[m].hasOffset =>
         /\ s.campaign.start # NoDay
         /\ s.milestone[m].due = NextWorkingDay(s.campaign.start + s.milestone[m].offset)
ASSUME BoundAssumption == LastDay \in Nat /\ MaxChanges \in Nat

VARIABLES
  today,
  step, stage, deliverable, campaign, milestone,   \* the rows
  changes     \* number of requests so far

vars == <<today, step, stage, deliverable, campaign, milestone, changes>>

(* A milestone is due on a working day (next_working_day_on_or_after at    *)
(* each place that sets its date); every other row holds days.             *)
TypeOK ==
  /\ today \in Days
  /\ step \in [Steps -> StepRow]
  /\ stage \in [Stages -> StageRow]
  /\ deliverable \in [Deliverables -> DeliverableRow]
  /\ campaign \in CampaignRow
  /\ milestone \in [Milestones -> MilestoneRow]
  /\ changes \in 0..MaxChanges

Init ==
  /\ today = 0
  /\ changes = 0
  /\ \E s \in Situations :
       /\ step = s.step /\ stage = s.stage /\ deliverable = s.deliverable
       /\ campaign = s.campaign /\ milestone = s.milestone

-----------------------------------------------------------------------------
(* What the rows above a step show.                                        *)

StageStatus(seen) == IF seen = {"done"} THEN "done"
                     ELSE IF seen = {"cancelled"} THEN "cancelled" ELSE "open"

\* _refresh_stage_from_steps
Refreshed(step_, g) ==
  LET mine == Inside(g)
  IN [start |-> Earliest({OrElse(step_[s].start, step_[s].due) : s \in mine}),
      due |-> Latest({OrElse(step_[s].due, step_[s].start) : s \in mine}),
      baseStart |-> Earliest({OrElse(step_[s].baseStart, step_[s].baseDue) : s \in mine}),
      baseDue |-> Latest({OrElse(step_[s].baseDue, step_[s].baseStart) : s \in mine}),
      status |-> StageStatus({step_[s].status : s \in mine})]

\* reset_campaign_to_derived, as far as it depends on what is kept here: a stage
\* that is done may be what the campaign shows, unless one is open and busy.
RolledUp(stage_) ==
  LET seen == {stage_[g].status : g \in Stages}
  IN  IF "done" \notin seen THEN {"open"}
      ELSE IF "open" \in seen THEN {"open", "done"} ELSE {"done"}

\* refresh_campaign_health, as the last thing a request does.
HealthOf(row, step_, stage_, deliverable_) ==
  [row EXCEPT !.health = CampaignHealth(today, row, step_, stage_, deliverable_)]

(* A request on a step leaves the steps step_; some are the stages it      *)
(* refreshes.                                                              *)
StepRequest(step_, some) ==
  /\ step' = step_
  /\ stage' = [g \in Stages |-> IF g \in some THEN Refreshed(step_, g) ELSE stage[g]]
  /\ \E status \in RolledUp(stage') :
       campaign' = HealthOf([campaign EXCEPT !.status = status], step', stage', deliverable)
  /\ UNCHANGED <<today, deliverable, milestone>>

Request == changes < MaxChanges /\ changes' = changes + 1

-----------------------------------------------------------------------------
(* Requests on steps.                                                      *)

\* set_step_complete, and manage_step with the status done.
CompletedFrom(row, s, order) ==
  Activated(today, [step EXCEPT ![s] = [row EXCEPT !.done = today, !.status = "done"]], s, order)

Complete(s) ==
  /\ Request
  /\ \E order \in RowOrders : StepRequest(CompletedFrom(step[s], s, order), {StageOf[s]})

(* Mutant: the health of the campaign is not evaluated again.              *)
OverrideDueUnseen(s, day) ==
  /\ Request
  /\ \E order \in RowOrders :
       step' = Recalculated(today, [step EXCEPT ![s] = Moved(today, @, day)], s, order)
  /\ UNCHANGED <<today, stage, deliverable, campaign, milestone>>

\* override_step_due: refreshes no stage.
OverrideDue(s, day) ==
  /\ Request
  /\ \E order \in RowOrders :
       StepRequest(Recalculated(today, [step EXCEPT ![s] = Moved(today, @, day)], s, order), {})

\* manage_step: dates reschedule nothing after the step.
Manage(s, edit) ==
  /\ Request
  /\ LET row == WithDates(today, step[s], edit)
     IN  IF edit.status = "done"
           THEN \E order \in RowOrders : StepRequest(CompletedFrom(row, s, order), {StageOf[s]})
           ELSE StepRequest([step EXCEPT ![s] = WithStatus(today, row, edit.status)], {StageOf[s]})

-----------------------------------------------------------------------------
(* Requests on deliverables and on the campaign.                           *)

DeliverableRequest(d, row) ==
  /\ Request
  /\ deliverable' = [deliverable EXCEPT ![d] = row]
  /\ campaign' = HealthOf(campaign, step, stage, deliverable')
  /\ UNCHANGED <<today, step, stage, milestone>>

\* override_deliverable_due
OverrideDeliverableDue(d, day) ==
  DeliverableRequest(d, [deliverable[d] EXCEPT !.due = NextWorkingDay(day)])

Set(old, day) == IF day = NoDay THEN old ELSE NextWorkingDay(day)
NotBefore(day, start) == IF day # NoDay /\ day < start THEN start ELSE day

\* update_deliverable_dates
DeliverableDates(d, start, due) ==
  /\ {start, due} # {NoDay}
  /\ LET begin == Set(deliverable[d].start, start)
     IN  DeliverableRequest(d, [deliverable[d] EXCEPT
           !.start = begin, !.due = NotBefore(Set(@, due), begin)])

\* transition_deliverable, to scheduled_or_published.
Publish(d) ==
  ~deliverable[d].published /\ DeliverableRequest(d, [deliverable[d] EXCEPT !.published = TRUE])

\* update_campaign_status: a status set by hand; the health is left as it was.
SetCampaignStatus(status) ==
  /\ Request
  /\ status # campaign.status
  /\ campaign' = [campaign EXCEPT !.status = status]
  /\ UNCHANGED <<today, step, stage, deliverable, milestone>>

-----------------------------------------------------------------------------
(* Milestones.                                                             *)

\* evaluate_sla
EvaluateSla(row) ==
  CASE row.due = NoDay -> "not_due"
    [] row.due # NoDay /\ row.completed # NoDay -> IF row.completed <= row.due THEN "met" ELSE "missed"
    [] row.due # NoDay /\ row.completed = NoDay -> IF row.due < today THEN "missed" ELSE "not_due"

\* refresh_sla
WithSla(row) == IF row.manual THEN row ELSE [row EXCEPT !.sla = EvaluateSla(row)]

WithOffset(row, start) ==
  IF row.hasOffset \/ row.due = NoDay THEN row
  ELSE [row EXCEPT !.offset = row.due - start, !.hasOffset = TRUE]

(* Mutant: the offset is measured again once the date has been moved.      *)
ReanchoredAnew(row, start) ==
  LET known == WithOffset(row, start)
      due == NextWorkingDay(start + known.offset)
  IN  IF ~known.hasOffset THEN row
      ELSE WithSla([known EXCEPT !.due = due, !.offset = due - start + 1])

\* reanchor_campaign_milestones, for one of them.
Reanchored(row, start) ==
  LET known == WithOffset(row, start)
  IN  IF ~known.hasOffset THEN row
      ELSE WithSla([known EXCEPT !.due = NextWorkingDay(start + known.offset)])

\* update_campaign_dates
SetCampaignDates(start, end) ==
  /\ Request
  /\ {start, end} # {NoDay}
  /\ LET begin == Set(campaign.start, start)
     IN  /\ milestone' = [m \in Milestones |-> IF begin = NoDay THEN milestone[m]
                                               ELSE Reanchored(milestone[m], begin)]
         /\ campaign' = HealthOf([campaign EXCEPT !.start = begin, !.end = NotBefore(Set(@, end), begin)],
                                 step, stage, deliverable)
  /\ UNCHANGED <<today, step, stage, deliverable>>

MilestoneRequest(m, row) ==
  /\ Request
  /\ milestone' = [milestone EXCEPT ![m] = row]
  /\ campaign' = HealthOf(campaign, step, stage, deliverable)
  /\ UNCHANGED <<today, step, stage, deliverable>>

\* update_milestone
UpdateMilestone(m, day) ==
  LET due == NextWorkingDay(day)
      moved == [milestone[m] EXCEPT !.due = due]
  IN  MilestoneRequest(m, WithSla(IF campaign.start = NoDay THEN moved
        ELSE [moved EXCEPT !.offset = due - campaign.start, !.hasOffset = TRUE]))

\* update_milestone_completion; NoDay takes it back.
CompleteMilestone(m, day) ==
  MilestoneRequest(m, WithSla([milestone[m] EXCEPT !.completed = day]))

\* override_milestone_sla
OverrideSla(m, sla) ==
  MilestoneRequest(m, [milestone[m] EXCEPT !.sla = sla, !.manual = TRUE])

ClearSla(m) == MilestoneRequest(m, WithSla([milestone[m] EXCEPT !.manual = FALSE]))

-----------------------------------------------------------------------------
(* Jobs, restarts and time.                                                *)

\* recalculate_campaign_health
RecalculateHealth ==
  /\ Request
  /\ campaign' = HealthOf(campaign, step, stage, deliverable)
  /\ UNCHANGED <<today, step, stage, deliverable, milestone>>

\* _backfill_missing_deliverable_due_dates
WithDefaultDue(d, row) ==
  LET due == NextWorkingDay(AddWorkingDays(OrElse(campaign.start, ScopeStart), DueOffset[d]))
  IN  [row EXCEPT !.due = OrElse(@, due), !.baseDue = OrElse(@, due)]

\* The dates a run of the ops job sets.  The job fails where a due date is missing
\* and there is no start to count from.
RunOpsJob ==
  /\ Request
  /\ \/ OrElse(campaign.start, ScopeStart) # NoDay
     \/ \A d \in Deliverables : NoDay \notin {deliverable[d].due, deliverable[d].baseDue}
  /\ \E order \in RowOrders : step' = Reconciled(today, campaign, milestone, step, order)
  /\ stage' = [g \in Stages |-> Refreshed(step', g)]
  /\ deliverable' = [d \in Deliverables |->
       IF NoDay \in {deliverable[d].due, deliverable[d].baseDue} THEN WithDefaultDue(d, deliverable[d])
       ELSE deliverable[d]]
  /\ UNCHANGED <<today, campaign, milestone>>

\* The backfills of ensure_runtime_schema.
RestartedStage(step_, g) ==
  LET mine == Inside(g)
  IN [start |-> Earliest({step_[s].start : s \in mine}), due |-> Latest({step_[s].due : s \in mine}),
      baseStart |-> Earliest({step_[s].baseStart : s \in mine}),
      baseDue |-> Latest({step_[s].baseDue : s \in mine}),
      status |-> StageStatus({step_[s].status : s \in mine})]

Dues == {milestone[m].due : m \in Milestones}
StartFilled(row) == [row EXCEPT !.start = OrElse(@, Earliest(Dues))]
EndFilled(row) == [row EXCEPT !.end = OrElse(@, Latest(Dues))]
OffsetFilled(row, begin) == WithSla(IF begin = NoDay THEN row ELSE WithOffset(row, begin))

Restart ==
  /\ Request
  /\ campaign' = EndFilled(StartFilled(campaign))
  /\ milestone' = [m \in Milestones |-> OffsetFilled(milestone[m], campaign'.start)]
  /\ step' = [s \in Steps |->
       [step[s] EXCEPT !.earliest = OrElse(@, OrElse(step[s].start, step[s].baseStart))]]
  /\ stage' = [g \in Stages |-> RestartedStage(step, g)]
  /\ UNCHANGED <<today, deliverable>>

DayPasses ==
  /\ today < LastDay
  /\ today' = today + 1
  /\ UNCHANGED <<step, stage, deliverable, campaign, milestone, changes>>

Unhealthy == SetCampaignStatus("done") \/ SetCampaignStatus("cancelled") \/ SetCampaignStatus("open")
             \/ RunOpsJob \/ Restart \/ DayPasses

Next ==
  \/ \E s \in Steps : \/ Complete(s)
                      \/ \E day \in RequestDays : OverrideDue(s, day)
                      \/ \E edit \in Edits : Manage(s, edit)
  \/ \E d \in Deliverables : \/ Publish(d)
                             \/ \E day \in RequestDays : OverrideDeliverableDue(d, day)
                             \/ \E start, due \in RequestDays \union {NoDay} : DeliverableDates(d, start, due)
  \/ \E start, end \in RequestDays \union {NoDay} : SetCampaignDates(start, end)
  \/ \E m \in Milestones : \/ \E day \in RequestDays : UpdateMilestone(m, day)
                           \/ \E day \in RequestDays \union {NoDay} : CompleteMilestone(m, day)
                           \/ \E sla \in Sla : OverrideSla(m, sla)
                           \/ ClearSla(m)
  \/ RecalculateHealth
  \/ Unhealthy

Spec == Init /\ [][Next]_vars

-----------------------------------------------------------------------------
(* Properties.                                                             *)

(* The open steps that come after one of the steps from, through open ones.*)
OpenAfter(step_, from) ==
  LET holds(some) == \A t \in Steps : step_[t].done = NoDay /\ Preds[t] \intersect (from \union some) # {}
                                     => t \in some
  IN  {t \in Steps : \A some \in SUBSET Steps : holds(some) => t \in some}

Settled(step_, t) == \A p \in Preds[t] : step_[t].start >= Finish(step_[p])

(* Where the chain of steps divides and joins again, in whatever order its *)
(* rows come and whatever due dates they lack, no open step is left to     *)
(* begin before one it waits for ends: neither behind a step whose due     *)
(* date a request moves, nor behind one that a completion activates.  One  *)
(* visit of each step (_recalculate_successor_chain) is enough.            *)
ChainIsSettled ==
  \A s \in Steps, order \in RowOrders :
    /\ \A day \in RequestDays :
         LET after == Recalculated(today, [step EXCEPT ![s] = Moved(today, @, day)], s, order)
         IN  \A t \in OpenAfter(after, {s}) : Settled(after, t)
    /\ LET after == CompletedFrom(step[s], s, order)
           activated == {t \in Steps : s \in Preds[t] /\ after[t].done = NoDay /\ Ready(after, t)}
       IN  \A t \in OpenAfter(after, activated) : Settled(after, t)

(* Trouble does not pass by waiting: a campaign that is at risk or off     *)
(* track, and whose own window begins by then, is not on track, nor not    *)
(* started, on the next day if nobody does anything (evaluate_campaign,    *)
(* read live as the list of campaigns does).  Before its window begins a   *)
(* campaign shows a stage that is off track, and does not show it while    *)
(* the little time left puts that stage at risk instead.                   *)
TroubleDoesNotPass ==
  [][ DayPasses => (/\ Rank(CampaignHealth(today, campaign, step, stage, deliverable)) >= 2
                    /\ CampaignStart(campaign, deliverable) <= today'
        => Rank(CampaignHealth(today', campaign, step, stage, deliverable)) >= 2) ]_vars

(* Every request that changes what health is made of leaves the health it  *)
(* stores in agreement with it (refresh_campaign_health, and the order of  *)
(* it and the refreshes of stages), except the ones known to leave it.     *)
HealthIsFresh ==
  [][ campaign'.health = CampaignHealth(today, campaign', step', stage', deliverable') \/ Unhealthy ]_vars

(* A milestone stays as far from the start of its campaign as it was       *)
(* planned, whatever moved: the start, the milestone, or a restart that    *)
(* fills in what is missing.                                               *)
MilestonesFollowStart ==
  \A m \in Milestones : milestone[m].hasOffset /\ campaign.start # NoDay =>
    milestone[m].due = NextWorkingDay(campaign.start + milestone[m].offset)

(* The repair of a campaign is over when it has run: a second run moves no *)
(* date of a step.                                                         *)
RepairSettles ==
  \A order, again \in RowOrders :
    LET after == Reconciled(today, campaign, milestone, step, order)
    IN  Reconciled(today, campaign, milestone, after, again) = after
=============================================================================
