# StageNexus: TLA+ models, checks and proofs

StageNexus (`src/`) is a FastAPI application over a relational database: scopes
of work are approved, expanded into campaigns, and run as workflow steps in
stages until their deliverables are published.  This directory models the parts
of it where state lives and can go wrong, checks the models with TLC on small
instances, and proves the main properties with TLAPS for every instance.

## 1. The system

### How a request runs

Every endpoint (`app/api/core_routes.py`, `app/api/routes/*.py`) is a plain
function that FastAPI runs in a thread pool.  It gets a session of its own
(`app/db/session.py`, `autoflush=False`), reads rows, calls services, and
commits once at its end.  An `HTTPException` or any other error leaves before
the commit, and closing the session rolls back.  So *inside* one process there
is no shared memory; what interleaves is **transactions**:

* a session decides on rows as its snapshot shows them (MySQL, REPEATABLE READ);
* at commit SQLAlchemy writes, row by row, only the columns whose value the
  session changed; no row has a version column, and the services lock none
  except the counter rows of `PublicIdService`;
* nothing else orders two requests.

The only background activity is the ops job (`OpsJobService.run_all`), which is
itself a request (`POST /jobs/run-ops-risk-capacity`) and one transaction.

Before it serves anything the program looks at its database (`app/main.py`): on
a SQLite file of an older version it brings the schema up to date itself
(`app/db/schema_updates.py`), on MySQL it insists on the newest migration
(`app/db/migration_guard.py`).  MySQL makes DDL final statement by statement,
and so does SQLite as Python drives it, so a start or a migration that is killed
leaves a part of its work behind.

### Components

| component | state | operations | hard part |
|---|---|---|---|
| change control | `sow_change_requests`, `sow_change_approvals` | create, decide | two decisions at once; votes that change |
| workflow engine | `workflow_steps`, dependencies | complete, manage, override due | hand-off to successors, the many status actions |
| status roll-up | `stages`, `campaigns` | refresh a stage, reset or override the campaign | who refreshes what, and when |
| deliverable derivation | `deliverables.operational_stage_status` | recompute | callers that forget |
| stage integrity | stages, steps, dependencies | reconcile a campaign | repairs that rely on rows not yet flushed |
| deliverable review | deliverable timestamps, `review_windows`, rounds | transition, increment round | the status is read off the timestamps |
| public ids | `public_id_counters` | next id of three kinds | first insert, the 99-campaign limit |
| scopes and generation | `scopes`, everything below | create, submit, approve, generate | repeated approval and generation |
| capacity | `capacity_ledger` | ledger run, request and decide an override | approvals that outlive the hours they were given for |
| risks and escalations | `system_risks`, `escalations` | scan, close, escalate, resolve | overlapping runs, stale rows |
| milestones | `milestones` | complete, override SLA, re-anchor | manual override against recomputation |
| health | `campaigns.health` | evaluate steps, stages, campaigns | roll-up guard, dates at the boundary |
| calendar, timeline | - | working days | boundaries |
| schema updates | the shape of the database | add columns, rebuild tables, fill in, check; migrate, stamp | killed at any statement and started again |
| authorization, ops defaults, work queue, team inference, UI, seeds, scripts | configuration | - | stateless, or display only |

They interact by calls inside a request (endpoint -> engine -> roll-up ->
health) and otherwise only through the rows.

What makes each correct, in one line: a change is in force exactly while it has
both signatures; a step starts when, and only when, its predecessors are done;
a parent shows what its children call for unless a user overrode it; a
deliverable can always get from planned to complete; ids are unique; a scope is
expanded whole, and once for each approval; an escalation belongs to an open
risk and a risk to a cause; a step never starts before those it waits for end;
stored health agrees with what it is derived from; no kill loses a row, and what
is served is whole.

## 2. The modules

| module | models |
|---|---|
| `DualApproval` | the promise of change control: in force exactly with every signature |
| `ChangeControl` | `ChangeControlService` and its two endpoints, one action per transaction step |
| `WorkflowRows` | the rows of a campaign and what the services compute from them: pure operators, no state |
| `WorkflowEngine` | every request that changes a step's status or what its parents show, each one atomic |
| `WorkflowTxn` | step completions and stage repairs as overlapping transactions over the same operators |
| `DeliverableReview` | the review of one deliverable: transitions, rounds, windows and the waits of its steps, in overlapping transactions |
| `ScopeLifecycle` | scopes from creation to generated campaigns, the numbers of both, deletion; overlapping transactions |
| `OpsJob` | the ops job: risks, escalations, the capacity ledger and its overrides; runs that overlap or abort |
| `TimelineHealth` | the calendar and `timeline_health_service` as functions of the rows |
| `StepDates` | the dates of steps as functions of the rows: successors, requests, repair |
| `Schedule` | the requests that set dates or store health, on steps, deliverables, milestones and the campaign; jobs, restarts and days that pass |
| `StartupSchema` | the schema shim and the migrations, killed and started again |
| `MC*` | instances for TLC: a step graph, a stage for each step, symmetry |
| `*Proofs` | theorems and their proofs |

`WorkflowEngine` and `WorkflowTxn` compose the same `WorkflowRows`; the second
implements the first when requests do not overlap (`ImplementsEngine`), as
`ChangeControl` implements `DualApproval` (`KeepsPromise`).  `Schedule` composes
`StepDates`, which composes `TimelineHealth`.  Where two modules touch the same
rows they keep different columns: `WorkflowEngine` the statuses, `Schedule` the
dates and health, `OpsJob` the risks, `ScopeLifecycle` what exists at all.

`overlapped` (`overlaps` in `OpsJob`) is a history variable: it becomes TRUE
when a request runs while another one's session is open.  The threaded server
lets requests overlap, so every model with sessions does; the properties that need requests to
come one at a time say "until then".

### Change control

| TLA+ | code |
|---|---|
| `req`, `approval` | the two tables; `activated_at` is kept as set or not set |
| `tx[w]` | thread `w`'s open transaction: the vote it was asked to record, and what it read |
| `Create` | `create_request`: request and one pending approval per required role, committed together |
| `Begin` | `apply_approval` up to the reads; afterwards the rows may change under it |
| `Ballot`, `Rejects`, `Activates`, `Outcome` | the last branches of `apply_approval`, over the approvals the session sees |
| `Commit` | the UPDATE: the vote and the status only if the session changed them, the date whenever it activates |
| `Abort` | the request fails before the commit |

Refusals (unknown role, decision or
request) change nothing and are not actions.  Permissions restrict who may cast
the vote of a role; somebody always may.

### Workflow engine

A step row keeps its status and whether `actual_start` and `actual_done` are
set; a stage row its status and whether `actual_done` is set; the campaign its
status and the source of it.  Dates, owners and waiting fields are left out, as
is health, which each branch sets together with the status.

| TLA+ | code |
|---|---|
| `WithSuccessors`, `Ready`, `Completed` | `_activate_successors`, `_all_predecessors_done`, `set_step_complete` |
| `WithCompletion`, `WithAction`, `Managed` | the branches of `manage_step` |
| `StageStatus`, `DerivedStage`, `Refreshed` | `_refresh_stage_from_steps` |
| `RollUps` | `reset_campaign_to_derived`; a set, because the query states no order |
| `OperationalStages` | `derive_operational_stage_status`; a set, because ties are broken by row order |
| `Complete`, `ManageStep`, `OverrideDue` | the three step endpoints, with the recomputation at their end |
| `SetCampaignStatus`, `CascadeStatus` | the two campaign status endpoints |
| `DeleteDeliverable`, `TransitionDeliverable`, `SetDeliverableStage` | the deliverable endpoints that reach this state |
| `ReconcileStages` | the stage refresh of `reconcile_campaign`, on a campaign that has its template steps |

`AssignsCompletionDate` is the guard `manage_workflow_step` has without meaning
to: it logs `step.completion_date`, which is no column of the model class, so a
request that has not assigned it in passing fails and is rolled back.

`WorkflowTxn` takes the two requests in which nobody chooses a status: a
completion and the stage repair.  `Begin` stores the snapshot and what the
request makes of it; `Commit` writes each changed column; `Abort` drops it.

### Deliverable review

| TLA+ | code |
|---|---|
| `stamps` | the timestamp columns of the deliverable that are set; `CurrentStatus` is `_current_status` |
| `rounds`, `events` | the three round counters, and how many `review_round_events` there are of each kind |
| `window` | `review_windows`, a row named by kind, round and the worker that inserted it (a worker never inserts a second row for a round, as it sees its own) |
| `waiting`, `finished` | `waiting_on_type` and `actual_done` of the linked steps |
| `tx[w]` | what worker `w`'s open session will write: every decision is taken on its snapshot, so it is fixed when the session opens |
| `Rules`, `StampsSet`, `StampsCleared`, `StartsRound`, `ClosesKinds`, `StepsWaitOn` | the tables spread over `RULES` and the `_apply_*` methods |
| `Transition`, `IncrementRound`, `Commit`, `Abort` | the two endpoints, up to their decision and from their commit on |
| `MarkReadyToPublish` | the endpoint that stamps in any status |
| `ChangeStep` | the step endpoints, as far as the waits and `actual_done` go |

The review rows and activity rows, which nothing reads back, are left out.

### Scopes and ids

| TLA+ | code |
|---|---|
| `scope[s]` | the row: status, whether readiness was reached, whether the gate would find everything, the number of its display id |
| `campaigns` | a row per campaign: its scope, generation, line and sprint |
| `counter`, `Numbers`, `Draws` | `public_id_counters` and `PublicIdService`, drawn at the commit: the counter row is locked from the draw on |
| `CreateScope`, `DeleteScope`, `DeleteCampaign` | the endpoints that create and delete |
| `BeginSubmit`, `BeginApprove`, `BeginContent`, `BeginTimeframe`, `BeginGenerate` | a request reads the scope and decides |
| `CommitEdit`, `CommitGenerate`, `Abort` | the columns it changed, its numbers and campaigns; or nothing |
| `Parts`, `Wanted`, `HasMakeableLines`, `Overflows` | what `generate_for_scope` makes of each product line, and where it raises |
| `ReferredTo` | the foreign key of `stages` that refuses the deletion of a generated campaign |

`passes` and `issued` are histories: how often a scope passed the readiness
gate, and the numbers committed in each series.

### Ops job

| TLA+ | code |
|---|---|
| `now` | the state of the campaign in the bands the code compares with: how late, how idle, how often replanned, what load |
| `Causes`, `HealthCauses` | `_run_*_scan`, `RiskService.evaluate_step_risk`, `CampaignHealthService` |
| `PlanOf` | what `run_all` decides: upserts, closings, resolutions, escalations, ledger rows, each query seeing only what was flushed before it |
| `Begin`, `Commit`, `Abort` | a run |
| `ResolveByHand`, `RequestOverride`, `DecideOverride` | the endpoints that change the same rows |
| `CampaignMoves`, `HeadOpsMoves`, `DaysPass` | everything else that may change between two runs |

### Dates and health

| TLA+ | code |
|---|---|
| `NextWorkingDay`, `AddWorkingDays`, `WorkingDaysBetween` | `calendar_service`, `timeline_service` |
| `EvaluateWindow`, `StepHealth`, `StageHealth`, `DeliverableHealth`, `CampaignHealth` | `TimelineHealthService` |
| `Visit`, `Recalculated`, `Activated` | `_recalculate_successor_chain`, `_activate_successors` |
| `Moved`, `WithDates`, `WithStatus` | `override_step_due`, the branches of `manage_step` that touch dates |
| `Retimed`, `Staggered`, `Reconciled` | `_retime_step`, `_stagger_publish_steps_for_campaign`, `reconcile_campaign` |
| `Complete`, `OverrideDue`, `Manage` | the step endpoints |
| `OverrideDeliverableDue`, `DeliverableDates`, `Publish`, `SetCampaignStatus`, `SetCampaignDates` | the endpoints of deliverables and campaigns |
| `UpdateMilestone`, `CompleteMilestone`, `OverrideSla`, `ClearSla`, `Reanchored` | `MilestoneService` and its endpoints |
| `RecalculateHealth`, `RunOpsJob`, `Restart`, `DayPasses` | the recalculation endpoint, the dates the job and a start fill in, midnight |

Days are numbers; the calendar is a working week and a set of holidays, both
constants.  The order in which a query returns rows, which nothing fixes, is quantified over
(`RowOrders`).  `Schedule` keeps of a status whether it is open, done or
cancelled; where `WorkflowEngine` decides between open ones it allows any.

### Startup

| TLA+ | code |
|---|---|
| `db`, `saved` | the database as the open connection sees it, and as a new process would find it |
| `inTx`, `fk` | whether `sqlite3` has opened a transaction (it does before the first INSERT or UPDATE, never before DDL), and the pragma `foreign_keys` (which has no effect inside one) |
| `AddMissing`, `CreateCopy`, `FillCopy`, `RefuseCopy`, `DropOld`, `RenameCopy`, `Backfill`, `Commit` | the statements of `ensure_runtime_schema`, in its order |
| `Guard`, `Check` | `assert_database_at_migration_head`, the two assertions of `app/main.py` |
| `Migrate`, `MigrationStatement`, `Stamp` | `alembic upgrade head` on a database whose DDL commits by itself |
| `Crash`, `MigrationCrash` | the process is killed |
| `FirstShape`, `SprintShape`, `CurrentShape` | the databases a start may find |

## 3. What is checked

| run | bounds | shows |
|---|---|---|
| `change` | 2 requests, 2 roles, 2 threads | no rejection hidden behind "pending", and what is activated is dated; until decisions overlap status and votes agree and `DualApproval` is implemented |
| `engine` | 3 steps, one waiting for two, 3 stages, 1 deliverable, 5 status actions, 2 overrides | a stage is finished exactly when its steps are; self-contained stages are derived; overrides yield; hand-off is gated |
| `txn` | 4 steps (a chain and a join), 3 stages, 2 threads | nothing starts, and no stage finishes, too early; until requests overlap every hand-off happens and `WorkflowEngine` is implemented |
| `review_overlap` | 2 threads, 1 linked step, 2 rounds and 2 round events of each kind, client rounds also incremented by hand | sign-offs hold, rounds are recorded; until requests overlap rounds are exact, awaited reviews timed, waits lifted |
| `scopes` | 2 scopes, one with a name without letters, 3 product lines of which one cannot be made, 2 threads, series of 8 numbers, 2 readiness passes | numbers are never given twice; a generation is whole and has its scope; until requests overlap it is earned by a pass |
| `ops` | 2 overlapping runs, 1 step, 1 review window, 1 load, 5 states of the campaign, 1 change of it | until runs overlap no risk and no escalation is doubled; a run that is not outdated settles everything, whatever was there before |
| `schedule` | 5 steps that divide and join, 2 stages, 2 milestones, a generated and an incomplete campaign, 2 row orders, 2 requests in 5 days | the chain leaves no step before one it waits for; repair settles; milestones keep their distance; stored health is fresh; trouble does not pass by waiting |
| `startup` | every shape of database with up to 3 steps, every combination of campaign facts, 3 migrations of 6 statements, 2 kills | nothing partial is served, no row is lost, and what can be upgraded comes up |

The bounds are enough for what can go wrong here: two threads are enough for a
stale read, two roles for a missed signature, a join of two predecessors for a
premature start, three stages for a hand-off across stages and an empty stage,
two rounds and two events for a counter that is written back late, a series of
8 numbers for a generation of five that fits once and overflows the second time,
two kills for one during the recovery from another.  In `schedule` the steps
divide and join again, so that the chain reaches one step on two ways of
different length, and the working week of four days (README of the repository)
and a holiday put days off inside the five days and at either end of a campaign;
two requests suffice because each property relates one request to the state
before it.
The theorems of section 4 remove the bounds for all properties but `ComesUp` of
`startup`; for `RepairSettles` of `schedule`, under two hypotheses on the
template.

Deadlock is checked except where the system may really stop: when every scope is
deleted (`scopes`), when the days and requests of the bound are used up
(`schedule`), and when the program serves and no kill is left (`startup`).

Fairness is assumed once.  Nobody is obliged to send a request and no scheduler
retries one, so about requests the code promises nothing of the kind
"eventually".  But a start runs on by itself once it has begun, and whoever
operates the program starts it again after it ended: `StartupSchema` has weak
fairness of `Startup`, the steps of the starting program, and of nothing else
(not of a kill, nor of the migration, which an operator runs).  Under it
`ComesUp` says that an old database the shim can upgrade is eventually served,
although a start may fail: the first one that rebuilds a table always does,
because it cannot turn the foreign keys back on.  `Upgradable` names what the
shim cannot do: a database of the first shape that holds steps, a step without
a way to its campaign, a step in a stage its campaign never gets.

Four more runs check a sentence of the documentation, or of the code about
itself, that the code does not keep.  TLC finds the counterexample.

| run | what the counterexample shows |
|---|---|
| `change_active_only_if_approved` | two overlapping decisions, an approval and a rejection: activated with a rejected vote |
| `engine_stage_status_is_derived` | a hand-off into another stage leaves that stage's status stale |
| `review_resume` | once the client has asked for changes, the move back to "in progress" changes nothing: the deliverable can never be reviewed or approved again, only marked ready to publish |
| `scopes_deletion_removes` | deleting a generated campaign, and with it any scope that has one, fails on its stages |

Every property of a passing run has a mutant: an altered definition of the
model (`PROJECT.json`, "mutants"; the operators marked "Mutant" in the modules)
under which TLC finds the property violated.

## 4. What is proved

All theorems hold for every value of the constants: any number of requests,
roles, threads, steps, stages, deliverables, scopes and product lines, and any
dependency graph in which no step waits for itself (`GraphAssumption`; cycles
are allowed, the statuses do not depend on acyclicity).  The other assumptions
say that constants have their types, that there are finitely many product
lines, that the due dates of the ops job put its steps and windows in order
(equal dates in the order of collection, as the code's stable sort does), that
some day of the week is worked and holidays are finitely many, that a step of
the template needs only predecessors of it and lasts a day at least, and that a
milestone that has an offset is, in a campaign as it is found, where generation
put it.

* `ChangeControlProofs`: `TypeCorrect`, `RejectionsShow`, `ActivationsAreDated`
  under any overlap; `SerialStatus` and `SerialRefinement` for one decision at a
  time.  A session may have read a row long before it writes it, so the
  invariant has to say what an open session's snapshot still has in common with
  the row (a request never returns to "pending", and `activated_at` is never
  cleared).  Without overlap it says that the snapshot is the row.
* `WorkflowEngineProofs`: `TypeCorrect`, `StagesFinishExactly`,
  `SelfContainedStages`, `OverridesYield`, `HandOffGate`.  One argument serves
  both stage properties: a request that changes what a stage depends on
  refreshes that stage, and a refreshed stage is exact (`RefreshKeepsDone`,
  `RefreshKeepsStatus`).
* `WorkflowTxnProofs`: `TypeCorrect`; `StartsAreJustified` and
  `StagesFinishLast` under any overlap, because in these requests "finished" is
  never taken back, so what a snapshot shows as finished still is;
  `SerialHandOff` and `SerialRefinement` without overlap.
* `DeliverableReviewProofs`: `TypeCorrect`, `SignOffsHold`,
  `ApprovalsFollowReviews`, `RoundsRecorded` under any overlap; `RoundsExact`,
  `ReviewsTimed`, `ReviewEndsLift` until requests overlap.  The first group needs
  what an open session's writes still respect when they land (`Recorded`,
  `Reviewed`, `ClearsReviewsOnly`); the second needs that a lone session's
  decision is still the one the rows call for (`Alone`).  `RoundsExact` also
  shows that, until requests overlap, a new round never finds a window of its
  own (`FreshRound`): the reopening branch of `_open_review_window` is reached
  only through a counter that was written back late.
* `ScopeLifecycleProofs`: `TypeCorrect`, `NumbersUnique`, `GenerationsWhole`,
  `CampaignsKeepScope` under any overlap; `GenerationsEarned` until requests
  overlap.  `NumbersUnique` rests on `Led`: every number of a series lies between
  1 and its counter, and a draw continues from there (`DrawsLead`).
  `GenerationsWhole` needs that the generations of a scope are numbered without
  a gap (`Numbered`), so that a new one never mixes with an old one.
  `GenerationsEarned` counts a pass not yet spent, which shows in the status
  (`Unspent`), and needs that what the only open session has read still holds
  (`Alone`).

* `StartupSchemaProofs`: `TypeCorrect`, `TablesSurvive`, `ServingIsWhole`, for
  any old database, migrations and number of kills.  A table is dropped only
  inside a transaction (`Transactional`), so a kill brings it back, and what
  each phase of the startup has already seen to (`Achieved`) and each statement
  of a migration has applied (`Migrated`) adds up to a whole schema.
* `OpsJobProofs`: `TypeCorrect` under any overlap; `NothingDoubled` until runs
  overlap, because what the only open run found missing still is (`Alone`);
  `FreshRunsSettle`, whatever overlapping runs left.  The last needs that the
  scans never disagree about a risk: a key has at most one cause
  (`CausesUnique`), so the severity a run sees on a risk is that of its cause.

* `ScheduleProofs`, for any calendar, steps, dependencies, orders of rows,
  template, situations and requests:
  - `TypeCorrect` and `MilestonesFollow` from one inductive invariant, which adds
    to the types that an offset is kept only in a campaign that has a start, and
    that it puts the milestone where it is (`Anchored`).
  - `ChainSettles`.  The code visits a step once and reschedules it again
    whenever another path reaches it.  `Advanced` relates the rows before and
    after a part of the traversal: dates only move on, what is open stays open,
    and whatever was visited on the way has its successors settled, except by
    steps whose traversal is still under way.  A completion activates several
    steps in turn; the sets that are settled after each (`Covered`) add up to
    all that come after any of them.
  - `HealthStaysFresh`: health reads nothing that a request changes after it
    was evaluated.
  - `TroubleStays`: one day later no window is better (`WindowWorsens`), since
    the working days that are left only become fewer (`WaitingLeavesLess`) and
    the work that is left stays.  Of a campaign whose window has not begun this
    is not claimed: a stage that is off track through its steps may turn at risk
    through its buffer, and the campaign from off track to not started.
  - `RowOrderDoesNotMatter` and `RepairComesToRest`.  The query that finds the
    steps after a step has no order, and the repair moves steps one after the
    other.  Where the open steps after a step have due dates, the result of the
    traversal is independent of both: each is as late as the rows from before it
    ask for (`Pulled`, `RecalculatedIsPulled`), since an end that is settled by a
    due date does not move with the start.  So a first and a second repair, laid
    side by side, agree on every row but for the earliest starts, which the
    second takes from its own traversal or finds as the first left them
    (`Twins`), so that in the end those agree too: the timing of the template puts each step back where the
    first repair had put it (`RetimedFixed`, `RetimedTwin`), then both spread
    the same publications in the same order.
    The theorem has two hypotheses on the template: it lists no step before one
    it needs, nor twice (`TemplateInOrder`), and it has the publications, their
    promotions and all that comes after a step of it (`TemplateIsClosed`).
    A template is data, so these are not assumptions of the model; `MCSchedule`
    asserts that its template meets them.

  The prover has no induction over an operator, so the module states induction
  as a fact about sets of numbers (`SetInduction`), from the library's theorem
  on well-founded relations; a fold over a sequence becomes a function from
  positions to what has been folded so far (`Runs`, `FoldRuns`).

Only model-checked: that the four documented sentences fail, and `ComesUp`, which
is liveness, beyond the prover.

## 5. Not modelled, and why

* Creating, reparenting and deleting stages and template steps in
  `reconcile_campaign`: the modules repair a campaign that has them.
* Owners, assignments and efforts; the owners the ops job fills in.
* Of the schema shim: columns copied or defaulted one by one, and the statuses
  and owners it derives.
* `capacity_service` beyond the comparison of hours with a capacity; the reasons
  shown with a health; the health of a scope, which nothing stores.
* Authorization: stateless tables; a model would restate them.  Every model
  lets some user issue each request.
* Ops defaults (one row, validated as a whole), the work queue and team
  inference (read-only), read-only queries, the browser code, seeds, one-off
  scripts.

## 6. Plan

1. `StageRepair`: creation, reparenting and deletion of steps and stages, with
   rows a query does not yet see; idempotence over campaigns of any shape.
2. `Ownership`: assignments, effort rows and next owners, with partial updates.
