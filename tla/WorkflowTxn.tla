----------------------------- MODULE WorkflowTxn ----------------------------
(***************************************************************************)
(* Step completions and stage repairs as database transactions.  A request *)
(* works on a snapshot of the campaign's rows and at commit writes the     *)
(* columns it changed; rows carry no version and the services lock none of *)
(* them.  The history variable overlapped remembers whether two requests   *)
(* have ever been open at the same time.                                   *)
(*                                                                         *)
(* Only the two requests that run WorkflowEngine's propagation without     *)
(* anybody choosing a status are here; no deliverable is deleted.          *)
(***************************************************************************)
EXTENDS WorkflowRows

CONSTANTS
  Workers,   \* server threads, each with a session of its own
  NoTx       \* a worker without an open transaction

\* The rows of the campaign, as one snapshot.
Rows == [step : [Steps -> StepRow], stage : [Stages -> StageRow],
         campaign : CampaignRow, operational : [Deliverables -> Stages]]

\* An open transaction: what it read, and what it will leave in its session.
Session == [seen : Rows, new : Rows]

ASSUME NoTxAssumption == NoTx \notin Session

VARIABLES
  step, stage, campaign, operational,   \* as in WorkflowEngine
  tx,           \* tx[w]: worker w's session, or NoTx
  overlapped    \* history: have two requests ever been open at once?

rows == <<step, stage, campaign, operational>>
vars == <<step, stage, campaign, operational, tx, overlapped>>

TypeOK ==
  /\ step \in [Steps -> StepRow]
  /\ stage \in [Stages -> StageRow]
  /\ campaign \in CampaignRow
  /\ operational \in [Deliverables -> Stages]
  /\ tx \in [Workers -> Session \union {NoTx}]
  /\ overlapped \in BOOLEAN

Init ==
  /\ step = [s \in Steps |-> NewStep]
  /\ stage = [g \in Stages |-> NewStage]
  /\ campaign = NewCampaign
  /\ operational = BirthStage
  /\ tx = [w \in Workers |-> NoTx]
  /\ overlapped = FALSE

Idle(w) == tx[w] = NoTx

Snapshot == [step |-> step, stage |-> stage, campaign |-> campaign,
             operational |-> operational]

-----------------------------------------------------------------------------
(* Mutant: the endpoint forgets to recompute the deliverable.              *)
AfterCompleteNoRecompute(db, s) ==
  LET after  == Completed(db.step, Steps, s)
      stages == Refreshed(db.stage, after, Steps, {StageOf[s]})
  IN  {[step |-> after, stage |-> stages,
        campaign |-> [status |-> st, source |-> "derived"],
        operational |-> db.operational] : st \in RollUps(stages)}

(* What a completion of s makes of the rows db (set_step_complete and the  *)
(* recomputation in its endpoint).                                         *)
AfterComplete(db, s) ==
  LET after    == Completed(db.step, Steps, s)
      stages   == Refreshed(db.stage, after, Steps, {StageOf[s]})
      statuses == RollUps(stages)
      d        == DeliverableOf[s]
      columns  == IF d = NoDeliverable THEN {db.operational}
                  ELSE {[db.operational EXCEPT ![d] = g] :
                          g \in OperationalStages(after, Steps, d)}
  IN  {[step |-> after, stage |-> stages,
        campaign |-> [status |-> st, source |-> "derived"],
        operational |-> o] : st \in statuses, o \in columns}

(* What the stage repair of the ops job makes of them.                     *)
AfterReconcile(db) ==
  [db EXCEPT !.stage = Refreshed(db.stage, db.step, Steps, Stages)]

Begin(w, new) ==
  /\ Idle(w)
  /\ tx' = [tx EXCEPT ![w] = [seen |-> Snapshot, new |-> new]]
  /\ overlapped' = (overlapped \/ \E v \in Workers : ~Idle(v))
  /\ UNCHANGED rows

BeginComplete(w, s) == \E new \in AfterComplete(Snapshot, s) : Begin(w, new)

BeginReconcile(w) == Begin(w, AfterReconcile(Snapshot))

(* A column is part of the UPDATE only when the session changed it.        *)
Written(new, seen, current) == IF new # seen THEN new ELSE current

MergedStep(t, s) ==
  [status  |-> Written(t.new.step[s].status, t.seen.step[s].status, step[s].status),
   started |-> Written(t.new.step[s].started, t.seen.step[s].started, step[s].started),
   done    |-> Written(t.new.step[s].done, t.seen.step[s].done, step[s].done)]

MergedStage(t, g) ==
  [status |-> Written(t.new.stage[g].status, t.seen.stage[g].status, stage[g].status),
   done   |-> Written(t.new.stage[g].done, t.seen.stage[g].done, stage[g].done)]

Commit(w) ==
  LET t == tx[w]
  IN  /\ ~Idle(w)
      /\ step' = [s \in Steps |-> MergedStep(t, s)]
      /\ stage' = [g \in Stages |-> MergedStage(t, g)]
      /\ campaign' =
           [status |-> Written(t.new.campaign.status, t.seen.campaign.status,
                               campaign.status),
            source |-> Written(t.new.campaign.source, t.seen.campaign.source,
                               campaign.source)]
      /\ operational' =
           [d \in Deliverables |-> Written(t.new.operational[d],
                                           t.seen.operational[d], operational[d])]
      /\ tx' = [tx EXCEPT ![w] = NoTx]
      /\ UNCHANGED overlapped

(* The request fails before it commits; nothing of it is stored.           *)
Abort(w) ==
  /\ ~Idle(w)
  /\ tx' = [tx EXCEPT ![w] = NoTx]
  /\ UNCHANGED <<rows, overlapped>>

Next ==
  \E w \in Workers :
    \/ \E s \in Steps : BeginComplete(w, s)
    \/ BeginReconcile(w)
    \/ Commit(w)
    \/ Abort(w)

Spec == Init /\ [][Next]_vars

-----------------------------------------------------------------------------
(* However requests overlap, no step is started by hand-off before all its *)
(* predecessors have finished: "finished" is never taken back, so a stale  *)
(* snapshot errs only towards waiting.                                     *)
NoPrematureStart ==
  \A s \in Steps :
    step[s].status = "in_progress" => \A p \in Preds[s] : step[p].done

(* However requests overlap, no stage is recorded as finished before all   *)
(* its steps have.                                                         *)
NoPrematureStageDone ==
  \A g \in Stages : stage[g].done => \A s \in Inside(Steps, g) : step[s].done

(* One request at a time: a step is in progress as soon as the last of its *)
(* predecessors finishes, and blocked only while one has not.  (Two        *)
(* overlapping completions of its predecessors each miss the other and     *)
(* leave it blocked for good.)                                             *)
StepsHandedOff ==
  \A s \in Steps :
    ~step[s].done =>
      /\ Preds[s] # {} /\ (\A p \in Preds[s] : step[p].done)
           => step[s].status = "in_progress"
      /\ step[s].status = "blocked_dependency"
           => \E p \in Preds[s] : ~step[p].done

HandedOff == ~overlapped => StepsHandedOff

(* One request at a time: every commit is one atomic request of            *)
(* WorkflowEngine, everything else a stutter.                              *)
Engine == INSTANCE WorkflowEngine WITH
  deliverables <- Deliverables, Asked <- {}, Overrides <- {}

ImplementsEngine ==
  Engine!Init /\ [][~overlapped' => [Engine!Next]_(Engine!vars)]_vars

=============================================================================
