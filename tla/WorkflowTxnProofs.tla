-------------------------- MODULE WorkflowTxnProofs -------------------------
(***************************************************************************)
(* Theorems about WorkflowTxn.  The first three hold whether or not        *)
(* requests overlap.                                                       *)
(***************************************************************************)
EXTENDS WorkflowTxn, TLAPS

-----------------------------------------------------------------------------
(* What the functions of WorkflowRows return, for any rows.                *)

(* A stage always shows one of the eight statuses.                         *)
LEMMA StageStatusType == ASSUME NEW seen PROVE StageStatus(seen) \in Status
BY DEF StageStatus, Status

(* Refreshing some stages leaves stage rows.                               *)
LEMMA RefreshedType ==
  ASSUME NEW st \in [Stages -> StageRow], NEW table, NEW live, NEW some
  PROVE  Refreshed(st, table, live, some) \in [Stages -> StageRow]
<1>1. ASSUME NEW g \in Stages PROVE DerivedStage(table, live, g) \in StageRow
  <2>1. (Inside(live, g) # {} /\ \A s \in Inside(live, g) : table[s].done)
          \in BOOLEAN
    OBVIOUS
  <2> QED BY <2>1, StageStatusType DEF DerivedStage, StageRow
<1> QED BY <1>1 DEF Refreshed

(* The campaign roll-up yields statuses only.                              *)
LEMMA RollUpsType ==
  ASSUME NEW st \in [Stages -> StageRow] PROVE RollUps(st) \subseteq Status
BY DEF RollUps, StageRow, Status

(* The derived operational status of a deliverable is a stage.             *)
LEMMA OperationalType ==
  ASSUME NEW table, NEW live, NEW d
  PROVE  OperationalStages(table, live, d) \subseteq Stages
BY DeliverableAssumption DEF OperationalStages

(* A completion finishes its own step, finishes no other, and changes only *)
(* successors.                                                             *)
LEMMA CompletedRows ==
  ASSUME NEW table \in [Steps -> StepRow], NEW live, NEW s \in Steps
  PROVE  /\ Completed(table, live, s) \in [Steps -> StepRow]
         /\ Completed(table, live, s)[s].done
         /\ Completed(table, live, s)[s] = Finished
         /\ \A t \in Steps \ {s} :
              Completed(table, live, s)[t].done = table[t].done
         /\ \A t \in Steps \ {s} :
              s \notin Preds[t] => Completed(table, live, s)[t] = table[t]
<1> DEFINE mid == [table EXCEPT ![s] = Finished]
<1>1. Finished \in StepRow
  BY DEF Finished, StepRow, Status
<1>2. mid \in [Steps -> StepRow] /\ mid[s] = Finished
      /\ \A t \in Steps \ {s} : mid[t] = table[t]
  BY <1>1
<1> HIDE DEF mid
<1>3. ASSUME NEW t \in Steps
      PROVE  /\ WithSuccessors(mid, live, s)[t] \in StepRow
             /\ WithSuccessors(mid, live, s)[t].done = mid[t].done
             /\ s \notin Preds[t] => WithSuccessors(mid, live, s)[t] = mid[t]
  BY <1>2 DEF WithSuccessors, StepRow, Status
<1>4. WithSuccessors(mid, live, s)[s] = mid[s]
  BY <1>2, GraphAssumption DEF WithSuccessors
<1>5. WithSuccessors(mid, live, s) \in [Steps -> StepRow]
  BY <1>3 DEF WithSuccessors
<1>6. Completed(table, live, s) = WithSuccessors(mid, live, s)
  BY DEF Completed, mid
<1> QED BY <1>2, <1>3, <1>4, <1>5, <1>6 DEF Finished

(* Of the other steps, a completion leaves finished ones alone and starts  *)
(* those only whose predecessors have all finished.                        *)
LEMMA CompletedGate ==
  ASSUME NEW table \in [Steps -> StepRow], NEW live \in SUBSET Steps,
         NEW s \in Steps, NEW t \in Steps \ {s}
  PROVE  /\ table[t].done => Completed(table, live, s)[t] = table[t]
         /\ /\ Completed(table, live, s)[t].status = "in_progress"
            /\ table[t].status # "in_progress"
            => \A p \in Preds[t] \intersect live : Completed(table, live, s)[p].done
<1> DEFINE mid == [table EXCEPT ![s] = Finished]
           new == WithSuccessors(mid, live, s)
<1>1. mid[t] = table[t] /\ mid \in [Steps -> StepRow]
  BY DEF Finished, StepRow, Status
<1>2. Completed(table, live, s) = new
  BY DEF Completed
<1> HIDE DEF mid
<1>3. \A p \in Steps : new[p].done = mid[p].done
  BY <1>1 DEF WithSuccessors, StepRow
<1>4. new[t] = table[t] \/
        /\ ~table[t].done
        /\ new[t].status = (IF Ready(mid, live, t) THEN "in_progress"
                                                   ELSE "blocked_dependency")
  BY <1>1 DEF WithSuccessors, StepRow
<1>5. Ready(mid, live, t) => \A p \in Preds[t] \intersect live : new[p].done
  BY <1>3 DEF Ready
<1> QED BY <1>2, <1>4, <1>5

-----------------------------------------------------------------------------
(* What the rows new that a request computed from seen claim beyond seen:  *)
(* nothing finished is taken back, and what is newly started or newly      *)
(* recorded as finished is so on the strength of new itself.               *)
Justified(seen, new) ==
  /\ \A s \in Steps : seen.step[s].done => new.step[s].done
  /\ \A s \in Steps :
       new.step[s].status = "in_progress" /\ seen.step[s].status # "in_progress"
         => \A p \in Preds[s] : new.step[p].done
  /\ \A g \in Stages :
       new.stage[g].done /\ ~seen.stage[g].done
         => \A s \in Inside(Steps, g) : new.step[s].done

LEMMA AfterCompleteRows ==
  ASSUME NEW db \in Rows, NEW s \in Steps, NEW new \in AfterComplete(db, s)
  PROVE  new \in Rows /\ Justified(db, new)
<1> DEFINE after == Completed(db.step, Steps, s)
           stages == Refreshed(db.stage, after, Steps, {StageOf[s]})
<1>1. db.step \in [Steps -> StepRow] /\ db.stage \in [Stages -> StageRow]
      /\ db.operational \in [Deliverables -> Stages]
  BY DEF Rows
<1>2. new.step = after /\ new.stage = stages
  BY DEF AfterComplete
<1>3. after \in [Steps -> StepRow] /\ stages \in [Stages -> StageRow]
  BY <1>1, CompletedRows, RefreshedType
<1>4. new \in Rows
  <2>1. PICK st \in RollUps(stages),
             o \in IF DeliverableOf[s] = NoDeliverable THEN {db.operational}
                   ELSE {[db.operational EXCEPT ![DeliverableOf[s]] = g] :
                           g \in OperationalStages(after, Steps, DeliverableOf[s])} :
          new = [step |-> after, stage |-> stages,
                 campaign |-> [status |-> st, source |-> "derived"],
                 operational |-> o]
    BY DEF AfterComplete
  <2>2. st \in Status
    BY <1>3, RollUpsType
  <2>3. o \in [Deliverables -> Stages]
    BY <1>1, OperationalType
  <2> HIDE DEF after, stages
  <2> QED BY <1>3, <2>1, <2>2, <2>3 DEF Rows, CampaignRow
<1>5. \A t \in Steps : db.step[t].done => after[t].done
  BY <1>1, CompletedRows DEF StepRow
<1>6. ASSUME NEW t \in Steps, after[t].status = "in_progress",
             db.step[t].status # "in_progress"
      PROVE  \A p \in Preds[t] : after[p].done
  <2>1. t # s
    BY <1>1, <1>6, CompletedRows DEF Finished
  <2> QED BY <1>1, <1>6, <2>1, CompletedGate, GraphAssumption
<1>7. ASSUME NEW g \in Stages, stages[g].done, ~db.stage[g].done
      PROVE  \A t \in Inside(Steps, g) : after[t].done
  BY <1>7 DEF Refreshed, DerivedStage
<1> QED BY <1>2, <1>4, <1>5, <1>6, <1>7 DEF Justified

LEMMA AfterReconcileRows ==
  ASSUME NEW db \in Rows
  PROVE  AfterReconcile(db) \in Rows /\ Justified(db, AfterReconcile(db))
<1>1. db.step \in [Steps -> StepRow] /\ db.stage \in [Stages -> StageRow]
  BY DEF Rows
<1>2. Refreshed(db.stage, db.step, Steps, Stages) \in [Stages -> StageRow]
  BY <1>1, RefreshedType
<1>3. /\ AfterReconcile(db).step = db.step
      /\ AfterReconcile(db).stage = Refreshed(db.stage, db.step, Steps, Stages)
      /\ AfterReconcile(db) \in Rows
  BY <1>2 DEF AfterReconcile, Rows
<1> QED BY <1>3 DEF Justified, Refreshed, DerivedStage

LEMMA WrittenType ==
  ASSUME NEW S, NEW a \in S, NEW b \in S, NEW c \in S
  PROVE  Written(a, b, c) \in S
BY DEF Written

LEMMA TypeInit == Init => TypeOK
<1> SUFFICES ASSUME Init PROVE TypeOK
  OBVIOUS
<1>1. step \in [Steps -> StepRow] /\ stage \in [Stages -> StageRow]
  BY DEF Init, NewStep, NewStage, StepRow, StageRow, Status
<1>2. campaign \in CampaignRow /\ operational \in [Deliverables -> Stages]
  BY DeliverableAssumption DEF Init, NewCampaign, CampaignRow, Status
<1>3. tx \in [Workers -> Session \union {NoTx}]
  BY DEF Init
<1>4. overlapped \in BOOLEAN
  BY DEF Init
<1> QED BY <1>1, <1>2, <1>3, <1>4 DEF TypeOK

(* The rows and the sessions always hold values of their types.            *)
THEOREM TypeCorrect == Spec => []TypeOK
<1>1. Init => TypeOK
  BY TypeInit
<1>2. TypeOK /\ [Next]_vars => TypeOK'
  <2> SUFFICES ASSUME TypeOK, [Next]_vars PROVE TypeOK'
    OBVIOUS
  <2>1. Snapshot \in Rows
    BY DEF TypeOK, Snapshot, Rows
  <2>2. ASSUME NEW w \in Workers, NEW new \in Rows, Begin(w, new)
        PROVE  TypeOK'
    <3>1. [seen |-> Snapshot, new |-> new] \in Session
      BY <2>1 DEF Session
    <3> QED BY <2>2, <3>1 DEF Begin, rows, TypeOK
  <2>3. ASSUME NEW w \in Workers, NEW s \in Steps, BeginComplete(w, s)
        PROVE  TypeOK'
    BY <2>1, <2>2, <2>3, AfterCompleteRows DEF BeginComplete
  <2>4. ASSUME NEW w \in Workers, BeginReconcile(w) PROVE TypeOK'
    <3>1. AfterReconcile(Snapshot) \in Rows
      BY <2>1, AfterReconcileRows
    <3>2. PICK new \in Rows : new = AfterReconcile(Snapshot)
      BY <3>1
    <3> QED BY <2>2, <2>4, <3>2 DEF BeginReconcile, Begin
  <2>5. ASSUME NEW w \in Workers, Commit(w) PROVE TypeOK'
    <3> DEFINE t == tx[w]
    <3>1. t \in Session
      BY <2>5 DEF Commit, Idle, TypeOK
    <3>2. /\ t.new \in Rows /\ t.seen \in Rows
      BY <3>1 DEF Session
    <3> HIDE DEF t
    <3>3. ASSUME NEW s \in Steps PROVE MergedStep(t, s) \in StepRow
      <4>1. t.new.step[s] \in StepRow /\ t.seen.step[s] \in StepRow
            /\ step[s] \in StepRow
        BY <3>2 DEF Rows, TypeOK
      <4> QED BY <4>1, WrittenType DEF MergedStep, StepRow
    <3>4. ASSUME NEW g \in Stages PROVE MergedStage(t, g) \in StageRow
      <4>1. t.new.stage[g] \in StageRow /\ t.seen.stage[g] \in StageRow
            /\ stage[g] \in StageRow
        BY <3>2 DEF Rows, TypeOK
      <4> QED BY <4>1, WrittenType DEF MergedStage, StageRow
    <3>5. ASSUME NEW d \in Deliverables
          PROVE  Written(t.new.operational[d], t.seen.operational[d],
                         operational[d]) \in Stages
      <4>1. t.new.operational[d] \in Stages /\ t.seen.operational[d] \in Stages
            /\ operational[d] \in Stages
        BY <3>2 DEF Rows, TypeOK
      <4> QED BY <4>1, WrittenType
    <3>6. campaign' \in CampaignRow
      <4>1. t.new.campaign \in CampaignRow /\ t.seen.campaign \in CampaignRow
            /\ campaign \in CampaignRow
        BY <3>2 DEF Rows, TypeOK
      <4> QED BY <2>5, <4>1, WrittenType DEF Commit, CampaignRow, t
    <3>7. step' \in [Steps -> StepRow] /\ stage' \in [Stages -> StageRow]
          /\ operational' \in [Deliverables -> Stages]
      BY <2>5, <3>3, <3>4, <3>5 DEF Commit, t
    <3>8. tx' \in [Workers -> Session \union {NoTx}]
      BY <2>5 DEF Commit, TypeOK
    <3>9. overlapped' \in BOOLEAN
      BY <2>5 DEF Commit, TypeOK
    <3> QED BY <3>6, <3>7, <3>8, <3>9 DEF TypeOK
  <2>6. ASSUME NEW w \in Workers, Abort(w) PROVE TypeOK'
    BY <2>6 DEF Abort, rows, TypeOK
  <2>7. CASE UNCHANGED vars
    BY <2>7 DEF vars, TypeOK
  <2> QED BY <2>3, <2>4, <2>5, <2>6, <2>7 DEF Next
<1> QED BY <1>1, <1>2, PTL DEF Spec

-----------------------------------------------------------------------------
(* The invariant behind both safety theorems: what a session saw finished  *)
(* is still finished, and what its request computed is justified by it.    *)
Current(w) ==
  ~Idle(w) => /\ Justified(tx[w].seen, tx[w].new)
              /\ \A s \in Steps : tx[w].seen.step[s].done => step[s].done

TxnInv ==
  /\ TypeOK
  /\ NoPrematureStart
  /\ NoPrematureStageDone
  /\ \A w \in Workers : Current(w)

LEMMA TxnInit == Init => TxnInv
<1> SUFFICES ASSUME Init PROVE TxnInv
  OBVIOUS
<1>1. TypeOK
  BY TypeInit
<1>2. NoPrematureStart /\ NoPrematureStageDone
  BY DEF Init, NewStep, NewStage, NoPrematureStart, NoPrematureStageDone
<1>3. \A w \in Workers : Current(w)
  BY DEF Init, Current, Idle
<1> QED BY <1>1, <1>2, <1>3 DEF TxnInv

LEMMA TxnStep == TxnInv /\ TypeOK' /\ [Next]_vars => TxnInv'
<1> SUFFICES ASSUME TxnInv, TypeOK', [Next]_vars PROVE TxnInv'
  OBVIOUS
<1>1. Snapshot \in Rows
  BY DEF TxnInv, TypeOK, Snapshot, Rows
<1>2. ASSUME NEW w \in Workers, NEW new \in Rows, Begin(w, new),
             Justified(Snapshot, new)
      PROVE  TxnInv'
  <2>1. UNCHANGED <<step, stage>>
        /\ tx' = [tx EXCEPT ![w] = [seen |-> Snapshot, new |-> new]]
    BY <1>2 DEF Begin, rows
  <2>2. ASSUME NEW v \in Workers PROVE Current(v)'
    <3>1. CASE v = w
      <4>1. tx'[v] = [seen |-> Snapshot, new |-> new]
        BY <2>1, <3>1 DEF TxnInv, TypeOK
      <4> QED BY <1>2, <2>1, <4>1 DEF Current, Justified, Snapshot
    <3>2. CASE v # w
      <4>1. tx'[v] = tx[v]
        BY <2>1, <3>2 DEF TxnInv, TypeOK
      <4> QED BY <2>1, <4>1 DEF Current, Justified, Idle, TxnInv
    <3> QED BY <3>1, <3>2
  <2> QED BY <2>1, <2>2 DEF TxnInv, NoPrematureStart, NoPrematureStageDone
<1>3. ASSUME NEW w \in Workers, NEW s \in Steps, BeginComplete(w, s)
      PROVE  TxnInv'
  BY <1>1, <1>2, <1>3, AfterCompleteRows DEF BeginComplete
<1>4. ASSUME NEW w \in Workers, BeginReconcile(w) PROVE TxnInv'
  <2>1. PICK new \in Rows : new = AfterReconcile(Snapshot)
    BY <1>1, AfterReconcileRows
  <2>2. Begin(w, new) /\ Justified(Snapshot, new)
    BY <1>1, <1>4, <2>1, AfterReconcileRows DEF BeginReconcile, Begin
  <2> QED BY <1>2, <2>2
<1>5. ASSUME NEW w \in Workers, Commit(w) PROVE TxnInv'
  <2> DEFINE t == tx[w]
  <2>1. /\ Justified(t.seen, t.new) /\ t \in Session
        /\ \A s \in Steps : t.seen.step[s].done => step[s].done
    BY <1>5 DEF Commit, TxnInv, Current, TypeOK, Idle
  <2>2. /\ step' = [s \in Steps |-> MergedStep(t, s)]
        /\ stage' = [g \in Stages |-> MergedStage(t, g)]
        /\ tx' = [tx EXCEPT ![w] = NoTx]
    BY <1>5 DEF Commit
  <2>3. \A s \in Steps : t.new.step[s].done \in BOOLEAN
                         /\ t.seen.step[s].done \in BOOLEAN
    BY <2>1 DEF Session, Rows, StepRow
  <2> HIDE DEF t
  <2>4. ASSUME NEW s \in Steps, step[s].done \/ t.new.step[s].done
        PROVE  step'[s].done
    BY <2>1, <2>2, <2>3, <2>4 DEF MergedStep, Written, Justified
  <2>5. NoPrematureStart'
    <3> SUFFICES ASSUME NEW s \in Steps, step'[s].status = "in_progress",
                        NEW p \in Preds[s]
                 PROVE  step'[p].done
      BY DEF NoPrematureStart
    <3>1. p \in Steps
      BY GraphAssumption
    <3>2. step[p].done \/ t.new.step[p].done
      BY <2>1, <2>2 DEF MergedStep, Written, Justified, TxnInv, NoPrematureStart
    <3> QED BY <2>4, <3>1, <3>2
  <2>6. NoPrematureStageDone'
    <3> SUFFICES ASSUME NEW g \in Stages, stage'[g].done,
                        NEW s \in Inside(Steps, g)
                 PROVE  step'[s].done
      BY DEF NoPrematureStageDone
    <3>1. s \in Steps
      BY DEF Inside
    <3>2. t.new.stage[g].done \in BOOLEAN /\ t.seen.stage[g].done \in BOOLEAN
      BY <2>1 DEF Session, Rows, StageRow
    <3>3. step[s].done \/ t.new.step[s].done
      BY <2>1, <2>2, <3>2
         DEF MergedStage, Written, Justified, TxnInv, NoPrematureStageDone
    <3> QED BY <2>4, <3>1, <3>3
  <2>7. ASSUME NEW v \in Workers PROVE Current(v)'
    <3>1. CASE v = w
      BY <2>2, <3>1 DEF Current, Idle, TxnInv, TypeOK
    <3>2. CASE v # w
      <4>1. tx'[v] = tx[v]
        BY <2>2, <3>2 DEF TxnInv, TypeOK
      <4> QED BY <2>4, <4>1 DEF Current, Justified, Idle, TxnInv
    <3> QED BY <3>1, <3>2
  <2> QED BY <2>5, <2>6, <2>7 DEF TxnInv
<1>6. ASSUME NEW w \in Workers, Abort(w) PROVE TxnInv'
  <2>1. UNCHANGED <<step, stage>> /\ tx' = [tx EXCEPT ![w] = NoTx]
    BY <1>6 DEF Abort, rows
  <2>2. ASSUME NEW v \in Workers PROVE Current(v)'
    BY <2>1 DEF Current, Justified, Idle, TxnInv, TypeOK
  <2> QED BY <2>1, <2>2 DEF TxnInv, NoPrematureStart, NoPrematureStageDone
<1>7. CASE UNCHANGED vars
  BY <1>7 DEF vars, TxnInv, TypeOK, NoPrematureStart, NoPrematureStageDone,
     Current, Justified, Idle
<1> QED BY <1>3, <1>4, <1>5, <1>6, <1>7 DEF Next

(* However requests overlap, hand-off starts no step whose predecessors    *)
(* have not all finished.                                                  *)
THEOREM StartsAreJustified == Spec => []NoPrematureStart
<1>1. TxnInv => NoPrematureStart
  BY DEF TxnInv
<1> QED BY <1>1, TypeCorrect, TxnInit, TxnStep, PTL DEF Spec

(* However requests overlap, no stage is recorded as finished before all   *)
(* its steps have.                                                         *)
THEOREM StagesFinishLast == Spec => []NoPrematureStageDone
<1>1. TxnInv => NoPrematureStageDone
  BY DEF TxnInv
<1> QED BY <1>1, TypeCorrect, TxnInit, TxnStep, PTL DEF Spec

-----------------------------------------------------------------------------
(* One request at a time: the open session has read what is still in the   *)
(* database, so its commit stores exactly what its request computed.       *)
Requested(new) ==
  \/ \E s \in Steps : new \in AfterComplete(Snapshot, s)
  \/ new = AfterReconcile(Snapshot)

Alone(w) ==
  ~Idle(w) => /\ tx[w].seen = Snapshot
              /\ Requested(tx[w].new)
              /\ \A v \in Workers : v # w => Idle(v)

SerialInv == TypeOK /\ StepsHandedOff /\ \A w \in Workers : Alone(w)

LEMMA SerialInit == Init => SerialInv
<1> SUFFICES ASSUME Init PROVE SerialInv
  OBVIOUS
<1>1. TypeOK
  BY TypeInit
<1>2. StepsHandedOff
  BY GraphAssumption DEF Init, StepsHandedOff, NewStep
<1>3. \A w \in Workers : Alone(w)
  BY DEF Init, Alone, Idle
<1> QED BY <1>1, <1>2, <1>3 DEF SerialInv

LEMMA SerialCommit ==
  ASSUME SerialInv, NEW w \in Workers, Commit(w)
  PROVE  /\ Requested(tx[w].new) /\ tx[w].new \in Rows
         /\ step' = tx[w].new.step /\ stage' = tx[w].new.stage
         /\ campaign' = tx[w].new.campaign
         /\ operational' = tx[w].new.operational
         /\ \A v \in Workers : Idle(v)'
<1> DEFINE t == tx[w]
<1>1. /\ ~Idle(w) /\ t \in Session /\ t.seen = Snapshot /\ Requested(t.new)
      /\ \A v \in Workers : v # w => Idle(v)
  BY DEF Commit, SerialInv, Alone, TypeOK, Idle
<1>2. t.new \in Rows
  BY <1>1 DEF Session
<1>3. ASSUME NEW s \in Steps PROVE MergedStep(t, s) = t.new.step[s]
  <2>1. t.new.step[s] \in StepRow /\ t.seen.step[s] = step[s]
    BY <1>1, <1>2 DEF Rows, Snapshot
  <2> HIDE DEF t
  <2> QED BY <2>1 DEF MergedStep, Written, StepRow
<1>4. ASSUME NEW g \in Stages PROVE MergedStage(t, g) = t.new.stage[g]
  <2>1. t.new.stage[g] \in StageRow /\ t.seen.stage[g] = stage[g]
    BY <1>1, <1>2 DEF Rows, Snapshot
  <2> HIDE DEF t
  <2> QED BY <2>1 DEF MergedStage, Written, StageRow
<1>5. t.new.campaign \in CampaignRow /\ t.seen.campaign = campaign
      /\ t.seen.operational = operational
  BY <1>1, <1>2 DEF Rows, Snapshot
<1>6. campaign' = t.new.campaign
  BY <1>5 DEF Commit, Written, CampaignRow
<1>7. t.new.step \in [Steps -> StepRow] /\ t.new.stage \in [Stages -> StageRow]
      /\ t.new.operational \in [Deliverables -> Stages]
  BY <1>2 DEF Rows
<1>8. step' = t.new.step /\ stage' = t.new.stage
  BY <1>3, <1>4, <1>7 DEF Commit
<1>9. operational' = t.new.operational
  BY <1>5, <1>7 DEF Commit, Written
<1>10. \A v \in Workers : Idle(v)'
  BY <1>1 DEF Commit, Idle, SerialInv, TypeOK
<1> QED BY <1>1, <1>2, <1>6, <1>8, <1>9, <1>10

(* A completion keeps every hand-off up to date.                           *)
LEMMA CompletedHandsOff ==
  ASSUME TypeOK, StepsHandedOff, NEW s \in Steps,
         step' = Completed(step, Steps, s)
  PROVE  StepsHandedOff'
<1> DEFINE mid == [step EXCEPT ![s] = Finished]
<1>1. step' = WithSuccessors(mid, Steps, s) /\ mid \in [Steps -> StepRow]
      /\ mid[s] = Finished /\ \A t \in Steps \ {s} : mid[t] = step[t]
  BY DEF Completed, TypeOK, Finished, StepRow, Status
<1> HIDE DEF mid
<1>2. \A t \in Steps : step'[t].done = mid[t].done
  BY <1>1 DEF WithSuccessors, StepRow
<1> SUFFICES ASSUME NEW t \in Steps, ~step'[t].done
             PROVE  /\ Preds[t] # {} /\ (\A p \in Preds[t] : step'[p].done)
                         => step'[t].status = "in_progress"
                    /\ step'[t].status = "blocked_dependency"
                         => \E p \in Preds[t] : ~step'[p].done
  BY DEF StepsHandedOff
<1>3. t # s /\ ~step[t].done
  BY <1>1, <1>2 DEF Finished
<1>4. Ready(mid, Steps, t) <=> \A p \in Preds[t] : step'[p].done
  BY <1>2, GraphAssumption DEF Ready
<1>5. CASE s \in Preds[t]
  <2>1. step'[t].status = (IF Ready(mid, Steps, t) THEN "in_progress"
                                                  ELSE "blocked_dependency")
    BY <1>1, <1>3, <1>5 DEF WithSuccessors, StepRow
  <2> QED BY <1>4, <2>1
<1>6. CASE s \notin Preds[t]
  <2>1. step'[t] = step[t]
    BY <1>1, <1>3, <1>6 DEF WithSuccessors
  <2>2. \A p \in Preds[t] : step'[p].done = step[p].done
    BY <1>1, <1>2, <1>6, GraphAssumption
  <2> QED BY <1>3, <2>1, <2>2 DEF StepsHandedOff
<1> QED BY <1>5, <1>6

LEMMA OverlapLasts == [Next]_vars /\ ~overlapped' => ~overlapped
BY DEF Next, BeginComplete, BeginReconcile, Begin, Commit, Abort, vars

LEMMA SerialStep ==
  SerialInv /\ TypeOK' /\ [Next]_vars /\ ~overlapped' => SerialInv'
<1> SUFFICES ASSUME SerialInv, TypeOK', [Next]_vars, ~overlapped'
             PROVE  SerialInv'
  OBVIOUS
<1>1. ASSUME NEW w \in Workers, NEW new, Begin(w, new), Requested(new)
      PROVE  SerialInv'
  <2>1. /\ UNCHANGED rows /\ \A v \in Workers : Idle(v)
        /\ tx' = [tx EXCEPT ![w] = [seen |-> Snapshot, new |-> new]]
    BY <1>1 DEF Begin
  <2>2. Snapshot' = Snapshot
    BY <2>1 DEF Snapshot, rows
  <2>3. ASSUME NEW v \in Workers PROVE Alone(v)'
    <3>1. CASE v = w
      <4>1. tx'[v] = [seen |-> Snapshot, new |-> new]
        BY <2>1, <3>1 DEF SerialInv, TypeOK
      <4>2. \A u \in Workers : u # v => tx'[u] = tx[u]
        BY <2>1, <3>1 DEF SerialInv, TypeOK
      <4> QED BY <1>1, <2>1, <2>2, <4>1, <4>2 DEF Alone, Requested, Idle
    <3>2. CASE v # w
      <4>1. tx'[v] = tx[v]
        BY <2>1, <3>2 DEF SerialInv, TypeOK
      <4> QED BY <2>1, <4>1 DEF Alone, Idle
    <3> QED BY <3>1, <3>2
  <2> QED BY <2>1, <2>3 DEF SerialInv, StepsHandedOff, rows
<1>2. ASSUME NEW w \in Workers, NEW s \in Steps, BeginComplete(w, s)
      PROVE  SerialInv'
  BY <1>1, <1>2 DEF BeginComplete, Requested
<1>3. ASSUME NEW w \in Workers, BeginReconcile(w) PROVE SerialInv'
  BY <1>1, <1>3 DEF BeginReconcile, Requested
<1>4. ASSUME NEW w \in Workers, Commit(w) PROVE SerialInv'
  <2>1. StepsHandedOff'
    <3>1. CASE \E s \in Steps : tx[w].new \in AfterComplete(Snapshot, s)
      <4>1. PICK s \in Steps : tx[w].new \in AfterComplete(Snapshot, s)
        BY <3>1
      <4>2. step' = Completed(step, Steps, s)
        BY <1>4, <4>1, SerialCommit DEF AfterComplete, Snapshot
      <4> QED BY <4>2, CompletedHandsOff DEF SerialInv
    <3>2. CASE tx[w].new = AfterReconcile(Snapshot)
      <4>1. step' = step
        BY <1>4, <3>2, SerialCommit DEF AfterReconcile, Snapshot
      <4> QED BY <4>1 DEF SerialInv, StepsHandedOff
    <3> QED BY <1>4, <3>1, <3>2, SerialCommit DEF Requested
  <2>2. \A v \in Workers : Alone(v)'
    BY <1>4, SerialCommit DEF Alone
  <2> QED BY <2>1, <2>2 DEF SerialInv
<1>5. ASSUME NEW w \in Workers, Abort(w) PROVE SerialInv'
  <2>1. UNCHANGED rows /\ tx' = [tx EXCEPT ![w] = NoTx]
    BY <1>5 DEF Abort
  <2>2. Snapshot' = Snapshot
    BY <2>1 DEF Snapshot, rows
  <2>3. ASSUME NEW v \in Workers PROVE Alone(v)'
    <3>1. tx'[v] = NoTx \/ tx'[v] = tx[v]
      BY <2>1 DEF SerialInv, TypeOK
    <3>2. \A u \in Workers : Idle(u) => Idle(u)'
      BY <2>1 DEF SerialInv, TypeOK, Idle
    <3> QED BY <2>2, <3>1, <3>2 DEF Alone, Requested, Idle, SerialInv
  <2> QED BY <2>1, <2>3 DEF SerialInv, StepsHandedOff, rows
<1>6. CASE UNCHANGED vars
  <2>1. Snapshot' = Snapshot /\ step' = step /\ tx' = tx
    BY <1>6 DEF Snapshot, vars
  <2> QED BY <2>1 DEF SerialInv, StepsHandedOff, Alone, Requested, Idle
<1> QED BY <1>2, <1>3, <1>4, <1>5, <1>6 DEF Next

(* One request at a time: a step is in progress as soon as its last        *)
(* predecessor finishes, and blocked only while one has not.               *)
THEOREM SerialHandOff == Spec => []HandedOff
<1>1. (~overlapped => SerialInv) => HandedOff
  BY DEF SerialInv, HandedOff
<1>2. (~overlapped => SerialInv) /\ TypeOK' /\ [Next]_vars
        => (~overlapped => SerialInv)'
  BY SerialStep, OverlapLasts
<1> QED BY <1>1, <1>2, TypeCorrect, SerialInit, PTL DEF Spec

(* The instance's own copies of the operators of WorkflowRows compute what *)
(* the operators themselves do: their constants are the same.              *)
LEMMA SameDerivations ==
  ASSUME NEW g0, NEW p0, NEW live0, NEW some0
  PROVE  Engine!Refreshed(g0, p0, live0, some0) = Refreshed(g0, p0, live0, some0)
<1>1. \A g : Engine!Inside(live0, g) = Inside(live0, g)
  BY DEF Engine!Inside, Inside
<1>2. \A seen : Engine!StageStatus(seen) = StageStatus(seen)
  BY DEF Engine!StageStatus, StageStatus
<1>3. \A g : Engine!DerivedStage(p0, live0, g) = DerivedStage(p0, live0, g)
  BY <1>1, <1>2 DEF Engine!DerivedStage, DerivedStage
<1> QED BY <1>3 DEF Engine!Refreshed, Refreshed

LEMMA SameRollUps ==
  ASSUME NEW g0
  PROVE  Engine!RollUps(g0) = RollUps(g0)
BY DEF Engine!RollUps, RollUps

LEMMA SameOperational ==
  ASSUME NEW p0, NEW live0, NEW d
  PROVE  Engine!OperationalStages(p0, live0, d) = OperationalStages(p0, live0, d)
<1>1. \A S, g : Engine!Inside(S, g) = Inside(S, g)
  BY DEF Engine!Inside, Inside
<1>2. \A S : Engine!Cardinality(S) = Cardinality(S)
  BY DEF Engine!Cardinality, Cardinality
<1> QED BY <1>1, <1>2 DEF Engine!OperationalStages, OperationalStages

LEMMA SameCompletion ==
  ASSUME NEW p0, NEW live0, NEW s
  PROVE  Engine!Completed(p0, live0, s) = Completed(p0, live0, s)
<1>1. Engine!Finished = Finished
  BY DEF Engine!Finished, Finished
<1>2. \A q0, t : Engine!Ready(q0, live0, t) <=> Ready(q0, live0, t)
  BY DEF Engine!Ready, Ready
<1>3. \A q0 : Engine!WithSuccessors(q0, live0, s) = WithSuccessors(q0, live0, s)
  BY <1>2 DEF Engine!WithSuccessors, WithSuccessors
<1> QED BY <1>1, <1>3 DEF Engine!Completed, Completed

(* One request at a time: every commit is one atomic request of            *)
(* WorkflowEngine, and nothing else is visible.                            *)
THEOREM SerialRefinement == Spec => ImplementsEngine
<1>1. Init => Engine!Init
  BY DEF Init, Engine!Init, NewStep, Engine!NewStep, NewStage, Engine!NewStage,
         NewCampaign, Engine!NewCampaign
<1>2. (~overlapped => SerialInv) /\ TypeOK' /\ [Next]_vars
        => [~overlapped' => [Engine!Next]_(Engine!vars)]_vars
  <2> SUFFICES ASSUME SerialInv, TypeOK', [Next]_vars, ~overlapped'
               PROVE  Engine!Next \/ UNCHANGED Engine!vars
    BY OverlapLasts
  <2>1. Engine!Live = Steps
    BY DeliverableAssumption DEF Engine!Live
  <2>2. ASSUME NEW w \in Workers, Commit(w), NEW s \in Steps,
               tx[w].new \in AfterComplete(Snapshot, s)
        PROVE  Engine!Complete(s)
    <3> DEFINE after == Completed(step, Steps, s)
               stages == Refreshed(stage, after, Steps, {StageOf[s]})
               columns == IF DeliverableOf[s] = NoDeliverable THEN {operational}
                          ELSE {[operational EXCEPT ![DeliverableOf[s]] = g] :
                                 g \in OperationalStages(after, Steps, DeliverableOf[s])}
    <3>1. /\ Snapshot.step = step /\ Snapshot.stage = stage
          /\ Snapshot.operational = operational
      BY DEF Snapshot
    <3>2. PICK st \in RollUps(stages), o \in columns :
            tx[w].new = [step |-> after, stage |-> stages,
                         campaign |-> [status |-> st, source |-> "derived"],
                         operational |-> o]
      <4>1. AfterComplete(Snapshot, s) =
              {[step |-> after, stage |-> stages,
                campaign |-> [status |-> st, source |-> "derived"],
                operational |-> o] : st \in RollUps(stages), o \in columns}
        BY ONLY <3>1 DEF AfterComplete
      <4> HIDE DEF after, stages, columns
      <4> QED BY <2>2, <4>1
    <3>3. /\ step' = after /\ stage' = stages /\ operational' = o
          /\ campaign' = [status |-> st, source |-> "derived"]
      BY <2>2, <3>2, SerialCommit
    <3>4. Engine!ResetCampaign
      BY <3>3, SameRollUps DEF Engine!ResetCampaign
    <3>5. Engine!Recompute(s)
      BY <2>1, <3>3, SameOperational DEF Engine!Recompute
    <3>6. Engine!Propagate(s)
      BY <2>1, <3>3, <3>4, <3>5, SameDerivations DEF Engine!Propagate
    <3> QED BY <2>1, <3>3, <3>6, SameCompletion DEF Engine!Complete
  <2>3. ASSUME NEW w \in Workers, Commit(w),
               tx[w].new = AfterReconcile(Snapshot)
        PROVE  Engine!ReconcileStages
    <3>1. /\ step' = step /\ stage' = Refreshed(stage, step, Steps, Stages)
          /\ campaign' = campaign /\ operational' = operational
      BY <2>3, SerialCommit DEF AfterReconcile, Snapshot
    <3> QED BY <2>1, <3>1, SameDerivations DEF Engine!ReconcileStages
  <2>4. ASSUME NEW w \in Workers, Commit(w) PROVE Engine!Next
    BY <2>2, <2>3, <2>4, SerialCommit DEF Requested, Engine!Next
  <2>5. CASE UNCHANGED rows
    BY <2>5 DEF rows, Engine!vars
  <2> QED BY <2>4, <2>5
          DEF Next, BeginComplete, BeginReconcile, Begin, Abort, rows, vars
<1>3. (~overlapped => SerialInv) /\ TypeOK' /\ [Next]_vars
        => (~overlapped => SerialInv)'
  BY SerialStep, OverlapLasts
<1> QED BY <1>1, <1>2, <1>3, TypeCorrect, SerialInit, PTL
        DEF Spec, ImplementsEngine
=============================================================================
