-------------------------- MODULE StartupSchemaProofs ------------------------
(***************************************************************************)
(* StartupSchema for any objects, steps, migrations and number of kills:   *)
(* what is saved always has every table under its own name, and a program  *)
(* that serves does so on a whole schema.  Liveness (ComesUp) stays with   *)
(* TLC.                                                                    *)
(***************************************************************************)
EXTENDS StartupSchema, TLAPS

(* A step that has a stage has one that exists.                            *)
Housed(d) == \A t \in DOMAIN d.steps : d.steps[t].stage \in d.stages \union {"none"}

(* Outside a transaction nothing is pending, and tables are dropped only   *)
(* inside one.                                                             *)
Transactional ==
  /\ ~inTx => db = saved
  /\ app \in {"drop", "rename"} => inTx

(* The shim runs only in compatibility mode, the head check only outside.  *)
RightMode ==
  /\ app \in {"columns", "rebuild", "copy", "drop", "rename", "backfill", "commit"} => compat
  /\ app = "guard" => ~compat

(* What each stage of the startup has already seen to.                     *)
Achieved ==
  /\ compat /\ app \notin {"down", "columns"} => db.missing = {}
  /\ compat /\ app \in {"backfill", "commit", "check", "serving"}
       => \A t \in Tables : db.tables[t] = Wide(t)
  /\ ~compat /\ app \in {"check", "serving"} => version = HeadRevision
  /\ app = "serving" => Sound

(* A stamped revision has run in full, a running one as far as it says.    *)
Migrated ==
  /\ \A r \in 1..version : \A i \in 1..Revisions[r] : <<r, i>> \in ddl
  /\ mig > 0 => /\ version < HeadRevision
                /\ mig <= Revisions[version + 1] + 1
                /\ \A i \in 1..(mig - 1) : <<version + 1, i>> \in ddl

IInv ==
  /\ TypeOK
  /\ Transactional
  /\ RightMode
  /\ Achieved
  /\ Migrated
  /\ Housed(db) /\ Housed(saved)
  /\ RowsSurvive

-----------------------------------------------------------------------------
(* The tables the shim rebuilds are four.                                  *)
LEMMA TablesAre ==
  Tables = {"deliverables", "milestones", "product_modules", "workflow_steps"}
<1>1. DOMAIN Rebuilt = 1..4
  BY DEF Rebuilt
<1>2. Tables = {Rebuilt[1], Rebuilt[2], Rebuilt[3], Rebuilt[4]}
  BY <1>1 DEF Tables
<1>. QED  BY <1>2 DEF Rebuilt

(* The backfill of one step keeps it a step, and puts it into no stage but *)
(* one that its campaign has.                                              *)
LEMMA BackfilledRow ==
  ASSUME NEW t \in Steps, NEW row \in StepRow, NEW stages
  PROVE  LET new == Staged(Named(t, Linked(row)), stages)
         IN  new \in StepRow /\ new.stage \in {row.stage} \union stages
<1>1. DeliverableStageOf[t] \in StageName /\ WordingOf[t] \in Wording
  BY WordingAssumption, DeliverableAssumption
<1>2. WordedStage(t) \in StageName
  BY <1>1 DEF WordedStage, Wording, StageName
<1>3. Linked(row) \in StepRow /\ Linked(row).stage = row.stage
  BY DEF Linked, StepRow
<1>4. DerivedName(t, Linked(row)) \in StageName
  BY <1>1, <1>2 DEF DerivedName
<1>5. /\ Named(t, Linked(row)) \in StepRow
      /\ Named(t, Linked(row)).stage = row.stage
      /\ Named(t, Linked(row)).name \in StageName
  BY <1>3, <1>4 DEF Named, StepRow
<1>. QED  BY <1>5 DEF Staged, StepRow

(* The backfill yields a database of the same tables and columns, in which *)
(* steps that had a stage still have one that exists.                      *)
LEMMA BackfillKeeps ==
  ASSUME NEW d, IsDatabase(d), Housed(d)
  PROVE  /\ IsDatabase(Backfilled(d)) /\ Housed(Backfilled(d))
         /\ Backfilled(d).tables = d.tables /\ Backfilled(d).missing = d.missing
<1>. DEFINE owned == [t \in DOMAIN d.steps |-> WithCampaign(d.steps[t])]
            stages == WithStages(d.stages, owned)
            steps == [t \in DOMAIN owned |-> Staged(Named(t, Linked(owned[t])), stages)]
            left == WithoutEmptyReporting(stages, steps)
<1>1. Backfilled(d) = [d EXCEPT !.steps = steps, !.stages = left]
  BY DEF Backfilled
<1>2. DOMAIN d.steps \subseteq Steps /\ DOMAIN owned = DOMAIN d.steps /\ DOMAIN steps = DOMAIN d.steps
  BY DEF IsDatabase
<1>3. ASSUME NEW t \in DOMAIN d.steps
      PROVE  owned[t] \in StepRow /\ owned[t].stage = d.steps[t].stage
  BY <1>3 DEF IsDatabase, WithCampaign, StepRow
<1>4. d.stages \subseteq stages /\ stages \subseteq StageName
  BY DEF WithStages, IsDatabase, StageName
<1>5. ASSUME NEW t \in DOMAIN d.steps
      PROVE  steps[t] \in StepRow /\ steps[t].stage \in stages \union {"none"}
  <2>1. steps[t] \in StepRow /\ steps[t].stage \in {owned[t].stage} \union stages
    <3>. HIDE DEF owned, stages
    <3>. QED  BY BackfilledRow, <1>2, <1>3
  <2>. QED  BY <2>1, <1>3, <1>4 DEF Housed
<1>6. /\ left \subseteq StageName
      /\ \A t \in DOMAIN d.steps : steps[t].stage \in left \union {"none"}
  <2>. HIDE DEF owned, stages, steps
  <2>. QED  BY <1>2, <1>4, <1>5 DEF WithoutEmptyReporting
<1>. HIDE DEF owned, stages, steps, left
<1>7. /\ DOMAIN Backfilled(d) = DOMAIN d
      /\ Backfilled(d).steps = steps /\ Backfilled(d).stages = left
      /\ Backfilled(d).tables = d.tables /\ Backfilled(d).missing = d.missing
  BY <1>1 DEF IsDatabase
<1>. QED  BY <1>2, <1>5, <1>6, <1>7 DEF IsDatabase, Housed

-----------------------------------------------------------------------------
(* A database keeps its type when one of its tables changes shape, and its *)
(* steps and stages stay what they were.                                   *)
LEMMA Reshaped ==
  ASSUME NEW d, IsDatabase(d), NEW t \in Tables, NEW shape \in Shape
  PROVE  LET new == [d EXCEPT !.tables[t] = shape]
         IN  /\ IsDatabase(new)
             /\ new.missing = d.missing /\ new.steps = d.steps /\ new.stages = d.stages
             /\ new.tables = [d.tables EXCEPT ![t] = shape]
<1>. DEFINE new == [d EXCEPT !.tables[t] = shape]
<1>1. /\ DOMAIN new = DOMAIN d
      /\ new.missing = d.missing /\ new.steps = d.steps /\ new.stages = d.stages
      /\ new.tables = [d.tables EXCEPT ![t] = shape]
  BY DEF IsDatabase
<1>2. [d.tables EXCEPT ![t] = shape] \in [Tables -> Shape]
  BY DEF IsDatabase
<1>. HIDE DEF new
<1>3. IsDatabase(new)
  BY <1>1, <1>2 DEF IsDatabase
<1>. QED  BY <1>1, <1>3 DEF new

(* Every database a program may be started on is one, with every table     *)
(* under its own name and every step in a stage that exists.               *)
LEMMA StartingPoints ==
  ASSUME NEW d \in FirstShape \union SprintShape \union CurrentShape
  PROVE  /\ IsDatabase(d) /\ Housed(d)
         /\ \A t \in Tables : d.tables[t].old # "absent"
         /\ d \in CurrentShape => d.missing = {} /\ \A t \in Tables : d.tables[t] = Wide(t)
<1>1. \A t \in Tables : Wide(t) \in Shape /\ Narrow(t) \in Shape
  BY DEF Wide, Narrow, Shape
<1>2. CASE d \in FirstShape
  <2>1. PICK rows \in SUBSET Steps :
          d = [missing |-> Objects, tables |-> [t \in Tables |-> Narrow(t)], stages |-> {},
               steps |-> [t \in rows |-> [Fresh EXCEPT !.own = TRUE]]]
    BY <1>2 DEF FirstShape
  <2>2. [Fresh EXCEPT !.own = TRUE] \in StepRow /\ [Fresh EXCEPT !.own = TRUE].stage = "none"
    BY DEF Fresh, StepRow
  <2>3. IsDatabase(d) /\ Housed(d) /\ \A t \in Tables : d.tables[t] = Narrow(t)
    BY <1>1, <2>1, <2>2 DEF IsDatabase, Housed
  <2>4. ASSUME d \in CurrentShape  PROVE  d.missing = {} /\ \A t \in Tables : d.tables[t] = Wide(t)
    BY <2>4 DEF CurrentShape
  <2>. QED  BY <2>3, <2>4 DEF Narrow
<1>3. CASE d \in SprintShape
  <2>1. PICK rows \in SUBSET Steps :
          \E f \in [rows -> {[Fresh EXCEPT !.own = TRUE], [Fresh EXCEPT !.sprint = TRUE]}] :
          d = [missing |-> Objects, stages |-> {},
               tables |-> [t \in Tables |-> IF t = "workflow_steps" THEN Wide(t) ELSE Narrow(t)],
               steps |-> f]
    BY <1>3 DEF SprintShape
  <2>. PICK f \in [rows -> {[Fresh EXCEPT !.own = TRUE], [Fresh EXCEPT !.sprint = TRUE]}] :
          d = [missing |-> Objects, stages |-> {},
               tables |-> [t \in Tables |-> IF t = "workflow_steps" THEN Wide(t) ELSE Narrow(t)],
               steps |-> f]
    BY <2>1
  <2>2. /\ [Fresh EXCEPT !.own = TRUE] \in StepRow /\ [Fresh EXCEPT !.own = TRUE].stage = "none"
        /\ [Fresh EXCEPT !.sprint = TRUE] \in StepRow /\ [Fresh EXCEPT !.sprint = TRUE].stage = "none"
    BY DEF Fresh, StepRow
  <2>3. \A t \in rows : f[t] \in StepRow /\ f[t].stage = "none"
    BY <2>2
  <2>4. IsDatabase(d) /\ Housed(d) /\ \A t \in Tables : d.tables[t] \in {Narrow(t), Wide(t)}
    BY <1>1, <2>1, <2>3 DEF IsDatabase, Housed
  <2>5. ASSUME d \in CurrentShape  PROVE  d.missing = {} /\ \A t \in Tables : d.tables[t] = Wide(t)
    BY <2>5 DEF CurrentShape
  <2>. QED  BY <2>4, <2>5 DEF Narrow, Wide
<1>4. CASE d \in CurrentShape
  <2>1. PICK rows \in SUBSET Steps :
          d = [missing |-> {}, tables |-> [t \in Tables |-> Wide(t)],
               steps |-> [t \in rows |-> [Fresh EXCEPT !.campaign = TRUE, !.name = "production",
                                                       !.stage = "production"]],
               stages |-> {"planning", "production"}]
    BY <1>4 DEF CurrentShape
  <2>2. /\ Fresh \in StepRow
        /\ \A r \in StepRow : /\ [r EXCEPT !.campaign = TRUE] \in StepRow
                              /\ [r EXCEPT !.name = "production"] \in StepRow
                              /\ [r EXCEPT !.stage = "production"] \in StepRow
                              /\ [r EXCEPT !.stage = "production"].stage = "production"
    BY DEF Fresh, StepRow, StageName
  <2> DEFINE row == [Fresh EXCEPT !.campaign = TRUE, !.name = "production", !.stage = "production"]
  <2>3. row \in StepRow /\ row.stage = "production"
    BY <2>2, Zenon
  <2>. HIDE DEF row
  <2>4. /\ d.missing = {} /\ d.stages = {"planning", "production"}
        /\ d.tables = [t \in Tables |-> Wide(t)]
        /\ DOMAIN d.steps \subseteq Steps /\ \A t \in DOMAIN d.steps : d.steps[t] = row
        /\ DOMAIN d = {"missing", "tables", "steps", "stages"}
    BY <2>1 DEF row
  <2>5. IsDatabase(d) /\ Housed(d) /\ \A t \in Tables : d.tables[t] = Wide(t)
    BY <1>1, <2>3, <2>4 DEF IsDatabase, Housed, StageName
  <2>. QED  BY <2>4, <2>5 DEF Wide
<1>. QED  BY <1>2, <1>3, <1>4

LEMMA InitInv == Init => IInv
<1>. SUFFICES ASSUME Init PROVE IInv
  OBVIOUS
<1>1. db \in FirstShape \union SprintShape \union CurrentShape /\ saved = db
  BY DEF Init
<1>2. TypeOK
  <2>1. IsDatabase(db) /\ IsDatabase(saved)
    BY <1>1, StartingPoints
  <2>2. HeadRevision \in Nat
    BY RevisionAssumption DEF HeadRevision
  <2>3. version \in 0..HeadRevision /\ mig \in Nat /\ crashes \in 0..MaxCrashes
    BY <2>2, CrashAssumption DEF Init
  <2>. QED  BY <2>1, <2>3, Zenon DEF Init, TypeOK, Phases
<1>3. Migrated
  BY DEF Init, Migrated
<1>. QED
  BY <1>1, <1>2, <1>3, StartingPoints
     DEF Init, IInv, Transactional, RightMode, Achieved, RowsSurvive

-----------------------------------------------------------------------------
(* Steps that change neither the migration nor, outside what is said of    *)
(* them, the database.                                                     *)

(* The end of a process leaves what is saved, and nothing else.            *)
LEMMA DieInv ==
  ASSUME IInv, Die, crashes' \in 0..MaxCrashes
  PROVE  IInv'
<1>1. TypeOK'
  BY DEF IInv, TypeOK, Die, fixed, migVars, Phases
<1>2. (Transactional /\ RightMode /\ Achieved)'
  BY DEF Die, Transactional, RightMode, Achieved
<1>3. Migrated' /\ Housed(db)' /\ Housed(saved)' /\ RowsSurvive'
  BY DEF IInv, Die, migVars, Migrated, Housed, RowsSurvive
<1>. QED  BY <1>1, <1>2, <1>3 DEF IInv

(* What a statement of the shim must do to the database: it keeps its      *)
(* type, its steps and stages, and drops a table only in a transaction.    *)
Orderly(new) ==
  /\ IsDatabase(new)
  /\ new.steps = db.steps /\ new.stages = db.stages
  /\ ~inTx => \A t \in Tables : new.tables[t].old = "absent" => db.tables[t].old = "absent"

LEMMA ExecuteKeeps ==
  ASSUME IInv, NEW new, Orderly(new), Execute(new), inTx' = inTx
  PROVE  /\ IsDatabase(db') /\ IsDatabase(saved')
         /\ ~inTx' => db' = saved'
         /\ Housed(db') /\ Housed(saved') /\ RowsSurvive'
<1>1. db' = new /\ saved' = IF inTx THEN saved ELSE new
  BY DEF Execute
<1>2. Housed(new)
  BY DEF IInv, Orderly, Housed
<1>3. CASE inTx
  BY <1>1, <1>2, <1>3 DEF IInv, TypeOK, Orderly, RowsSurvive
<1>4. CASE ~inTx
  <2>1. \A t \in Tables : new.tables[t].old # "absent"
    BY <1>4 DEF IInv, Orderly, Transactional, RowsSurvive
  <2>. QED  BY <1>1, <1>2, <1>4, <2>1 DEF Orderly, RowsSurvive
<1>. QED  BY <1>3, <1>4

LEMMA AddMissingInv == ASSUME IInv, NEW o \in Objects, AddMissing(o) PROVE IInv'
<1>. DEFINE new == [db EXCEPT !.missing = @ \ {o}]
<1>0. IsDatabase(db)
  BY DEF IInv, TypeOK
<1>1. /\ new.steps = db.steps /\ new.stages = db.stages /\ new.tables = db.tables
      /\ new.missing = db.missing \ {o} /\ DOMAIN new = DOMAIN db
  BY <1>0 DEF IsDatabase
<1>. HIDE DEF new
<1>2. Orderly(new)
  BY <1>0, <1>1 DEF Orderly, IsDatabase
<1>3. Execute(new) /\ inTx' = inTx /\ app = "columns" /\ app' = app
  BY DEF AddMissing, new
<1>4. /\ IsDatabase(db') /\ IsDatabase(saved') /\ (~inTx' => db' = saved')
      /\ Housed(db') /\ Housed(saved') /\ RowsSurvive'
  BY <1>2, <1>3, ExecuteKeeps
<1>5. TypeOK'
  BY <1>3, <1>4 DEF IInv, TypeOK, AddMissing, fixed, migVars
<1>6. Migrated'
  BY DEF IInv, Migrated, AddMissing, migVars
<1>7. Transactional' /\ RightMode' /\ Achieved'
  BY <1>3, <1>4 DEF IInv, Transactional, RightMode, Achieved, AddMissing, fixed
<1>. QED  BY <1>4, <1>5, <1>6, <1>7 DEF IInv

(* The three statements that give a table another shape.                   *)
LEMMA ReshapeKeeps ==
  ASSUME IInv, NEW t \in Tables, NEW shape \in Shape,
         shape.old = "absent" => inTx \/ db.tables[t].old = "absent",
         Execute([db EXCEPT !.tables[t] = shape]), inTx' = inTx
  PROVE  /\ IsDatabase(db') /\ IsDatabase(saved')
         /\ ~inTx' => db' = saved'
         /\ Housed(db') /\ Housed(saved') /\ RowsSurvive'
         /\ db'.missing = db.missing
<1>. DEFINE new == [db EXCEPT !.tables[t] = shape]
<1>1. /\ IsDatabase(new) /\ IsDatabase(db)
      /\ new.missing = db.missing /\ new.steps = db.steps /\ new.stages = db.stages
      /\ new.tables = [db.tables EXCEPT ![t] = shape]
  BY Reshaped DEF IInv, TypeOK
<1>2. Execute(new)
  OBVIOUS
<1>. HIDE DEF new
<1>3. Orderly(new)
  BY <1>1 DEF Orderly, IsDatabase
<1>. QED  BY <1>1, <1>2, <1>3, ExecuteKeeps DEF Execute

LEMMA CreateCopyInv == ASSUME IInv, NEW t \in Tables, CreateCopy(t) PROVE IInv'
<1>. DEFINE shape == [db.tables[t] EXCEPT !.new = IF @ = "absent" THEN "empty" ELSE @]
<1>1. shape \in Shape /\ shape.old = db.tables[t].old
  BY DEF IInv, TypeOK, IsDatabase, Shape
<1>2. [db EXCEPT !.tables[t].new = IF @ = "absent" THEN "empty" ELSE @]
        = [db EXCEPT !.tables[t] = shape]
  BY Zenon
<1>3. Execute([db EXCEPT !.tables[t] = shape]) /\ inTx' = inTx
  BY <1>2 DEF CreateCopy
<1>. HIDE DEF shape
<1>4. /\ IsDatabase(db') /\ IsDatabase(saved') /\ (~inTx' => db' = saved')
      /\ Housed(db') /\ Housed(saved') /\ RowsSurvive' /\ db'.missing = db.missing
  BY <1>1, <1>3, ReshapeKeeps
<1>5. TypeOK'
  BY <1>4 DEF IInv, TypeOK, CreateCopy, fixed, migVars, Phases
<1>6. Migrated'
  BY DEF IInv, Migrated, CreateCopy, migVars
<1>7. Transactional' /\ RightMode' /\ Achieved'
  BY <1>4 DEF IInv, Transactional, RightMode, Achieved, CreateCopy, fixed
<1>. QED  BY <1>4, <1>5, <1>6, <1>7 DEF IInv

LEMMA FillCopyInv == ASSUME IInv, NEW t \in Tables, FillCopy(t) PROVE IInv'
<1>. DEFINE shape == [db.tables[t] EXCEPT !.new = "full"]
<1>1. shape \in Shape /\ IsDatabase(db)
  BY DEF IInv, TypeOK, IsDatabase, Shape
<1>2. db' = [db EXCEPT !.tables[t] = shape]
  BY Zenon DEF FillCopy
<1>. HIDE DEF shape
<1>3. IsDatabase(db') /\ db'.missing = db.missing /\ db'.steps = db.steps /\ db'.stages = db.stages
  BY <1>1, <1>2, Reshaped
<1>4. TypeOK'
  BY <1>3 DEF IInv, TypeOK, FillCopy, fixed, migVars, Phases
<1>5. Transactional' /\ RightMode' /\ Achieved'
  BY <1>3 DEF IInv, Transactional, RightMode, Achieved, FillCopy, fixed
<1>6. Migrated' /\ Housed(db)' /\ Housed(saved)' /\ RowsSurvive'
  BY <1>3 DEF IInv, Migrated, FillCopy, migVars, Housed, RowsSurvive
<1>. QED  BY <1>4, <1>5, <1>6 DEF IInv

LEMMA DropOldInv == ASSUME IInv, NEW t \in Tables, DropOld(t) PROVE IInv'
<1>. DEFINE shape == [db.tables[t] EXCEPT !.old = "absent"]
<1>1. shape \in Shape /\ inTx
  BY DEF IInv, TypeOK, IsDatabase, Shape, Transactional, DropOld
<1>2. [db EXCEPT !.tables[t].old = "absent"] = [db EXCEPT !.tables[t] = shape]
  BY Zenon
<1>3. Execute([db EXCEPT !.tables[t] = shape]) /\ inTx' = inTx
  BY <1>2 DEF DropOld
<1>. HIDE DEF shape
<1>4. /\ IsDatabase(db') /\ IsDatabase(saved') /\ (~inTx' => db' = saved')
      /\ Housed(db') /\ Housed(saved') /\ RowsSurvive' /\ db'.missing = db.missing
  BY <1>1, <1>3, ReshapeKeeps
<1>5. TypeOK'
  BY <1>4 DEF IInv, TypeOK, DropOld, fixed, migVars, Phases
<1>6. Migrated'
  BY DEF IInv, Migrated, DropOld, migVars
<1>7. Transactional' /\ RightMode' /\ Achieved'
  BY <1>1, <1>4 DEF IInv, Transactional, RightMode, Achieved, DropOld, fixed
<1>. QED  BY <1>4, <1>5, <1>6, <1>7 DEF IInv

LEMMA RenameCopyInv == ASSUME IInv, NEW t \in Tables, RenameCopy(t) PROVE IInv'
<1>1. Wide(t) \in Shape /\ Wide(t).old # "absent"
  BY DEF Wide, Shape
<1>2. Execute([db EXCEPT !.tables[t] = Wide(t)]) /\ inTx' = inTx
  BY DEF RenameCopy
<1>3. /\ IsDatabase(db') /\ IsDatabase(saved') /\ (~inTx' => db' = saved')
      /\ Housed(db') /\ Housed(saved') /\ RowsSurvive' /\ db'.missing = db.missing
  BY <1>1, <1>2, ReshapeKeeps
<1>4. TypeOK'
  BY <1>3 DEF IInv, TypeOK, RenameCopy, fixed, migVars, Phases
<1>5. Migrated'
  BY DEF IInv, Migrated, RenameCopy, migVars
<1>6. Transactional' /\ RightMode' /\ Achieved'
  BY <1>3 DEF IInv, Transactional, RightMode, Achieved, RenameCopy, fixed
<1>. QED  BY <1>3, <1>4, <1>5, <1>6 DEF IInv

LEMMA BackfillInv == ASSUME IInv, Backfill PROVE IInv'
<1>1. /\ IsDatabase(db') /\ Housed(db') /\ db'.tables = db.tables /\ db'.missing = db.missing
  BY BackfillKeeps DEF IInv, TypeOK, Backfill
<1>2. TypeOK'
  BY <1>1 DEF IInv, TypeOK, Backfill, fixed, migVars, Phases
<1>3. Transactional' /\ RightMode' /\ Achieved'
  BY <1>1 DEF IInv, Transactional, RightMode, Achieved, Backfill, fixed, migVars, Wide
<1>4. Migrated' /\ Housed(saved)' /\ RowsSurvive'
  BY DEF IInv, Migrated, Backfill, migVars, Housed, RowsSurvive
<1>. QED  BY <1>1, <1>2, <1>3, <1>4 DEF IInv

LEMMA CommitInv == ASSUME IInv, Commit PROVE IInv'
<1>1. \A t \in Tables : db.tables[t] = Wide(t)
  BY DEF IInv, RightMode, Achieved, Commit
<1>2. RowsSurvive'
  BY <1>1 DEF Commit, RowsSurvive, Wide
<1>3. TypeOK'
  BY DEF IInv, TypeOK, Commit, fixed, migVars, Phases
<1>4. Transactional' /\ RightMode' /\ Achieved'
  BY <1>1 DEF IInv, Transactional, RightMode, Achieved, Commit, fixed, migVars, Wide
<1>5. Migrated' /\ Housed(db)' /\ Housed(saved)'
  BY DEF IInv, Migrated, Commit, migVars, Housed
<1>. QED  BY <1>2, <1>3, <1>4, <1>5 DEF IInv

(* The steps of the program that only move it on.                          *)
LEMMA MoveInv ==
  ASSUME IInv, UNCHANGED <<fixed, db, saved, inTx, migVars, crashes>>,
         fk' \in BOOLEAN, app' \in Phases \ {"drop", "rename"},
         RightMode', Achieved'
  PROVE  IInv'
<1>1. TypeOK'
  BY DEF IInv, TypeOK, fixed, migVars
<1>2. Transactional' /\ Migrated' /\ Housed(db)' /\ Housed(saved)' /\ RowsSurvive'
  BY DEF IInv, Transactional, Migrated, migVars, Housed, RowsSurvive
<1>. QED  BY <1>1, <1>2 DEF IInv

LEMMA StartInv == ASSUME IInv, Start PROVE IInv'
<1>1. app' \in Phases \ {"drop", "rename"} /\ fk' \in BOOLEAN
  BY DEF Start, Phases
<1>2. RightMode' /\ Achieved'
  BY DEF Start, RightMode, Achieved, fixed
<1>. QED  BY <1>1, <1>2, MoveInv DEF Start

LEMMA ColumnsAddedInv == ASSUME IInv, ColumnsAdded PROVE IInv'
<1>1. app' \in Phases \ {"drop", "rename"} /\ fk' \in BOOLEAN
  BY DEF IInv, TypeOK, ColumnsAdded, Phases
<1>2. RightMode' /\ Achieved'
  BY DEF IInv, ColumnsAdded, RightMode, Achieved, fixed
<1>. QED  BY <1>1, <1>2, MoveInv DEF ColumnsAdded

LEMMA RebuiltAllInv == ASSUME IInv, RebuiltAll PROVE IInv'
<1>1. app' \in Phases \ {"drop", "rename"} /\ fk' \in BOOLEAN
  BY DEF IInv, TypeOK, RebuiltAll, Phases
<1>2. \A t \in Tables : db.tables[t] = Wide(t)
  BY DEF RebuiltAll, ToRebuild, Tables
<1>3. RightMode' /\ Achieved'
  BY <1>2 DEF IInv, RebuiltAll, RightMode, Achieved, fixed, Wide
<1>. QED  BY <1>1, <1>3, MoveInv DEF RebuiltAll

LEMMA GuardInv == ASSUME IInv, Guard PROVE IInv'
<1>1. CASE version = HeadRevision
  <2>1. app' \in Phases \ {"drop", "rename"} /\ fk' \in BOOLEAN
    BY <1>1 DEF IInv, TypeOK, Guard, Phases
  <2>2. RightMode' /\ Achieved'
    BY <1>1 DEF IInv, Guard, RightMode, Achieved, fixed, migVars
  <2>. QED  BY <1>1, <2>1, <2>2, MoveInv DEF Guard
<1>2. CASE version # HeadRevision
  <2>1. Die /\ crashes' \in 0..MaxCrashes
    BY <1>2 DEF Guard, IInv, TypeOK
  <2>. QED  BY <2>1, DieInv
<1>. QED  BY <1>1, <1>2

LEMMA CheckInv == ASSUME IInv, Check PROVE IInv'
<1>1. CASE Sound
  <2>1. app' \in Phases \ {"drop", "rename"} /\ fk' \in BOOLEAN
    BY <1>1 DEF IInv, TypeOK, Check, Phases
  <2>2. RightMode' /\ Achieved'
    BY <1>1 DEF IInv, Check, RightMode, Achieved, fixed, migVars, Sound, Wide
  <2>. QED  BY <1>1, <2>1, <2>2, MoveInv DEF Check
<1>2. CASE ~Sound
  <2>1. Die /\ crashes' \in 0..MaxCrashes
    BY <1>2 DEF Check, IInv, TypeOK
  <2>. QED  BY <2>1, DieInv
<1>. QED  BY <1>1, <1>2

-----------------------------------------------------------------------------
(* The migration changes only what it has applied and recorded.            *)
LEMMA MigrationKeeps ==
  ASSUME IInv, migUnchanged, Migrated',
         ddl' \subseteq Statements, version' \in 0..HeadRevision, mig' \in Nat,
         crashes' \in 0..MaxCrashes, version' = version \/ version # HeadRevision
  PROVE  IInv'
<1>1. TypeOK'
  BY DEF IInv, TypeOK, migUnchanged, fixed
<1>2. Transactional' /\ RightMode' /\ Housed(db)' /\ Housed(saved)' /\ RowsSurvive'
  BY DEF IInv, Transactional, RightMode, migUnchanged, fixed, Housed, RowsSurvive
<1>3. Achieved'
  BY DEF IInv, Achieved, migUnchanged, fixed, Sound, Wide
<1>. QED  BY <1>1, <1>2, <1>3 DEF IInv

(* Revisions are sequences of statements.                                  *)
LEMMA RevisionFacts ==
  /\ HeadRevision \in Nat /\ DOMAIN Revisions = 1..HeadRevision
  /\ \A r \in 1..HeadRevision : Revisions[r] \in Nat
BY RevisionAssumption DEF HeadRevision

LEMMA MigrateInv == ASSUME IInv, Migrate PROVE IInv'
<1>1. version \in 0..HeadRevision /\ version < HeadRevision /\ mig' = 1
      /\ version' = version /\ ddl' = ddl /\ ddl \subseteq Statements
      /\ crashes' = crashes /\ crashes \in 0..MaxCrashes
  BY DEF IInv, TypeOK, Migrate
<1>2. Migrated'
  BY <1>1, RevisionFacts DEF IInv, Migrated
<1>3. migUnchanged
  BY DEF Migrate
<1>. QED  BY <1>1, <1>2, <1>3, MigrationKeeps

LEMMA MigrationStatementInv == ASSUME IInv, MigrationStatement PROVE IInv'
<1>. DEFINE r == version + 1
<1>1. /\ version \in 0..HeadRevision /\ version < HeadRevision /\ mig \in Nat /\ mig > 0
      /\ mig <= Revisions[r] /\ version' = version /\ ddl \subseteq Statements
      /\ crashes' = crashes /\ crashes \in 0..MaxCrashes
      /\ r \in 1..HeadRevision /\ Revisions[r] \in Nat
  BY RevisionFacts DEF IInv, TypeOK, Migrated, MigrationStatement
<1>2. \/ mig' = 0 /\ ddl' = ddl
      \/ mig' = mig + 1 /\ ddl' = ddl \union {<<r, mig>>}
  BY DEF MigrationStatement
<1>3. <<r, mig>> \in Statements
  BY <1>1, RevisionFacts DEF Statements
<1>4. Migrated'
  BY <1>1, <1>2 DEF IInv, Migrated
<1>5. migUnchanged
  BY DEF MigrationStatement
<1>. QED  BY <1>1, <1>2, <1>3, <1>4, <1>5, MigrationKeeps

LEMMA StampInv == ASSUME IInv, Stamp PROVE IInv'
<1>. DEFINE r == version + 1
<1>1. /\ version \in 0..HeadRevision /\ version < HeadRevision /\ mig = Revisions[r] + 1
      /\ version' = r /\ ddl' = ddl /\ ddl \subseteq Statements
      /\ crashes' = crashes /\ crashes \in 0..MaxCrashes
      /\ r \in 1..HeadRevision /\ Revisions[r] \in Nat
  BY RevisionFacts DEF IInv, TypeOK, Migrated, Stamp
<1>2. \A i \in 1..Revisions[r] : <<r, i>> \in ddl
  BY <1>1 DEF IInv, Migrated, Stamp
<1>3. mig' \in {0, 1} /\ (mig' = 1 => r < HeadRevision)
  BY <1>1 DEF Stamp
<1>4. Migrated'
  <2>1. ASSUME NEW q \in 1..version', NEW i \in 1..Revisions[q]  PROVE <<q, i>> \in ddl'
    <3>1. CASE q = r
      BY <1>1, <1>2, <2>1, <3>1
    <3>2. CASE q # r
      BY <1>1, <2>1, <3>2 DEF IInv, Migrated
    <3>. QED  BY <3>1, <3>2
  <2>2. mig' > 0 => /\ version' < HeadRevision
                    /\ mig' <= Revisions[version' + 1] + 1
                    /\ \A i \in 1..(mig' - 1) : <<version' + 1, i>> \in ddl'
    <3>1. SUFFICES ASSUME mig' > 0
                   PROVE  /\ r < HeadRevision /\ 1 <= Revisions[r + 1] + 1 /\ mig' = 1
      BY <1>1
    <3>2. mig' = 1 /\ r < HeadRevision
      BY <1>3, <3>1
    <3>3. r + 1 \in 1..HeadRevision
      BY <1>1, <3>2, RevisionFacts
    <3>4. Revisions[r + 1] \in Nat
      BY <3>3, RevisionFacts
    <3>. QED  BY <3>2, <3>4
  <2>. QED  BY <2>1, <2>2 DEF Migrated
<1>5. migUnchanged
  BY DEF Stamp
<1>. QED  BY <1>1, <1>3, <1>4, <1>5, MigrationKeeps

LEMMA MigrationCrashInv == ASSUME IInv, MigrationCrash PROVE IInv'
<1>1. /\ version \in 0..HeadRevision /\ mig' = 0 /\ version' = version /\ ddl' = ddl
      /\ ddl \subseteq Statements /\ crashes' \in 0..MaxCrashes
  BY CrashAssumption DEF IInv, TypeOK, MigrationCrash
<1>2. Migrated'
  BY <1>1 DEF IInv, Migrated
<1>3. migUnchanged
  BY DEF MigrationCrash
<1>. QED  BY <1>1, <1>2, <1>3, MigrationKeeps

-----------------------------------------------------------------------------
LEMMA StepInv == IInv /\ [Next]_vars => IInv'
<1>. SUFFICES ASSUME IInv, [Next]_vars PROVE IInv'
  OBVIOUS
<1>1. CASE Start  BY <1>1, StartInv
<1>2. CASE ColumnsAdded  BY <1>2, ColumnsAddedInv
<1>3. CASE RebuiltAll  BY <1>3, RebuiltAllInv
<1>4. CASE Backfill  BY <1>4, BackfillInv
<1>5. CASE Commit  BY <1>5, CommitInv
<1>6. CASE Guard  BY <1>6, GuardInv
<1>7. CASE Check  BY <1>7, CheckInv
<1>8. CASE \E o \in Objects : AddMissing(o)  BY <1>8, AddMissingInv
<1>9. CASE \E t \in Tables : CreateCopy(t)  BY <1>9, CreateCopyInv
<1>10. CASE \E t \in Tables : FillCopy(t)  BY <1>10, FillCopyInv
<1>11. CASE \E t \in Tables : RefuseCopy(t)
  BY <1>11, DieInv DEF RefuseCopy, IInv, TypeOK
<1>12. CASE \E t \in Tables : DropOld(t)  BY <1>12, DropOldInv
<1>13. CASE \E t \in Tables : RenameCopy(t)  BY <1>13, RenameCopyInv
<1>14. CASE Crash
  <2>1. Die /\ crashes' \in 0..MaxCrashes
    BY <1>14, CrashAssumption DEF Crash, IInv, TypeOK
  <2>. QED  BY <2>1, DieInv
<1>15. CASE Migrate  BY <1>15, MigrateInv
<1>16. CASE MigrationStatement  BY <1>16, MigrationStatementInv
<1>17. CASE Stamp  BY <1>17, StampInv
<1>18. CASE MigrationCrash  BY <1>18, MigrationCrashInv
<1>19. CASE UNCHANGED vars
  <2>1. TypeOK'
    BY <1>19 DEF vars, fixed, migVars, IInv, TypeOK
  <2>2. (Transactional /\ RightMode /\ Achieved)'
    BY <1>19 DEF vars, fixed, migVars, IInv, Transactional, RightMode, Achieved, Sound, Wide
  <2>3. (Migrated /\ Housed(db) /\ Housed(saved) /\ RowsSurvive)'
    BY <1>19 DEF vars, fixed, migVars, IInv, Migrated, Housed, RowsSurvive
  <2>. QED  BY <2>1, <2>2, <2>3 DEF IInv
<1>. QED
  BY <1>1, <1>2, <1>3, <1>4, <1>5, <1>6, <1>7, <1>8, <1>9, <1>10, <1>11, <1>12, <1>13,
     <1>14, <1>15, <1>16, <1>17, <1>18, <1>19, Zenon DEF Next, Startup

LEMMA Inductive == Spec => []IInv
<1>. QED  BY InitInv, StepInv, PTL DEF Spec

(* Whatever is killed and restarted, for any database, migrations and      *)
(* number of kills, every variable has its type.                           *)
THEOREM TypeCorrect == Spec => []TypeOK
<1>1. IInv => TypeOK
  BY DEF IInv
<1>. QED  BY <1>1, Inductive, PTL

(* However often the program is killed while it rebuilds its tables, each  *)
(* is still saved under its own name (_rebuild_sqlite_table).              *)
THEOREM TablesSurvive == Spec => []RowsSurvive
<1>1. IInv => RowsSurvive
  BY DEF IInv
<1>. QED  BY <1>1, Inductive, PTL

(* A program that serves does so on a whole schema, foreign keys enforced, *)
(* every step in a stage that exists and, on MySQL, with every statement   *)
(* of every migration applied (ensure_runtime_schema, the startup checks,  *)
(* alembic's stamp after the last statement).                              *)
THEOREM ServingIsWhole == Spec => []ServesWhole
<1>1. IInv => ServesWhole
  <2>. SUFFICES ASSUME IInv, app = "serving" PROVE ServesWhole
    BY DEF ServesWhole
  <2>1. fk /\ \A t \in DOMAIN db.steps : db.steps[t].stage \in db.stages
    BY DEF IInv, Achieved, Sound, Housed
  <2>2. CASE compat
    <3>1. db.missing = {} /\ \A t \in Tables : db.tables[t] = Wide(t)
      BY <2>2 DEF IInv, Achieved
    <3>. QED  BY <2>1, <2>2, <3>1 DEF ServesWhole
  <2>3. CASE ~compat
    <3>1. version = HeadRevision /\ ddl \subseteq Statements
      BY <2>3 DEF IInv, Achieved, TypeOK
    <3>2. ASSUME NEW s \in Statements  PROVE s \in ddl
      <4>1. PICK r \in 1..HeadRevision : s \in {<<r, i>> : i \in 1..Revisions[r]}
        BY <3>2, RevisionFacts DEF Statements
      <4>. QED  BY <3>1, <4>1 DEF IInv, Migrated
    <3>. QED  BY <2>1, <2>3, <3>1, <3>2 DEF ServesWhole
  <2>. QED  BY <2>2, <2>3 DEF IInv, TypeOK
<1>. QED  BY <1>1, Inductive, PTL
=============================================================================
