---------------------------- MODULE StartupSchema ---------------------------
(***************************************************************************)
(* How the program comes up on a database that is not the current one      *)
(* (app/main.py, app/db/schema_updates.py, app/db/migration_guard.py,      *)
(* alembic/versions).                                                      *)
(*                                                                         *)
(* With RUNTIME_SCHEMA_COMPAT (compat) the program itself brings an old    *)
(* SQLite file up to date: it adds what is missing, rebuilds the tables    *)
(* whose shape has to change, fills the new columns, and then checks the   *)
(* result.  Without it an operator migrates the MySQL database, statement  *)
(* by statement, and the program only looks whether it is at the head.     *)
(* Either process may be killed at any point and started again.            *)
(*                                                                         *)
(* sqlite3 opens a transaction only before an INSERT or UPDATE: every DDL  *)
(* statement before the first of those is final at once, and PRAGMA        *)
(* foreign_keys has no effect after it.  Of the rows the model keeps the   *)
(* workflow steps of one campaign and its stages; columns that are copied  *)
(* or defaulted one by one are not followed, nor are the statuses and      *)
(* owners the shim derives (README, section 5).                            *)
(***************************************************************************)
EXTENDS Integers, Sequences, FiniteSets

CONSTANTS
  Objects,      \* tables and columns an old database may lack
  Steps,        \* the workflow steps it may hold
  WordingOf,    \* WordingOf[t]: what the name of step t suggests
  DeliverableStageOf, \* the stage of the deliverable of step t
  Revisions,    \* Revisions[r]: number of DDL statements of migration r
  Guarded,      \* the migrations that look before they add
  MaxCrashes    \* bound: how often a process is killed

StageName == {"planning", "production", "promotion", "reporting"}
Wording == StageName \union {"distribution"}

\* The tables the shim rebuilds, in its order.
Rebuilt == <<"deliverables", "milestones", "product_modules", "workflow_steps">>
Tables == {Rebuilt[i] : i \in DOMAIN Rebuilt}

\* A table under its own name, and its rebuilt copy under the name t_new.
Shape == [old : {"narrow", "wide", "absent"}, new : {"absent", "empty", "full"}]

\* campaign: is campaign_id set?  sprint, own, linked: sprint_id, deliverable_id
\* and linked_deliverable_id.  name and stage: stage_name and stage_id.
StepRow == [campaign : BOOLEAN, sprint : BOOLEAN, own : BOOLEAN, linked : BOOLEAN,
            name : StageName \union {"none"}, stage : StageName \union {"none"}]

Facts == [demand : BOOLEAN, reach : BOOLEAN, promos : BOOLEAN, reports : BOOLEAN]

ASSUME WordingAssumption == WordingOf \in [Steps -> Wording]
ASSUME DeliverableAssumption == DeliverableStageOf \in [Steps -> StageName]
ASSUME RevisionAssumption == Revisions \in Seq(Nat) /\ Guarded \subseteq DOMAIN Revisions
ASSUME CrashAssumption == MaxCrashes \in Nat

VARIABLES
  compat,    \* RUNTIME_SCHEMA_COMPAT; fixed
  campaign,  \* the campaign's type and modules; fixed
  db,        \* the database as the open connection sees it
  saved,     \* the database a new process would find
  inTx,      \* has sqlite3 opened a transaction?
  fk,        \* does the pooled connection enforce foreign keys?
  app,       \* how far the program has come
  ddl,       \* the migration statements applied so far
  version,   \* alembic_version, 0 for none
  mig,       \* the next statement of a running migration, 0 for none
  crashes    \* number of kills so far

vars == <<compat, campaign, db, saved, inTx, fk, app, ddl, version, mig, crashes>>
fixed == <<compat, campaign>>
migVars == <<ddl, version, mig>>

IsDatabase(d) ==
  /\ DOMAIN d = {"missing", "tables", "steps", "stages"}
  /\ d.missing \subseteq Objects
  /\ d.tables \in [Tables -> Shape]
  /\ DOMAIN d.steps \subseteq Steps /\ \A t \in DOMAIN d.steps : d.steps[t] \in StepRow
  /\ d.stages \subseteq StageName

Phases == {"down", "columns", "rebuild", "copy", "drop", "rename", "backfill",
           "commit", "guard", "check", "serving"}

Statements == UNION {{<<r, i>> : i \in 1..Revisions[r]} : r \in DOMAIN Revisions}
HeadRevision == Len(Revisions)

TypeOK ==
  /\ compat \in BOOLEAN /\ campaign \in Facts
  /\ IsDatabase(db) /\ IsDatabase(saved)
  /\ inTx \in BOOLEAN /\ fk \in BOOLEAN
  /\ app \in Phases
  /\ ddl \subseteq Statements /\ version \in 0..HeadRevision /\ mig \in Nat
  /\ crashes \in 0..MaxCrashes

Wide(t) == [old |-> "wide", new |-> "absent"]
Narrow(t) == [old |-> "narrow", new |-> "absent"]

-----------------------------------------------------------------------------
(* What ensure_runtime_schema fills in, statement by statement.            *)

\* _backfill_campaign_direct_fields
WithCampaign(row) == [row EXCEPT !.campaign = @ \/ row.sprint]

(* Mutant: "distribution" is taken for a stage.                            *)
WordedStageRaw(t) == WordingOf[t]

\* The stage a step belongs to by its name, when nothing else says.
WordedStage(t) == IF WordingOf[t] = "distribution" THEN "promotion" ELSE WordingOf[t]

\* The conditional stages; they are looked for before the names are derived.
WantsPromotion(steps) ==
  \/ campaign.reach
  \/ /\ ~campaign.demand
     /\ \/ campaign.promos
        \/ \E t \in DOMAIN steps : steps[t].campaign
             /\ (steps[t].name = "promotion" \/ WordingOf[t] = "promotion")

(* Mutant: only deliverables call for reporting.                           *)
WantsReportingForDeliverables(steps) == (~campaign.demand \/ campaign.reach) /\ campaign.reports

WantsReporting(steps) ==
  /\ ~campaign.demand \/ campaign.reach
  /\ campaign.reports \/ \E t \in DOMAIN steps : steps[t].campaign /\ steps[t].name = "reporting"

WithStages(stages, steps) ==
  stages \union {"planning", "production"}
         \union {s \in {"promotion"} : WantsPromotion(steps)}
         \union {s \in {"reporting"} : WantsReporting(steps)}

\* linked_deliverable_id takes over from deliverable_id and sprint_id.
Linked(row) == [row EXCEPT !.linked = @ \/ row.own, !.own = FALSE, !.sprint = FALSE]

DerivedName(t, row) == IF row.linked THEN DeliverableStageOf[t] ELSE WordedStage(t)

Named(t, row) == [row EXCEPT !.name = IF @ = "none" THEN DerivedName(t, row) ELSE @]

\* A step gets the stage of its name if its campaign has that stage.
Staged(row, stages) ==
  [row EXCEPT !.stage = IF @ = "none" /\ row.campaign /\ row.name \in stages
                        THEN row.name ELSE @]

\* An empty reporting stage is deleted from a campaign that should have none.
WithoutEmptyReporting(stages, steps) ==
  IF /\ \A t \in DOMAIN steps : steps[t].stage # "reporting"
     /\ (campaign.demand /\ ~campaign.reach) \/ ~campaign.reports
  THEN stages \ {"reporting"} ELSE stages

Backfilled(d) ==
  LET owned == [t \in DOMAIN d.steps |-> WithCampaign(d.steps[t])]
      stages == WithStages(d.stages, owned)
      steps == [t \in DOMAIN owned |-> Staged(Named(t, Linked(owned[t])), stages)]
  IN  [d EXCEPT !.steps = steps, !.stages = WithoutEmptyReporting(stages, steps)]

-----------------------------------------------------------------------------
(* The databases a program may be started on.                              *)

Fresh == [campaign |-> FALSE, sprint |-> FALSE, own |-> FALSE, linked |-> FALSE,
          name |-> "none", stage |-> "none"]

\* The first shape: a step belongs to a deliverable and to nothing else.
FirstShape ==
  {[missing |-> Objects, tables |-> [t \in Tables |-> Narrow(t)], stages |-> {},
    steps |-> [t \in rows |-> [Fresh EXCEPT !.own = TRUE]]] : rows \in SUBSET Steps}

\* Later a step could belong to a sprint instead.
SprintShape ==
  {[missing |-> Objects, stages |-> {},
    tables |-> [t \in Tables |-> IF t = "workflow_steps" THEN Wide(t) ELSE Narrow(t)],
    steps |-> steps] :
      steps \in UNION {[rows -> {[Fresh EXCEPT !.own = TRUE], [Fresh EXCEPT !.sprint = TRUE]}] :
                         rows \in SUBSET Steps}}

\* The current one: every step has its campaign and its stage.
CurrentShape ==
  {[missing |-> {}, tables |-> [t \in Tables |-> Wide(t)],
    steps |-> [t \in rows |-> [Fresh EXCEPT !.campaign = TRUE, !.name = "production",
                                             !.stage = "production"]],
    stages |-> {"planning", "production"}] : rows \in SUBSET Steps}

Init ==
  /\ compat \in BOOLEAN
  /\ campaign \in Facts
  /\ db \in IF compat THEN FirstShape \union SprintShape \union CurrentShape
            ELSE CurrentShape
  /\ saved = db
  /\ inTx = FALSE /\ fk = TRUE
  /\ app = "down"
  /\ ddl = {} /\ version = 0 /\ mig = 0
  /\ crashes = 0

-----------------------------------------------------------------------------
(* The program.                                                            *)

\* One statement: final at once unless a transaction is open.
Execute(new) == db' = new /\ saved' = IF inTx THEN saved ELSE new

\* A new process, a new connection: foreign_keys=ON (_set_sqlite_fk_pragma).
Start ==
  /\ app = "down"
  /\ app' = IF compat THEN "columns" ELSE "guard"
  /\ fk' = TRUE
  /\ UNCHANGED <<fixed, db, saved, inTx, migVars, crashes>>

\* The process ends, with an error or killed: the transaction is rolled back.
Die ==
  /\ app' = "down"
  /\ db' = saved
  /\ inTx' = FALSE
  /\ UNCHANGED <<fixed, saved, fk, migVars>>

\* create_all and ALTER TABLE ADD COLUMN.
AddMissing(o) ==
  /\ app = "columns"
  /\ o \in db.missing
  /\ Execute([db EXCEPT !.missing = @ \ {o}])
  /\ UNCHANGED <<fixed, inTx, fk, app, migVars, crashes>>

ColumnsAdded ==
  /\ app = "columns"
  /\ db.missing = {}
  /\ app' = "rebuild"
  /\ UNCHANGED <<fixed, db, saved, inTx, fk, migVars, crashes>>

\* The first table that still has to be rebuilt, or is being rebuilt.
ToRebuild == {i \in DOMAIN Rebuilt : db.tables[Rebuilt[i]] # Wide(Rebuilt[i])}
IsCurrent(t) == \E i \in ToRebuild : t = Rebuilt[i] /\ \A j \in ToRebuild : i <= j

\* PRAGMA foreign_keys=OFF, and CREATE TABLE IF NOT EXISTS t_new.
CreateCopy(t) ==
  /\ app = "rebuild"
  /\ IsCurrent(t)
  /\ Execute([db EXCEPT !.tables[t].new = IF @ = "absent" THEN "empty" ELSE @])
  /\ fk' = (fk /\ inTx)
  /\ app' = "copy"
  /\ UNCHANGED <<fixed, inTx, migVars, crashes>>

\* The copy of workflow_steps has CHECK (stage_id IS NOT NULL).
Copyable(t) ==
  t = "workflow_steps" => \A s \in DOMAIN db.steps : db.steps[s].stage # "none"

(* Mutant: the copy is made without opening a transaction.                 *)
FillCopyAtOnce(t) ==
  /\ app = "copy" /\ IsCurrent(t) /\ Copyable(t)
  /\ Execute([db EXCEPT !.tables[t].new = "full"])
  /\ app' = "drop"
  /\ UNCHANGED <<fixed, inTx, fk, migVars, crashes>>

\* INSERT INTO t_new SELECT ... FROM t: from here on a transaction is open.
FillCopy(t) ==
  /\ app = "copy" /\ IsCurrent(t) /\ Copyable(t)
  /\ db' = [db EXCEPT !.tables[t].new = "full"]
  /\ inTx' = TRUE
  /\ app' = "drop"
  /\ UNCHANGED <<fixed, saved, fk, migVars, crashes>>

RefuseCopy(t) ==
  /\ app = "copy" /\ IsCurrent(t) /\ ~Copyable(t)
  /\ Die
  /\ UNCHANGED crashes

\* DROP TABLE t, which rows elsewhere refer to: only with foreign keys off.
DropOld(t) ==
  /\ app = "drop" /\ IsCurrent(t)
  /\ ~fk
  /\ Execute([db EXCEPT !.tables[t].old = "absent"])
  /\ app' = "rename"
  /\ UNCHANGED <<fixed, inTx, fk, migVars, crashes>>

\* ALTER TABLE t_new RENAME TO t, and PRAGMA foreign_keys=ON.
RenameCopy(t) ==
  /\ app = "rename" /\ IsCurrent(t)
  /\ Execute([db EXCEPT !.tables[t] = Wide(t)])
  /\ fk' = (fk \/ ~inTx)
  /\ app' = "rebuild"
  /\ UNCHANGED <<fixed, inTx, migVars, crashes>>

RebuiltAll ==
  /\ app = "rebuild"
  /\ ToRebuild = {}
  /\ app' = "backfill"
  /\ UNCHANGED <<fixed, db, saved, inTx, fk, migVars, crashes>>

Backfill ==
  /\ app = "backfill"
  /\ db' = Backfilled(db)
  /\ inTx' = TRUE
  /\ app' = "commit"
  /\ UNCHANGED <<fixed, saved, fk, migVars, crashes>>

Commit ==
  /\ app = "commit"
  /\ saved' = db
  /\ inTx' = FALSE
  /\ app' = "check"
  /\ UNCHANGED <<fixed, db, fk, migVars, crashes>>

\* assert_database_at_migration_head
Guard ==
  /\ app = "guard"
  /\ IF version = HeadRevision
     THEN app' = "check" /\ UNCHANGED <<fixed, db, saved, inTx, fk, migVars, crashes>>
     ELSE Die /\ UNCHANGED crashes

(* Mutant: the pragma of the connection is not looked at.                  *)
SoundWithoutPragma == \A t \in DOMAIN db.steps : db.steps[t].stage # "none"

\* assert_sqlite_foreign_keys_enabled and assert_runtime_integrity
Sound == fk /\ \A t \in DOMAIN db.steps : db.steps[t].stage # "none"

Check ==
  /\ app = "check"
  /\ IF Sound
     THEN app' = "serving" /\ UNCHANGED <<fixed, db, saved, inTx, fk, migVars, crashes>>
     ELSE Die /\ UNCHANGED crashes

Crash ==
  /\ app # "down"
  /\ crashes < MaxCrashes
  /\ crashes' = crashes + 1
  /\ Die

-----------------------------------------------------------------------------
(* alembic upgrade head, on a database whose DDL commits by itself.        *)

migUnchanged == UNCHANGED <<fixed, db, saved, inTx, fk, app>>

Migrate ==
  /\ ~compat
  /\ mig = 0 /\ version < HeadRevision
  /\ mig' = 1
  /\ migUnchanged /\ UNCHANGED <<ddl, version, crashes>>

\* The next statement of the revision, or an error when its object exists.
MigrationStatement ==
  LET r == version + 1
  IN  /\ mig > 0 /\ mig <= Revisions[r]
      /\ IF <<r, mig>> \in ddl /\ r \notin Guarded
         THEN mig' = 0 /\ ddl' = ddl
         ELSE mig' = mig + 1 /\ ddl' = ddl \union {<<r, mig>>}
      /\ migUnchanged /\ UNCHANGED <<version, crashes>>

\* alembic records a revision after its last statement.
Stamp ==
  /\ mig > 0 /\ mig = Revisions[version + 1] + 1
  /\ version' = version + 1
  /\ mig' = IF version' < HeadRevision THEN 1 ELSE 0
  /\ migUnchanged /\ UNCHANGED <<ddl, crashes>>

MigrationCrash ==
  /\ mig > 0
  /\ crashes < MaxCrashes
  /\ crashes' = crashes + 1
  /\ mig' = 0
  /\ migUnchanged /\ UNCHANGED <<ddl, version>>

Startup ==
  \/ Start \/ ColumnsAdded \/ RebuiltAll \/ Backfill \/ Commit \/ Guard \/ Check
  \/ \E o \in Objects : AddMissing(o)
  \/ \E t \in Tables : \/ CreateCopy(t) \/ FillCopy(t) \/ RefuseCopy(t)
                       \/ DropOld(t) \/ RenameCopy(t)

Next ==
  \/ Startup
  \/ Crash
  \/ Migrate \/ MigrationStatement \/ Stamp \/ MigrationCrash

\* The program runs on by itself, and a program that has ended is started again.
Spec == Init /\ [][Next]_vars /\ WF_vars(Startup)

-----------------------------------------------------------------------------
(* The program serves requests only on a whole schema, with foreign keys   *)
(* enforced and every step in a stage that exists, whatever was killed on  *)
(* the way (the backfills and checks of startup; alembic's stamp after the *)
(* last statement of a revision).                                          *)
ServesWhole ==
  app = "serving" =>
    /\ fk
    /\ \A t \in DOMAIN db.steps : db.steps[t].stage \in db.stages
    /\ IF compat THEN db.missing = {} /\ \A t \in Tables : db.tables[t] = Wide(t)
                 ELSE ddl = Statements

(* Killed at any point, the shim leaves every table it rebuilds, old or    *)
(* new, under its own name with its rows (the order of the statements and  *)
(* the transaction that sqlite3 opens at the first INSERT).                *)
RowsSurvive == \A t \in Tables : saved.tables[t].old # "absent"

\* The stage a step without one will be given.
TargetStage(t, row) == Named(t, Linked(row)).name

\* The databases the shim can bring up: no step in the first shape, every step
\* with a way to its campaign, no step in a stage its campaign never gets.
Upgradable ==
  /\ db.tables["workflow_steps"].old = "narrow" => db.steps = <<>>
  /\ \A t \in DOMAIN db.steps :
       LET row == db.steps[t]
       IN  row.stage = "none" =>
             /\ row.campaign \/ row.sprint
             /\ campaign.demand /\ ~campaign.reach =>
                  TargetStage(t, row) \in {"planning", "production"}

(* Killed any number of times and started again each time, the program     *)
(* comes up on an old database it can upgrade, though a start may fail     *)
(* (ensure_runtime_schema, assert_runtime_integrity).                      *)
ComesUp == compat /\ Upgradable ~> app = "serving"
=============================================================================
