\* Every shape of database with up to three steps, two kills.
CONSTANTS
  call = call
  report = report
  post = post
  Objects = {table, column}
  Steps = {call, report, post}
  WordingOf <- MCWordingOf
  DeliverableStageOf <- MCDeliverableStageOf
  Revisions <- MCRevisions
  Guarded = {3}
  MaxCrashes = 2
SPECIFICATION Spec
INVARIANTS
  TypeOK
  ServesWhole
  RowsSurvive
PROPERTIES
  ComesUp
\* A migrated and started system with no kill left has nothing more to do.
CHECK_DEADLOCK FALSE
