\* Three steps, a join across two stages, the status actions that differ in kind.
CONSTANTS
  design = design
  draft = draft
  publish = publish
  planning = planning
  production = production
  promotion = promotion
  article = article
  Steps = {design, draft, publish}
  Stages = {planning, production, promotion}
  Deliverables = {article}
  NoDeliverable = NoDeliverable
  Planning = planning
  StageOf <- MCStageOf
  Preds <- MCPreds
  DeliverableOf <- MCDeliverableOf
  BirthStage <- MCBirthStage
  Asked = {"in_progress", "blocked_client", "cancelled", "reopen", "clear_blocker"}
  Overrides = {"not_started", "done"}
SPECIFICATION Spec
INVARIANTS
  TypeOK
  StageDoneTracksSteps
  SelfContainedStageIsDerived
PROPERTIES
  StepChangeYieldsOverride
  HandOffIsGated
