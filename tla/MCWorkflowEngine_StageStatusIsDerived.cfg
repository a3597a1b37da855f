\* Two steps in two of three stages, a few requests.
CONSTANTS
  design = design
  draft = draft
  publish = publish
  planning = planning
  production = production
  promotion = promotion
  article = article
  Steps = {draft, publish}
  Stages = {planning, production, promotion}
  Deliverables = {article}
  NoDeliverable = NoDeliverable
  Planning = planning
  StageOf <- MCStageOf
  Preds <- MCPreds
  DeliverableOf <- MCDeliverableOf
  BirthStage <- MCBirthStage
  Asked = {"in_progress", "blocked_client", "clear_blocker"}
  Overrides = {"in_progress", "done"}
SPECIFICATION Spec
INVARIANTS
  StageStatusIsDerived
