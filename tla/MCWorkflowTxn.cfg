\* Two threads whose requests may overlap.
CONSTANTS
  brief = brief
  design = design
  draft = draft
  publish = publish
  planning = planning
  production = production
  promotion = promotion
  article = article
  Steps = {brief, design, draft, publish}
  Stages = {planning, production, promotion}
  Deliverables = {article}
  NoDeliverable = NoDeliverable
  Planning = planning
  StageOf <- MCStageOf
  Preds <- MCPreds
  DeliverableOf <- MCDeliverableOf
  BirthStage <- MCBirthStage
  Workers = {w1, w2}
  NoTx = NoTx
SPECIFICATION Spec
INVARIANTS
  TypeOK
  NoPrematureStart
  NoPrematureStageDone
  HandedOff
PROPERTIES
  ImplementsEngine
SYMMETRY Symmetry
