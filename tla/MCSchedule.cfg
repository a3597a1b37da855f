\* Five steps of a campaign, two requests in five days.
CONSTANTS
  review = review
  article = article
  video = video
  promote = promote
  report = report
  d = d
  production = production
  promotion = promotion
  content_plan = content_plan
  publishing = publishing
  Steps = {review, article, video, promote, report}
  Stages = {production, promotion}
  Deliverables = {d}
  NoDeliverable = NoDeliverable
  Milestones = {content_plan, publishing}
  WorkingWeek = {0, 1, 2, 3}
  Holidays = {9}
  StageOf <- MCStageOf
  DeliverableOf <- MCDeliverableOf
  Hours <- MCHours
  OwnCapacity <- MCWeekly
  EffortCapacity <- MCWeekly
  ManagerCapacity = 16
  TeamCapacity = 32
  Buffer <- MCBuffer
  Preds <- MCPreds
  RowOrders <- MCRowOrders
  Templated <- MCTemplated
  Needs <- MCNeeds
  Lasting <- MCLasting
  AnchorsOf <- MCAnchorsOf
  Reporting = {report}
  Publishing <- MCPublishing
  Socials <- MCSocials
  ContentReviews = {review}
  CreatedOn = 4
  Situations <- MCSituations
  Edits <- MCEdits
  RequestDays = {5}
  ScopeStart = 0
  DueOffset <- MCDueOffset
  LastDay = 4
  MaxChanges = 2
SPECIFICATION Spec
INVARIANTS
  TypeOK
  ChainIsSettled
  MilestonesFollowStart
  RepairSettles
PROPERTIES
  TroubleDoesNotPass
  HealthIsFresh
CHECK_DEADLOCK FALSE
