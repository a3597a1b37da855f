\* Two runs that may overlap, over one change of the campaign.
CONSTANTS
  s = s
  w = w
  l = l
  Jobs = {j1, j2}
  Steps = {s}
  Windows = {w}
  Loads = {l}
  Situations <- MCSituations
  Critical = {}
  ClientSide = {}
  DueRank <- MCDueRank
  StrictSql = FALSE
  MaxCopies = 2
  MaxOverlaps = 1
  MaxChanges = 1
SPECIFICATION Spec
INVARIANTS
  TypeOK
  OneOfEach
PROPERTIES
  FreshRunSettles
