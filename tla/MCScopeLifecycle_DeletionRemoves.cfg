\* Two scopes, two overlapping requests, a series of 8 numbers.
CONSTANTS
  launch = launch
  trial = trial
  acme = acme
  none = none
  demand = demand
  display = display
  response = response
  code = code
  Scopes = {launch, trial}
  Workers = {w1, w2}
  NoTx = NoTx
  Brands = {acme, none}
  NoCode = none
  BrandOf <- MCBrandOf
  Lines = {demand, display, response}
  LinesOf <- MCLinesOf
  KindOf <- MCKindOf
  CodeOf <- MCCodeOf
  MaxNumber = 8
  MaxPasses = 2
  MaxScopes = 2
SPECIFICATION Spec
\* Once every scope is deleted nothing is left to ask.
CHECK_DEADLOCK FALSE
SYMMETRY Symmetry
INVARIANTS
  DeletionRemoves
