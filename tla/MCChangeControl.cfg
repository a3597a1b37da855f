\* Two requests, two threads whose decisions may overlap, the two required roles.
CONSTANTS
  Requests = {r1, r2}
  Roles = {HEAD_OPS, HEAD_SALES}
  Workers = {w1, w2}
  NoTx = NoTx
SPECIFICATION Spec
INVARIANTS
  TypeOK
  StatusAgreesWithVotes
  PendingHidesNoRejection
  ActivatedIsDated
PROPERTIES
  KeepsPromise
SYMMETRY Symmetry
