\* One request, two threads whose decisions overlap.
CONSTANTS
  Requests = {r1}
  Roles = {HEAD_OPS, HEAD_SALES}
  Workers = {w1, w2}
  NoTx = NoTx
SPECIFICATION Spec
INVARIANTS
  ActiveOnlyIfApproved
