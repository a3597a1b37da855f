\* Two threads, one linked step, two rounds of each kind.
CONSTANTS
  Workers = {w1, w2}
  Steps = {s1}
  Manual = {"client"}
  StepWaits = {"dependency"}
  MaxRound = 2
  MaxEvents = 2
  NoTx = NoTx
SPECIFICATION Spec
INVARIANTS
  TypeOK
  ApprovalFollowsReview
  RoundsAreRecorded
  RoundsAreExact
  ReviewIsTimed
PROPERTIES
  SignOffHolds
  EndOfReviewLiftsWaits
SYMMETRY Symmetry
