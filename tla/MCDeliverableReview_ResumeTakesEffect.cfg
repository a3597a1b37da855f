\* Three requests, one after the other, are enough.
CONSTANTS
  Workers = {w1}
  Steps = {s1}
  Manual = {}
  StepWaits = {}
  MaxRound = 1
  MaxEvents = 1
  NoTx = NoTx
SPECIFICATION Spec
INVARIANT ResumeTakesEffect
