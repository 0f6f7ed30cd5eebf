SPECIFICATION Spec
CONSTANTS
  m1 = m1
  m2 = m2
  r1 = r1
  r2 = r2
  Models = {m1, m2}
  Runners = {r1, r2}
  ModelOf <- TwoModels
  Slots = {1}
  MaxFailures = 1
  MaxTimeouts = 2
  Faults <- AllFaults
  CountBound = 3
INVARIANT
  CallReturnsResults
CHECK_DEADLOCK FALSE
