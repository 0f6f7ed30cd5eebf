SPECIFICATION FairSpec
CONSTANTS
  m1 = m1
  m2 = m2
  r1 = r1
  r2 = r2
  Models = {m1}
  Runners = {r1}
  ModelOf <- OneModel
  Slots = {1}
  MaxFailures = 1
  MaxTimeouts = 2
  Faults <- TimeoutsOnly
  CountBound = 3
PROPERTY
  FaultyStopped
CHECK_DEADLOCK FALSE
