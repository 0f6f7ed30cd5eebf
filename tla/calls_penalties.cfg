SPECIFICATION Spec
CONSTANTS
  m1 = m1
  m2 = m2
  r1 = r1
  r2 = r2
  Models = {m1}
  Runners = {r1}
  ModelOf <- OneModel
  Slots = {1, 2}
  MaxFailures = 2
  MaxTimeouts = 3
  Faults <- OwnFaults
  CountBound = 4
PROPERTY
  PenaltiesCleared
CHECK_DEADLOCK FALSE
