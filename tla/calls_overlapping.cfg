SPECIFICATION FairSpec
CONSTANTS
  m1 = m1
  m2 = m2
  r1 = r1
  r2 = r2
  Models = {m1}
  Runners = {r1}
  ModelOf <- OneModel
  Slots = {1, 2}
  MaxFailures = 1
  MaxTimeouts = 2
  Faults <- OwnFaults
  CountBound = 3
INVARIANT
  TypeOK
PROPERTIES
  FaultNeedsTwoMisses
  FaultyLeaves
CHECK_DEADLOCK FALSE
