SPECIFICATION FairSpec
CONSTANTS
  p = p
  q = q
  None = None
  Reports = {p, q}
  MaxChanges = 2
  MaxFaults = 2
INVARIANTS
  TypeOK
  HeldOnce
  NothingStranded
  ViewHasNoGaps
PROPERTIES
  ReportsSent
  ViewConverges
CHECK_DEADLOCK FALSE
