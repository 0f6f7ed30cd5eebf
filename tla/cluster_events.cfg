SPECIFICATION Spec
CONSTANTS
  m1 = m1
  m2 = m2
  None = None
  Models = {m1, m2}
  Updates <- MCUpdates
  Payloads <- MCPayloads
  Secure = TRUE
  ReportFailure = TRUE
  UsageErrors = FALSE
  MaxEvents = 2
  MaxData = 2
  MaxBackground = 0
CHECK_DEADLOCK FALSE
INVARIANTS
  LastEventApplied
  NoOrphan
  NoZombie
  ListenerSurvives
