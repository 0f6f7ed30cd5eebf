SPECIFICATION Spec
CONSTANTS
  m1 = m1
  m2 = m2
  None = None
  Models = {m1, m2}
  Updates <- MCUpdates
  Payloads <- OneModelPayloads
  Secure = TRUE
  ReportFailure = TRUE
  UsageErrors = FALSE
  MaxEvents = 2
  MaxData = 1
  MaxBackground = 1
CHECK_DEADLOCK FALSE
INVARIANTS
  NoZombie
