SPECIFICATION FairSpec
CONSTANTS
  m1 = m1
  m2 = m2
  None = None
  Models = {m1, m2}
  Updates <- MCUpdates
  Payloads <- OneDeploymentPayloads
  Secure = TRUE
  ReportFailure = TRUE
  UsageErrors = TRUE
  MaxEvents = 2
  MaxData = 2
  MaxBackground = 0
CHECK_DEADLOCK FALSE
INVARIANT
  PendingOwned
PROPERTIES
  EventHandled
  EvictedOnlyWhenClosed
  RunnersKeepContract
