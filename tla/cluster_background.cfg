SPECIFICATION FairSpec
CONSTANTS
  m1 = m1
  m2 = m2
  None = None
  Models = {m1, m2}
  Updates <- MCUpdates
  Payloads <- OneModelPayloads
  Secure = FALSE
  ReportFailure = TRUE
  UsageErrors = TRUE
  MaxEvents = 2
  MaxData = 1
  MaxBackground = 2
CHECK_DEADLOCK FALSE
INVARIANTS
  TypeOK
  PendingOwned
  ClosedRunnerBeingRemoved
PROPERTIES
  EvictedOnlyWhenClosed
  ReportedStaysOut
  ReportedLeaves
  RunnersKeepContract
