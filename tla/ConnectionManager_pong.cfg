SPECIFICATION Spec
CONSTANTS
  kMaxSuperRetries = 1
  MAX_RECONNECT = 1
  MaxCalls = 1
  MaxLogouts = 1
  MaxFailures = 0
  MaxDrops = 0
  MaxNetChanges = 0
  ServerMayGoSilent = TRUE
INVARIANT NeverAborts
CHECK_DEADLOCK FALSE
