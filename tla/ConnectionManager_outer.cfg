SPECIFICATION FairSpec
CONSTANTS
  kMaxSuperRetries = 2
  MAX_RECONNECT = 1
  MaxCalls = 1
  MaxLogouts = 1
  MaxFailures = 3
  MaxDrops = 1
  MaxNetChanges = 0
  ServerMayGoSilent = FALSE
PROPERTY OuterRetryConnects
CHECK_DEADLOCK FALSE
