SPECIFICATION Spec
CONSTANTS
  kMaxSuperRetries = 1
  MAX_RECONNECT = 1
  MaxCalls = 1
  MaxLogouts = 1
  MaxFailures = 1
  MaxDrops = 1
  MaxNetChanges = 1
  ServerMayGoSilent = TRUE
INVARIANT TypeOK
INVARIANT ConnectedIsTrue
INVARIANT DisconnectedIsShown
PROPERTY StaysDisconnected
CHECK_DEADLOCK FALSE
