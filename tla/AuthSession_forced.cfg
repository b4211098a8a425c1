CONSTANTS
    MaxRequests = 2
    MaxKicks = 1
    MaxRestarts = 0
SPECIFICATION Spec
INVARIANT ForcedOutStaysOut
CHECK_DEADLOCK FALSE
