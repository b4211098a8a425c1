CONSTANTS
    MaxRequests = 3
    MaxKicks = 1
    MaxRestarts = 2
SPECIFICATION Spec
INVARIANTS
    TypeOK
    Agreement
    LoggedInCanRefresh
    SameSession
    ExpiredMeansOver
CHECK_DEADLOCK FALSE
