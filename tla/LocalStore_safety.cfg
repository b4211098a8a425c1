CONSTANTS
    MaxSeq = 2
    BucketSize = 1
    MaxSyncs = 2
    MaxCalls = 1
    MaxPushes = 1
    MaxRestarts = 1
SPECIFICATION Spec
INVARIANTS
    TypeOK
    KeepsNewest
    NoSkip
    WriteThrough
PROPERTY
    StaysWithdrawn
CHECK_DEADLOCK FALSE
