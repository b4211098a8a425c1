SPECIFICATION Spec
CONSTANTS
    Objects = {o1, o2}
    Others = {other}
    MaxEvents = 2
    MaxClears = 1
INVARIANTS TypeOK CalledWhileAlive HeardOnce QuietWhenReplaced ContextsHandedOver
PROPERTY EveryoneReturns
CHECK_DEADLOCK FALSE
