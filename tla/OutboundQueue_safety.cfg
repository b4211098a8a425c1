SPECIFICATION Spec
CONSTANTS
  Threads = {t1, t2}
  Msgs = {m1, m2}
  NoMsg = NoMsg
  MaxDrops = 1
  MaxLogouts = 1
  MaxRestarts = 1
  MaxTransient = 1
SYMMETRY Symmetric
INVARIANT TypeOK
INVARIANT NoStrandedRow
PROPERTY RemovedOnlyWhenStored
CHECK_DEADLOCK FALSE
