SPECIFICATION Spec
CONSTANTS
  Threads = {t1}
  Msgs = {m1, m2}
  NoMsg = NoMsg
  MaxDrops = 0
  MaxLogouts = 0
  MaxRestarts = 1
  MaxTransient = 0
PROPERTY KeptUntilStored
CHECK_DEADLOCK FALSE
