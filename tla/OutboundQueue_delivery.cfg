SPECIFICATION FairSpec
CONSTANTS
  Threads = {t1, t2}
  Msgs = {m1, m2}
  NoMsg = NoMsg
  MaxDrops = 1
  MaxLogouts = 0
  MaxRestarts = 0
  MaxTransient = 0
PROPERTIES ImplementsDelivery DeliveryProgress
CHECK_DEADLOCK FALSE
