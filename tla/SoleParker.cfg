CONSTANTS
  Wakers = {w1, w2}
  Waiter = c
  MaxPublish = 2
  Lingering = {"publish"}
SPECIFICATION FairSpec
INVARIANTS TypeOK NoLostWake
PROPERTIES WaiterFinishes MonitorSpec
