CONSTANTS
  Waiters = {a, b}
  Transient = {a}
  Wakers = {k1}
  ParkSlots = 2
  WakeCalls = {"one", "n", "flush"}
  BatchSize = 2
  MaxRegistered = 0
  Shared = Shared
  None = None
SPECIFICATION FairSpec
PROPERTY EverySleeperIsWoken
