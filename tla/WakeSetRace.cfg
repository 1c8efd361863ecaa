CONSTANTS
  Waiters = {a, b}
  Transient = {a, b}
  Wakers = {k1, k2}
  ParkSlots = 1
  WakeCalls = {"one", "n", "flush"}
  BatchSize = 2
  MaxRegistered = 1
  Shared = Shared
  None = None
SPECIFICATION Spec
SYMMETRY MCSymmetry
INVARIANTS SleeperIsReachable WakeMissesNobody
