CONSTANTS
  Wakers = {w1}
  Waiter = c
  MaxPublish = 3
  Lingering = {"publish", "clear"}
SPECIFICATION Spec
INVARIANT NoLostWake
