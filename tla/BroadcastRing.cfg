SPECIFICATION Spec
CONSTANTS
  Producers = {1, 2}
  NumSeats = 2
  Capacity = 1
  MaxTail = 3
  MaxClones = 2
  Kinds <- KindsOf
CONSTRAINT TornFloorsOnly
INVARIANTS
  FloorsAreLow
  OwnersAreAlone
  NothingUnreadIsLost
  NoSleepBesideDrainedRing
CHECK_DEADLOCK FALSE
