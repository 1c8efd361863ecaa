CONSTANTS
  Capacity = 4
  CasSkip = 2
  NumProducers = 2
  NumPeers = 2
  Steady = {2}
  BatchSize = 2
  FlushAt = 3
  Prefill = 3
  Starts = {3}
  Kinds <- MCKinds
  Calls <- MCCalls
  Openings <- MCOpenings
SPECIFICATION Spec
INVARIANTS NoSleepBesideAwaited SlotsHaveOneOwner TeardownIsExact NoneMeansDrained NoSleepBesideValue NoSleepUnlessWasted CoversTheRing TheSlotStaysFree
