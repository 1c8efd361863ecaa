CONSTANTS
  NumProducers = 2
  Capacity = 1
  Calls <- MCCalls
SPECIFICATION Spec
INVARIANT BlockedOnlyWhileFull
