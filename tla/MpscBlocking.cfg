CONSTANTS
  NumProducers = 2
  Capacity = 2
  Calls <- MCCalls
SPECIFICATION FairSpec
INVARIANTS TypeOK NoSleepBesideEmptyRing ConsumerNotStranded
PROPERTIES CallsReturn CloseReleasesConsumer DropReleasesProducers
CHECK_DEADLOCK FALSE
