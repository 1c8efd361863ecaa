CONSTANTS
  Producers = {p1, p2}
  Capacity = 2
  MaxSends = 2
SPECIFICATION FairSpec
INVARIANTS ClaimedSlotIsFree Conservation
PROPERTIES PublishedIsDelivered ClaimQueueSpec
