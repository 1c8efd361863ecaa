CONSTANTS
  Consumers = {c1, c2}
  Capacity = 2
  BatchSize = 2
  MaxPushes = 4
  NoValue = NoValue
SPECIFICATION FairSpec
PROPERTY PushAlwaysReturns
