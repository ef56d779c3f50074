SPECIFICATION FairSpec
CONSTANTS
  Workers = {w1, w2}
  Consumers = {c1}
  Capacity = 2
  BatchSize = 2
  Tags = 3
  MaxQueue = 3
INVARIANTS
  NothingLost
  ShortOnlyWhenFinished
  SomeoneFills
PROPERTIES
  BatchArrives
  IsChannel
