SPECIFICATION FairSpec
CONSTANTS
  Workers = {w1, w2}
  Consumers = {c1}
  Capacity = 1
  BatchSize = 1
  Tags = 2
  MaxQueue = 2
PROPERTIES
  BatchArrives
