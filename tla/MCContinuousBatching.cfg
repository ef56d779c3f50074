SPECIFICATION FairSpec
CONSTANTS
  Ids = {r1, r2, r3, r4}
  MaxBatch = 2
  MaxSeq = 3
  MaxPos = 4
INVARIANTS
  FirstComeFirstServed
  MaskIsBlockCausal
PROPERTIES
  EveryRequestAdmitted
  TokensShiftBehindFinished
