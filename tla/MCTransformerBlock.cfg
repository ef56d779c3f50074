SPECIFICATION MCSpec
CONSTANTS
  NumBlocks = 2
  BlockSize = 2
  MaxPos = 5
  Layers = {0}
  Values = {v1, v2}
  Zero = zero
  NoValue = none
  MaxBatch = 2
  MaxLength = 3
  MaxCalls = 2
SYMMETRY Symmetry
INVARIANTS
  OneOwner
  NoLeak
  LoadReturnsLatest
  BackwardMatchesLoad
  DecodeReadsLatest
  PrefillIsCached
