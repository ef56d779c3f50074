SPECIFICATION MCSpec
CONSTANTS
  NumBlocks = 1
  BlockSize = 2
  MaxPos = 2
  Layers = {0}
  Values = {v1, v2}
  Zero = zero
  NoValue = none
  MaxBatch = 1
  MaxLength = 2
  MaxCalls = 2
SYMMETRY Symmetry
INVARIANT
  GradientsOfOneCall
