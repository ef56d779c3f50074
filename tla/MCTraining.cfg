SPECIFICATION Spec
CONSTANTS
  Tensors <- MCTensors
  Embeddings <- MCEmbeddings
  Size <- MCSize
  Slots <- MCSlots
  InitExp = 1
  MaxExp = 2
  AccumSteps = {1, 3}
  Intervals = {1, 2}
  InitInterval = 2
  SwaStarts = {1}
  MaxStep = 6
INVARIANTS
  WeightsStayFinite
  AppliedInOrder
PROPERTIES
  UpdateIsWholeWindow
  GrowthEarned
