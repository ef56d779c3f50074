SPECIFICATION Spec
CONSTANTS
  W = 3
  N = 5
INVARIANTS
  SumOverRanks
CHECK_DEADLOCK FALSE
