SPECIFICATION NumericSpec
CONSTANTS
  W = 4
  N = 6
  MaxS = 4
  Bc = 2
  MaxN = 9
  MaxW = 4
INVARIANTS
  FlashIsSoftmax
  VariantsAgree
  NoLookAhead
  FormatsRoundTrip
  RoundsToNearest
  QuantizedWithinStep
  OneOwnerPerParameter
  
  BuffersAreWhole
  FlowIsTransposed
  NoRace
  ScheduleIndependent
CHECK_DEADLOCK FALSE
