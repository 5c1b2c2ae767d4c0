CONSTANTS
  Limits <- SomeLimits
  MaxIndex = 5
  MaxBytes = 7
  ForeignSets <- SmallSets
  MaxCuts = 1
SPECIFICATION StreamSpec
INVARIANTS
  VolumesInOrder
PROPERTIES
  ImplementsByteStream
CHECK_DEADLOCK FALSE
