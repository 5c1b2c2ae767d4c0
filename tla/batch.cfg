CONSTANTS
  p1 = p1
  w1 = w1
  w2 = w2
  a = a
  b = b
  Procs = {p1}
  Writers = {w1, w2}
  ProcOf <- Together
  Leaves = {a}
  Outside = outside
  NoFile = NoFile
  Folder = folder
  JobsOf <- TwoBatches
  HardLinks = FALSE
  CleanupFails = FALSE
  MaxCalls = 2
  MaxSerial = 3
  MaxOutside = 1
  MaxCrashes = 1
SPECIFICATION FairBatchSpec
INVARIANTS
  FailureLeavesNothing
  SuccessIsComplete
  ReportIsTrue
  CancelPublishesNoMore
PROPERTIES
  BatchEnds
CHECK_DEADLOCK FALSE
