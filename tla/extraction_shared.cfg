CONSTANTS
  p1 = p1
  p2 = p2
  w1 = w1
  w2 = w2
  w3 = w3
  Procs = {p1, p2}
  Writers = {w1, w2, w3}
  ProcOf <- TwoAndOne
  Leaves = {a}
  Outside = outside
  NoFile = NoFile
  HardLinks = FALSE
  CleanupFails = TRUE
  MaxCalls = 1
  MaxSerial = 1
  MaxOutside = 1
  MaxCrashes = 1
SPECIFICATION Spec
INVARIANTS
  OwnTemp
PROPERTIES
  ImplementsAtomicOutput
SYMMETRY Threads
CHECK_DEADLOCK FALSE
