CONSTANTS
  s1 = s1
  s2 = s2
  Splitters = {s1, s2}
  Readers = {r}
  Outside = outside
  NoFile = NoFile
  CleanupFails = FALSE
  MaxVolumes = 4
  MaxOutside = 1
  MaxCrashes = 1
SPECIFICATION Spec
INVARIANTS
  SettledIsOneSet
  SuccessIsWhole
SYMMETRY Commands
CHECK_DEADLOCK FALSE
