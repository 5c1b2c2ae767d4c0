\* Every format, two versions of the archive, two operations.
CONSTANTS
  a = a
  b = b
  Names = {a, b}
  Meta = m
  Shapes <- MCShapes
  MaxVersions = 2
  MaxTasks = 2
SPECIFICATION Spec
INVARIANTS
  IndexIsOneVersion
  DeliveredIsOwn
  SuccessIsWhole
  VerifiedIsWhole
CHECK_DEADLOCK FALSE
