CONSTANTS
  c1 = c1
  c2 = c2
  x = x
  y = y
  Commands = {c1, c2}
  Paths = {x, y}
  Outside = outside
  Vacant = Vacant
  RequestsOf <- TwoCommands
  MaxOutputs = 2
  MaxOutside = 1
SPECIFICATION OutputSpec
INVARIANTS
  FailureLeavesNothing
  CancelHeeded
  SuccessIsTrue
CHECK_DEADLOCK FALSE
