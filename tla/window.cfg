SPECIFICATION FairSpec
CONSTANTS
  Systems <- AllSystems
INVARIANTS
  ExitOnlyWhenIdle
PROPERTIES
  ClosingStartsNothing
  CancelledExitHappens
  ShellWindowCloses
CHECK_DEADLOCK FALSE
