\* Two blocks at most, one change by another program; the pipe and a batch hold
\* two, so that both fill up with the three files there are.
SPECIFICATION FairSpec
CONSTANTS
  Paths <- MCPaths
  Trees <- MCTrees
  Lengths = {1, 2}
  LinkTo <- MCLink
  Requests <- MCRequests
  PipeCap = 2
  BatchCap = 2
  MaxChanges = 1
INVARIANTS
  PayloadsAreOwn
  EveryFileIsIn
PROPERTIES
  CreationEnds
