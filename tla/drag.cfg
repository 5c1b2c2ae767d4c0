CONSTANTS
  t1 = t1
  r1 = r1
  r2 = r2
  Systems = {"linux", "macos", "windows"}
  Targets = {t1}
  Nowhere = nowhere
  Roots = {r1, r2}
  NoRoot = noRoot
  MaxDrags = 2
  MaxMessages = 3
  Faults = {"clear", "broken"}
SPECIFICATION FairSpec
INVARIANTS
  ReadOnceAfterDrop
  StagingFollowsDelivery
PROPERTIES
  DragEnds
CHECK_DEADLOCK FALSE
