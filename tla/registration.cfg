SPECIFICATION Spec
CONSTANTS
  Systems = {"linux", "macos", "windows"}
  Types = {"gz", "tgz"}
  Outer <- OuterOf
  Others = {"other", "system"}
  Picks = {"other"}
  Builtin = "system"
  Rival <- RivalOf
INVARIANTS
  PreviousKept
  NothingDangles
  RemovedIsGone
