SPECIFICATION Spec
CHECK_DEADLOCK FALSE
CONSTANTS
  Names <- MCNames
  Finds <- MCFinds
  Files <- MCFiles
  Listings <- MCListings
  Sources <- MCSources
  Formats <- MCFormats
  Default <- ZIP
  Stubs <- MCStubs
  Launches = {"manager", "extract", "here", "folder"}
  MaxTrips = 1
CONSTRAINT Bound
INVARIANTS
  SelectionIsHere
  StatusIsTrue
  PasswordForItsArchive
  
PROPERTIES
  FailureRestoresForm
