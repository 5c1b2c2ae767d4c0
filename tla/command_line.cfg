SPECIFICATION Spec
CONSTANTS
  Inputs <- MCInputs
  Names <- MCNames
  Flags <- MCFlags
  Hints <- MCHints
  Passwords <- MCPasswords
  Foreign <- MCForeign
  NewNames <- MCNewNames
INVARIANTS
  RoundTrip
  TestedIsReadable
  SameVerdict
  Protected
