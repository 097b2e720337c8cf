SPECIFICATION Spec
CONSTANTS
  b1 = b1
  b2 = b2
  b3 = b3
  b4 = b4
  b5 = b5
  Blocks <- MCBlocks
  StateVars <- MCStateVars
  Constants <- MCConstants
  UserNames = {"t"}
  Null = Null
  MaxStatements = 1
INVARIANTS
  StopReleases
CHECK_DEADLOCK FALSE
