SPECIFICATION Spec
CONSTANTS
  b1 = b1
  b2 = b2
  b3 = b3
  b4 = b4
  b5 = b5
  Blocks <- MCBlocks
  StateVars <- MCStateVars
  Constants <- MCConstants
  UserNames = {"t", "u"}
  Null = Null
  MaxStatements = 3
SYMMETRY Interchangeable
INVARIANTS
  NoUseAfterFree
  SlotsOwnTheState
  NamesKeepTheirMeaning
CHECK_DEADLOCK FALSE
