SPECIFICATION Spec
CONSTANTS
  a = a
  b = b
  Items <- MCItems
  Trash = Trash
  SizeModulus = 32
  MaxAllocated = 8
  InitAllocated = {0, 6}
  Steps <- MCSteps
SYMMETRY Interchangeable
INVARIANTS
  HeaderInvariants
  LiveCellsWritten
  SliceIsExact
PROPERTIES
  OnlyGrowthRunsOut
  CallsAreExact
