SPECIFICATION StandaloneSpec
CONSTANTS
  a = a
  b = b
  Items <- MCItems
  Trash = Trash
  SizeModulus = 32
  MaxAllocated = 5
  InitAllocated = {0}
  Steps = {1}
SYMMETRY Interchangeable
INVARIANTS
  LoopInOrder
PROPERTIES
  PythonMeaning
  PopTakesLast
