SPECIFICATION Spec
CONSTANTS
  k1 = k1
  k2 = k2
  k3 = k3
  k41 = k41
  Keys <- MCKeys
  Vals = {"v"}
  Hash <- MCHash
  HashModulus = 64
  Sizes = {8, 16}
  InitSizes = {8}
  MaxProbe = 20
  Zero = Zero
  Fill = Fill
  NoKey = NoKey
SYMMETRY Interchangeable
INVARIANTS
  TypeOK
  LookupCorrect
  Inductive
  NoAbort
PROPERTIES
  ImplementsOrderedMap
  OnlyRebuildReclaims
  RebuildLeavesRoom
