SPECIFICATION AnyProgramSpec
CONSTANTS
  Keys = {1, 9}
  Vals = {"v"}
  Hash <- MCHash
  HashModulus = 64
  Sizes = {8, 16}
  InitSizes = {8}
  MaxProbe = 20
  Zero = Zero
  Fill = Fill
  NoKey = NoKey
  Blocks = {b1, b2}
INVARIANTS
  UnusedSlotRemains
CHECK_DEADLOCK FALSE
