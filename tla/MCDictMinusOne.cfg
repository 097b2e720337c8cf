SPECIFICATION StandaloneSpec
CONSTANTS
  Keys <- KeysWithMinusOne
  Vals = {"v"}
  Hash <- MCHash
  HashModulus = 64
  Sizes = {8, 16}
  InitSizes = {8}
  MaxProbe = 20
  Zero = Zero
  Fill = Fill
  NoKey = NoKey
  Blocks = {b1, b2}
INVARIANTS
  IntKeysInsertable
CHECK_DEADLOCK FALSE
