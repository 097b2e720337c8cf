SPECIFICATION StandaloneSpec
CONSTANTS
  Keys = {1, 9}
  Vals = {"v", "w"}
  Hash <- MCHash
  HashModulus = 64
  Sizes = {8, 16}
  InitSizes = {8}
  MaxProbe = 20
  Zero = Zero
  Fill = Fill
  NoKey = NoKey
  Blocks = {b1, b2}
INVARIANTS
  AnswersMatch
  LoopInOrder
  UndefinedOnlyAfterMutation
CHECK_DEADLOCK FALSE
