SPECIFICATION Spec
CONSTANTS
  Structs = {"Point", "Pair"}
  Names <- MCNames
  Nodes <- MCNodes
  Statements <- MCStatements
  Inputs = {0, 3}
  MaxStatements = 4
  MaxEdge = 1
  MaxCalls = 2
INVARIANTS
  TypeOK
  SlotsAgree
  PythonMeaning
  NoFault
  MistypedIsRefused
  AcceptsHonest
CHECK_DEADLOCK FALSE
