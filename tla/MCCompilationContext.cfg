SPECIFICATION FairContextSpec
CONSTANTS
  Threads = {t1, t2}
  Configs = {"default", "override"}
  Default = "default"
  Invalid = "invalid"
  None = None
  MaxCalls = 3
  MaxOperations = 4
  Contexts = {c1}
  DefaultTypes <- MCDefaultTypes
  DefaultCategories <- MCDefaultCategories
  ExtensionType = "ClientType"
  ExtensionCategory <- MCExtensionCategory
  Methods = {"f", "g"}
INVARIANTS
  ContextTypeOK
  LazyDefaults
  CategoriesDistinct
  FrameworkPrefix
PROPERTIES
  ImplementsWriteOnce
  LeavingRestores
  LookupsAreSafe
  OperationsEnd
CHECK_DEADLOCK FALSE
