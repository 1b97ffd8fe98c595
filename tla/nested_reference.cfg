SPECIFICATION Spec
CONSTANTS
  Threads = {t1, t2}
  Primary = t1
  NoThread = none
  Modules <- PairModules
  Main = "exe"
  Imports <- PairImports
  Forward <- PairForward
  Entries = {"base", "plug"}
  TlsModules = {"plug"}
  Calls <- PairCalls
  MaxExplicit = 2
  MaxOperations = 2
CHECK_DEADLOCK FALSE
PROPERTIES NestedReferencesSurvive
