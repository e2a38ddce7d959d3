SPECIFICATION Spec
CONSTANTS
  Lib <- Libraries
  Main = "main"
  FuncSym <- Functions_
  DataSym <- Data
  Needs <- NeedsOf
  Exports <- ExportsOf
  DataExports <- DataOf
  GotImports <- ImportsOf
  TableSize <- SizeOf
  MainTable <- TableOfMain
  MainFuncs = {"n"}
  MainData = {"e"}
  MaxTries = 3
  MaxRuns = 2
CHECK_DEADLOCK FALSE
INVARIANTS
  SlotsSound
  ExportsGood
  PointersGood
PROPERTIES
  RunRestores
