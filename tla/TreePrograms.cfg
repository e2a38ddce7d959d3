SPECIFICATION Spec
CONSTANTS
  Kind <- MCKind
  FirstData <- MCData
  Dev <- MCDev
  Top = 1
  FirstEntries <- MCFirst
  Spare = {9}
  MovedNames = {"b", "n"}
  Orders <- MCOrders
  Jobs <- MCJobs
  Blocks <- MCBlocks
  ReadOnly = {4}
  Fresh <- MCFresh
INVARIANTS PathsAgree ReportsRight ChangesRight CopiesRight
CHECK_DEADLOCK FALSE
