SPECIFICATION Spec
CONSTANTS
  Start = 1
  TableMax = 3
  HostMax = 4
  Own = {1}
  Virtual = {9}
  MaxCalls = 5
  MaxDepth = 1
  MaxKids = 2
CHECK_DEADLOCK FALSE
INVARIANTS
  FilesKept
  OthersKept
  NothingForgotten
