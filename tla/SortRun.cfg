CONSTANTS
  THRESHOLD = 16
  Patience = 6
  MaxShort = 1
  Memory = 1
  MaxOpen = 3
  Sorting <- SortOf
  Merging <- MergeOf
SPECIFICATION MCSpec
INVARIANTS ResultRight InputsKept NoTmpLeft
CHECK_DEADLOCK FALSE
