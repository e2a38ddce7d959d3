CONSTANTS
  THRESHOLD = 4
  Patience = 2
SPECIFICATION FileSpec
INVARIANT FileLinesReadOnce
CHECK_DEADLOCK FALSE
