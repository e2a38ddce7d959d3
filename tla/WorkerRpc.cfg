SPECIFICATION FairSpec
CONSTANTS
  Call = {c1, c2, c3}
  MaxWorkers = 2
CHECK_DEADLOCK FALSE
INVARIANTS
  OwnReply
  WaitsOnLiveWorker
PROPERTIES
  CallSettles
  InitSettles
