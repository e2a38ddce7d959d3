SPECIFICATION FairSpec
CONSTANTS
  Cap = 3
  MaxBytes = 5
  MaxSignals = 2
  MaxSlices = 2
INVARIANTS
  InputIntact
  SignalKept
PROPERTIES
  BlockedReturns
