SPECIFICATION FairSpec
CONSTANTS
  Cap = 3
  MaxBytes = 4
  MaxRestarts = 1
INVARIANTS
  OutputIntact
PROPERTIES
  SleeperOnDataWakes
