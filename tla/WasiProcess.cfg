SPECIFICATION FairSpec
CONSTANTS
  MaxPid = 2
  ExitCodes = {257}
  Signals = {15}
INVARIANTS
  IInv
  WaitPidServed
PROPERTIES
  ChildTableSpec
  SleeperWakes
  KilledThreadStops
