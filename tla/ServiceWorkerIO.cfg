SPECIFICATION FairSpec
CONSTANTS
  MaxInput = 2
  MaxOutput = 3
  MaxSignals = 1
  MaxReads = 2
INVARIANTS
  ReaderSound
  StreamsIntact
PROPERTIES
  DelayedWriteEnds
  SleepInterrupted
