CONSTANTS
  THRESHOLD = 4
  Patience = 2
  Bits = 4
  Named <- MCNamed
  Commands <- MCCommands
  Agreed <- MCAgreed
SPECIFICATION Spec
INVARIANTS TextRight DecisionsRight ToolsRight HostRight
INVARIANTS KeysRight SortsInOrder LinesReadOnce GraphsRight
CHECK_DEADLOCK FALSE
