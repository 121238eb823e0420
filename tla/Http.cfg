SPECIFICATION Spec
CONSTANTS
  Actions = {1, 2, 3, 4}
  UInt32Range = 100
  Scripts <- MCScripts
INVARIANTS
  FramedAsSent
  PairsMatch
PROPERTIES
  EveryExchangeRecorded
CHECK_DEADLOCK FALSE
