SPECIFICATION Spec
CONSTANTS
  Size = 3
  Actions = {1, 2, 3, 4}
  Room = 2
  MaxQuery = 4
  MaxReply = 1
INVARIANTS
  RelayedInOrder
  AssertsHold
  NothingLostAtExit
PROPERTIES
  EveryByteRelayed
  ThreadEnds
CHECK_DEADLOCK FALSE
