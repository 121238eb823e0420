SPECIFICATION FairSpec
CONSTANTS
  PACKET_SIZE = 3
  Schedule <- Sparse
  Repeats = {TRUE}
  DropsAtDequeue = FALSE
  Sizes = {2}
  Never = 1000
  UIntRange = 64
  Epoch = 0
  MaxTime = 8
  MaxPackets = 3
  MaxStepBack = 0
  delay_ms = 1
  EmptyWait = 8
  LastArrival = 0
  MaxSteps = 0
  Signals = {"SIGCONT"}
  MaxInbound = 1
  MaxLatency = 1
INVARIANT
  SiblingNotStarved
PROPERTIES
  EveryPacketLeaves
  EveryDatagramRelayed
CHECK_DEADLOCK FALSE
