SPECIFICATION FerrySpec
CONSTANTS
  PACKET_SIZE = 3
  Schedule <- Sparse
  Repeats = {TRUE, FALSE}
  DropsAtDequeue = FALSE
  Sizes = {2, 3}
  Never = 1003
  UIntRange = 4
  Epoch = 0
  MaxTime = 4
  MaxPackets = 2
  MaxStepBack = 1
  delay_ms = 1
  EmptyWait = 1
  LastArrival = 3
  MaxSteps = 1
  Signals = {"SIGCONT", "SIGCHLD", "SIGHUP", "SIGTERM"}
  MaxInbound = 0
  MaxLatency = 1
INVARIANTS
  FerryTypeOK
  EndToEndOrder
  DelayRespected
  LinkNeverFails
  NeverOversleeps
CHECK_DEADLOCK FALSE
