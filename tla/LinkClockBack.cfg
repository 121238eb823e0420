SPECIFICATION Spec
CONSTANTS
  PACKET_SIZE = 3
  Schedule <- ZeroStart
  Repeats = {TRUE, FALSE}
  DropsAtDequeue = TRUE
  Sizes = {1, 3, 4}
  Never = 1000
  UIntRange = 64
  Epoch = 1
  MaxTime = 4
  MaxPackets = 3
  MaxStepBack = 2
INVARIANTS
  NeverAborts
  OpportunitiesMatchTrace
CHECK_DEADLOCK FALSE
