SPECIFICATION Spec
CONSTANTS
  PACKET_SIZE = 3
  Schedule <- Burst
  Repeats = {TRUE}
  DropsAtDequeue = FALSE
  Sizes = {2, 3}
  Never = 1000
  UIntRange = 64
  Epoch = 0
  MaxTime = 6
  MaxPackets = 3
  MaxStepBack = 0
INVARIANTS
  TypeOK
  InOrder
  RateWithinTrace
  WorkConserving
  LogAccountsForPackets
PROPERTIES
  DeliveryTimeMonotone
  LogInTimeOrder
