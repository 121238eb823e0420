SPECIFICATION QueuesSpec
CONSTANTS
  Params <- AllParams
  MaxQueued = 4
  Packets <- MCPackets
  Nothing <- MCNothing
  PACKET_SIZE = 3
  PIE_PACKET_SIZE = 2
  WordRange = 100000
  UnsignedRange = 100000
  DQ_THRESHOLD = 4
  T_UPDATE = 1
  MaxMeasured = 7
  Epoch = 1
  MaxTime = 4
  MaxStepBack = 2
  MaxCount = 4
INVARIANTS
  QueuesTypeOK
  HeldWithinLimits
  FailsOnlyAsKnown
  AcceptsWhatFits
  DropsOnlyWhenMeasured
PROPERTIES
  IsLossyFifo
  DropsOnlyStandingQueue
  DropLeavesAPacket
  UpdatesKeepPace
CHECK_DEADLOCK FALSE
