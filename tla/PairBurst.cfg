SPECIFICATION Spec
CONSTANTS
  Capacity = 2
  Window = 3
  MaxBurst = 3
PROPERTY FullPipeIsRead
CHECK_DEADLOCK FALSE
