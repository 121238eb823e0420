SPECIFICATION Spec
CONSTANTS
  Capacity = 5
  Window = 3
  MaxBurst = 3
INVARIANTS
  NeverWedged
  InFlightBounded
PROPERTY FullPipeIsRead
