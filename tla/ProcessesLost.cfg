SPECIFICATION Spec
CONSTANTS
  N = 2
  MaxStops = 0
PROPERTIES
  EitherChildEndsTheWait
CHECK_DEADLOCK FALSE
