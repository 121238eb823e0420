SPECIFICATION Spec
CONSTANTS
  N = 2
  MaxStops = 2
INVARIANTS
  LeavesNoChild
PROPERTIES
  TeardownEnds
  WatchedEventsEndTheLoop
CHECK_DEADLOCK FALSE
