SPECIFICATION MCSpec
CONSTANTS
  Limit = 2
  CountMax = 5
INVARIANTS BootSafe 
PROPERTIES LoopEnds PeriodicEnds
CHECK_DEADLOCK FALSE
