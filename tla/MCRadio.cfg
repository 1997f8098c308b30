SPECIFICATION MCSpec
CONSTANTS
  Slots = {0, 1}
  Callers = {c1, c2}
  MaxRefs = 2
  IdMax = 4
INVARIANTS MonitorInv FramesSafe RadioSafe PromiscuousSafe RawTxSafe NowSafe BleSafe
PROPERTIES IdentityGrows ConflictStays
CHECK_DEADLOCK FALSE
