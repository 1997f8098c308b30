SPECIFICATION MCSpec
CONSTANTS
  Tasks = {t1, t2}
  Refs = {owner, view, source, batch}
  Owner = owner
  CountMax = 3
  NoTask = NoTask
INVARIANTS LeaseInv CsiSafe BusesSafe PortsSafe
PROPERTIES ImplementsContract CsiSteps
CHECK_DEADLOCK FALSE
