SPECIFICATION MCSpec
CONSTANTS
  MaxStarts = 2
  MaxRequests = 2
INVARIANTS RuntimeSafe
PROPERTIES RequestsEnd PeripheralsEnd WirelessEnds
CHECK_DEADLOCK FALSE
