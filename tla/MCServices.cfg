SPECIFICATION MCSpec
CONSTANTS
  Slots = {0, 1}
  Protocols = {"tls", "listener"}
  Overlap = FALSE
  MaxOpens = 1
  MaxOps = 2
  MaxConns = 2
  MaxFaults = 1
INVARIANTS  SocketsSafe NetworkSafe HttpSafe
CHECK_DEADLOCK FALSE
