SPECIFICATION FairSpec
CONSTANTS
  Senders = {}
  Callbacks = {c1}
  Receives = {r1, r2}
  Capacity = 1
  DropOldest = FALSE
  MaxEvents = 2
INVARIANT EndSafe
PROPERTIES ReceiveEnds DisposedIsFreed
