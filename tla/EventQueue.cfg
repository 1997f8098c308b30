SPECIFICATION Spec
CONSTANTS
  Senders = {s1}
  Callbacks = {c1}
  Receives = {r1}
  Capacity = 1
  DropOldest = TRUE
  MaxEvents = 3
INVARIANT QueueSafe
