SPECIFICATION Spec
CONSTANTS
  UserSlots = 2
  Reserve = 0
  Keys = {}
  NoKey = NoKey
  LaneLimit = 1
  ReadyLen = 1
  DispatchBatch = 2
  ReadyBatch = 1
  Kinds = {"call"}
  MaxFutures = 3
  MaxDepth = 2
  CancelOnStack = TRUE
  SameCore = TRUE
INVARIANT SettledByOwn
