SPECIFICATION Spec
CONSTANTS
  UserSlots = 3
  Reserve = 0
  Keys = {k}
  NoKey = NoKey
  LaneLimit = 1
  ReadyLen = 1
  DispatchBatch = 1
  ReadyBatch = 1
  Kinds = {"driver"}
  MaxFutures = 3
  MaxDepth = 1
  CancelOnStack = FALSE
  SameCore = TRUE
INVARIANT OperationsOwned
PROPERTIES NativeOutlives DriverSteps
