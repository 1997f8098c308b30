SPECIFICATION FairSpec
CONSTANTS
  UserSlots = 1
  Reserve = 1
  Keys = {k}
  NoKey = NoKey
  LaneLimit = 1
  ReadyLen = 1
  DispatchBatch = 1
  ReadyBatch = 1
  Kinds = {"driver"}
  MaxFutures = 2
  MaxDepth = 2
  CancelOnStack = FALSE
  SameCore = TRUE
PROPERTIES CompletedIsCollected LaneProgress TeardownEnds
