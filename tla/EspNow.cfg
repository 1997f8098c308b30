SPECIFICATION FairSpec
CONSTANTS
  Capacity = 1
  DropOldest = TRUE
  Limits <- OneSend
PROPERTY TimedOutSendEnds
CHECK_DEADLOCK FALSE
