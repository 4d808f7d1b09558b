SPECIFICATION MCSpec
CONSTANTS
  CallID = {1, 2}
  DeviceID = {x, y}
  MaxCalls = 2
  MaxDevices = 3
  Free = Free
  None = None
  Window = {w1}
  Controller = ctl
  MaxEvents = 3
  MaxNested = 2
  MaxPosted = 2
INVARIANTS TypeOK FreeRowsAreEmpty SearchesAgree BufferOwned
PROPERTIES PromiseKept EventsTaken
CHECK_DEADLOCK FALSE
