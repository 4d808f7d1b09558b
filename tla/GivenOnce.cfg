SPECIFICATION MCSpec
CONSTANTS
  MaxMessages = 3
  QueueSize = 2
  Partitions = {0, 1}
  MaxOffset = 2
  Tries = 5
  Text = {"method", "AgentStopMonitor", "AgentGetState", "MonitorCrossRefID", "7", ""}
  MaxTokens = 9
  MaxStale = 2
  StackLimit = 3
  Digits = {"7", "1", "3", "4"}
  BoxTexts = {"7", "x", "quoted"}
  PlainTexts = {"7", "x"}
INVARIANT GivenOnce
CHECK_DEADLOCK FALSE
