SPECIFICATION MCSpec
CONSTANTS
  MaxMessages = 3
  QueueSize = 2
  Partitions = {0, 1}
  MaxOffset = 2
  Tries = 5
  Text = {"method", "AgentStopMonitor", "AgentGetState", "AgentMonitorCall", "MonitorCrossRefID", "7", ""}
  MaxTokens = 9
  MaxStale = 2
  StackLimit = 3
  Digits = {"7", "1", "3", "4"}
  BoxTexts = {"7", "x", "quoted"}
  PlainTexts = {"7", "x"}
INVARIANTS TypeOK DefinedUnlessFailed AcceptedIsSettled ProducedOnce DumpedLate ReadsJson CallsWhatIsWritten ButtonsCall
PROPERTIES ProduceReturns ClearedForGood ShutsDown Answered
CHECK_DEADLOCK FALSE
