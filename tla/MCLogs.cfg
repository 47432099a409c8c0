SPECIFICATION LogsFairSpec
CONSTANTS
  t1 = t1
  t2 = t2
  Threads <- MCThreads1
  NamesLogFiles = FALSE
  MaxProcs = 1
  Pipes <- MCPipes
  LogBuffer = 2
  MaxLines = 2
CHECK_DEADLOCK FALSE
INVARIANTS LogsTypeOK LateLinesBounded ChannelFaithful PanicNeedsStop
PROPERTIES PipeDrains CapturesEnd
