SPECIFICATION LogsSpec
CONSTANTS
  t1 = t1
  t2 = t2
  Threads <- MCThreads1
  NamesLogFiles = FALSE
  MaxProcs = 2
  Pipes <- MCOnePipe
  LogBuffer = 2
  MaxLines = 2
CHECK_DEADLOCK FALSE
INVARIANT NeverPanics
