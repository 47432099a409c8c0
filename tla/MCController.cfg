SPECIFICATION FairSpec
CONSTANTS
  a = a
  b = b
  c = c
  Protocols = {"rest", "grpc"}
  Starters <- MCOneStarter
  Callers <- MCCallers
  KeepAlives <- MCKeepAliveOrNot
  MaxIdle = 1
  MaxStarts = 2
CHECK_DEADLOCK FALSE
INVARIANTS TypeOK CurrentBackendIsUp NoOrphan NilNeedsShutdown CleanExit
PROPERTIES RequestsEnd KeepAliveReapsGrpc OneAfterAnother
