SPECIFICATION Spec
CONSTANTS
  a = a
  b = b
  c = c
  Protocols = {"grpc"}
  Starters <- MCTwoStarters
  Callers <- MCCallers
  KeepAlives <- MCKeepAlive
  MaxIdle = 1
  MaxStarts = 2
CHECK_DEADLOCK FALSE
INVARIANT NoOrphan
