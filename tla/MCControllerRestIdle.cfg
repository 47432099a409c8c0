SPECIFICATION FairSpec
CONSTANTS
  a = a
  b = b
  c = c
  Protocols = {"rest"}
  Starters <- MCOneStarter
  Callers <- MCCallers
  KeepAlives <- MCKeepAlive
  MaxIdle = 1
  MaxStarts = 2
CHECK_DEADLOCK FALSE
PROPERTY KeepAliveReaps
