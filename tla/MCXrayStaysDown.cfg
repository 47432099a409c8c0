SPECIFICATION Spec
CONSTANTS
  s1 = s1
  s2 = s2
  x1 = x1
  Syncers <- MCNoSyncers
  Stoppers <- MCStoppers
  MaxVersion = 2
CHECK_DEADLOCK FALSE
INVARIANT StaysDown
