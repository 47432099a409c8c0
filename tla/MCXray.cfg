SPECIFICATION FairSpec
CONSTANTS
  s1 = s1
  s2 = s2
  x1 = x1
  Syncers <- MCSyncers
  Stoppers <- MCStoppers
  MaxVersion = 2
CHECK_DEADLOCK FALSE
INVARIANTS TypeOK FailedCreateLeavesNothing AckedUsersAreServed PanicNeedsShutdown
PROPERTIES LockReleased CoreRevived SleeperExits ImplementsUserStore
