SPECIFICATION FairSpec
CONSTANTS
  t1 = t1
  t2 = t2
  Threads <- MCThreads
  NamesLogFiles = TRUE
  MaxProcs = 3
INVARIANTS TypeOK OneProcess ContextFollowsProcess RestartExclusive
PROPERTIES RestartEnds ImplementsSupervisor
