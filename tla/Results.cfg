SPECIFICATION FairSpec
CONSTANTS
  t1 = t1
  t2 = t2
  NoThread = NoThread
  Threads <- BothThreads
  Backends <- AllBackends
  NIdents = 2
  MaxFaults = 2
  MaxCalls = 4
CHECK_DEADLOCK FALSE
INVARIANTS
  DatabaseUsable
  
  
PROPERTY
  DeletionEnds
