SPECIFICATION FairSpec
CONSTANTS
  t1 = t1
  t2 = t2
  m1 = m1
  m2 = m2
  NoThread = NoThread
  Threads <- BothThreads
  UserThreads <- NoThreads
  Messages <- TwoMessages
  Preloaded <- Loaded
  NStatements = 2
  Unchecked <- FirstUnchecked
  Unpaired = FALSE
  Backend = "mysql"
  MaxFaults = 1
  MaxOps = 1
PROPERTY
  CallsReturn
CHECK_DEADLOCK FALSE
