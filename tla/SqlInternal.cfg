SPECIFICATION FairSpec
CONSTANTS
  t1 = t1
  t2 = t2
  m1 = m1
  m2 = m2
  NoThread = NoThread
  Threads <- BothThreads
  UserThreads <- NoThreads
  Messages <- TwoMessages
  Preloaded <- Loaded
  NStatements = 2
  Unchecked <- AllChecked
  Unpaired = FALSE
  Backend = "mysql"
  MaxFaults = 2
  MaxOps = 2
INVARIANTS
  TypeOK
  MutexBalanced
  FreeMutexSettled
  WholeMessages
  QueriesInsideTransaction
  ReadsCutOnce
  SuccessIsDurable
  FailureLeavesNothing
PROPERTIES
  ImplementsStore
  CallsReturn
