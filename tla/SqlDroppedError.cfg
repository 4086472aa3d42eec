SPECIFICATION Spec
CONSTANTS
  t1 = t1
  t2 = t2
  m1 = m1
  m2 = m2
  NoThread = NoThread
  Threads <- OneThread
  UserThreads <- NoThreads
  Messages <- TwoMessages
  Preloaded <- Loaded
  NStatements = 2
  Unchecked <- LastUnchecked
  Unpaired = FALSE
  Backend = "pgsql"
  MaxFaults = 1
  MaxOps = 1
INVARIANT
  SuccessIsDurable
