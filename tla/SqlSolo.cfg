SPECIFICATION Spec
CONSTANTS
  t1 = t1
  t2 = t2
  m1 = m1
  m2 = m2
  NoThread = NoThread
  Threads <- OneThread
  UserThreads <- OneThread
  Messages <- TwoMessages
  Preloaded <- Loaded
  NStatements = 2
  Unchecked <- AllChecked
  Unpaired = TRUE
  Backend = "pgsql"
  MaxFaults = 3
  MaxOps = 4
INVARIANTS
  LockInv
  StoreInv
PROPERTY
  ImplementsStore
