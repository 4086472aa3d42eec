SPECIFICATION FairSpec
CONSTANTS
  NMessages = 5
  Commands = {"copy", "move", "delete", "save", "print", "load"}
  EptValues = {2, 3, 4}
  Limits <- MCLimits
  Offsets = {0, 1}
  FileSizes = {2, 5}
  TableSize = 4
  Faulty = {"begin", "get", "insert", "delete", "fetch", "row", "open"}
  MaxFaults = 2
INVARIANTS
  NoMessageLost
  NeverTorn
  NoDuplicate
  InOrder
  Complete
  TableInBounds
  NoOpenTransactionLeft
  CopyResumes
PROPERTY
  Terminates
