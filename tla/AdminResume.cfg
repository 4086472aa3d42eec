SPECIFICATION Spec
CONSTANTS
  NMessages = 5
  Commands = {"move"}
  EptValues = {2}
  Limits <- MCLimits
  Offsets = {0}
  FileSizes = {5}
  TableSize = 4
  Faulty = {}
  MaxFaults = 0
INVARIANT
  ResumeMissesNothing
