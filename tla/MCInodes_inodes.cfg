CONSTANTS
  NSectors = 13
  NDirect = 1
  NIndex = 2
  NBytes = 2
  Value = {1}
  Lengths = {3}
  Writes <- MCWrites
  MaxOpen = 2
  MaxFiles = 2
SPECIFICATION Spec
INVARIANT NoSharedSector NoLostSector
PROPERTY ImplementsStore
CHECK_DEADLOCK FALSE
