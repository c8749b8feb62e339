CONSTANTS
  NSectors = 13
  NDirect = 1
  NIndex = 2
  NBytes = 2
  Value = {1}
  Lengths = {3}
  Writes <- MCZeroWrites
  MaxOpen = 2
  MaxFiles = 2
SPECIFICATION Spec
PROPERTY ZeroWrite
CHECK_DEADLOCK FALSE
