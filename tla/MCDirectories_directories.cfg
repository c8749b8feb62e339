CONSTANTS
  a = a
  b = b
  Procs = {p, q}
  Names = {a, b}
  NSectors = 3
  NRoot = 2
  MaxOpen = 4
  Paths <- MCPaths
  Garbage = {TRUE, FALSE}
  None = None
SPECIFICATION Spec
INVARIANT EntriesLead CountsHandles ListsAll
SYMMETRY Symmetry
CHECK_DEADLOCK FALSE
