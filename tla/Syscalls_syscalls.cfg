CONSTANTS
  Procs = {p, q}
  Files = {f}
  Pages = {u}
  Value = {x}
  MaxDesc = 1
  None = None
SPECIFICATION Spec
INVARIANT LockDiscipline FilesCounted
PROPERTY LockGivenBack WrittenBack
CHECK_DEADLOCK FALSE
