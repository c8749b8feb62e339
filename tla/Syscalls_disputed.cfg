CONSTANTS
  Procs = {p, q}
  Files = {f}
  Pages = {u}
  Value = {x}
  MaxDesc = 1
  None = None
SPECIFICATION Spec
INVARIANTS NeverAstray OpenersKnown NeverBroken
PROPERTY LengthKept
CHECK_DEADLOCK FALSE
