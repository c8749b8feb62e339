CONSTANTS
  Threads = {t1}
  Locks = {a, b}
  Semas = {}
  MaxPri = 1
  MaxValue = 1
  Clients = {"setprio"}
  Idle = Idle
  NoLock = NoLock
SPECIFICATION Spec
INVARIANTS NeverBelowOwn
SYMMETRY Symmetry
CHECK_DEADLOCK FALSE
