CONSTANTS
  Threads = {t1, t2, t3}
  Locks = {a, b}
  Semas = {}
  MaxPri = 2
  MaxValue = 1
  Clients = {"sleep"}
  Idle = Idle
  NoLock = NoLock
SPECIFICATION Spec
INVARIANTS RestoredCovers
SYMMETRY Symmetry
CHECK_DEADLOCK FALSE
