CONSTANTS
  Threads = {t1, t2}
  Locks = {a, b}
  Semas = {s}
  MaxPri = 1
  MaxValue = 1
  Clients = {"setprio", "sleep", "exit"}
  Idle = Idle
  NoLock = NoLock
SPECIFICATION Spec
INVARIANTS OneList MutualExclusion NoLostWakeup
SYMMETRY Symmetry
CHECK_DEADLOCK FALSE
