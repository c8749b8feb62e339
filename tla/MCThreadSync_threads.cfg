CONSTANTS
  Threads = {t1, t2, t3}
  Locks = {a}
  Semas = {s}
  MaxPri = 1
  MaxValue = 2
  Clients = {"setprio", "sleep", "exit"}
  Idle = Idle
  NoLock = NoLock
SPECIFICATION Spec
INVARIANTS OneList MutualExclusion NoLostWakeup
SYMMETRY Symmetry
CHECK_DEADLOCK FALSE
