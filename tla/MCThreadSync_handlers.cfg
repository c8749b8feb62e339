CONSTANTS
  Threads = {t1, t2, t3}
  Locks = {a}
  Semas = {}
  MaxPri = 1
  MaxValue = 1
  Clients = {"sleep", "exit"}
  Idle = Idle
  NoLock = NoLock
SPECIFICATION Spec
INVARIANTS NoDanglingHolder ReadyFrontHighest NoYieldInInterrupt
SYMMETRY Symmetry
CHECK_DEADLOCK FALSE
