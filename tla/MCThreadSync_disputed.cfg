CONSTANTS
  Threads = {t1, t2, t3}
  Locks = {a}
  Semas = {s}
  MaxPri = 2
  MaxValue = 1
  Clients = {}
  Idle = Idle
  NoLock = NoLock
SPECIFICATION Spec
INVARIANTS DonationCovers NoListCorruption
SYMMETRY Symmetry
CHECK_DEADLOCK FALSE
