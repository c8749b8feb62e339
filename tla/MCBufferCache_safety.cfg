CONSTANTS
  Threads = {t1, t2}
  Sectors = {s1, s2, s3}
  Data = {d1, d2}
  N = 2
  NoThread = NoThread
SPECIFICATION Spec
INVARIANTS OneSlotPerSector CleanMatchesDisk
PROPERTIES StoreSpec ClockEnds
