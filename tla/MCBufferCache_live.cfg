CONSTANTS
  Threads = {t1, t2}
  Sectors = {s1, s2, s3}
  Data = {d1}
  N = 2
  NoThread = NoThread
SPECIFICATION FairSpec
PROPERTY LockReleased
