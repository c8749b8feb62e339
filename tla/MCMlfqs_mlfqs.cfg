CONSTANTS
  Threads = {t, u, v}
  Idle = Idle
  F = 20
  TIMER_FREQ = 2
  TIME_SLICE = 3
  PRI_MAX = 4
  Priorities = {1, 4}
  Nices = {2}
  MaxSleep = 2
  MaxTicks = 5
SPECIFICATION Spec
SYMMETRY ThreadSymmetry
INVARIANT TypeOK LoadBounded PreemptedSoon PriorityCurrent
CHECK_DEADLOCK FALSE
