CONSTANTS
  Threads = {main, t1, t2}
  Pages = {p1, p2}
  Codes = {}
  Main = main
  Fail = Fail
  Nothing = Nothing
  Freed = Freed
SPECIFICATION Spec
INVARIANTS NoUseAfterFree WaitedHasExited OrphansEnd MainCanExit NoPcbLeak
CHECK_DEADLOCK FALSE
