CONSTANTS
  Threads = {main, t1, t2}
  Pages = {p1, p2}
  Codes = {k}
  Main = main
  Fail = Fail
  Nothing = Nothing
  Freed = Freed
SPECIFICATION FairSpec
INVARIANT PcbNotStolen OneFreer
PROPERTIES ContractSpec WaitAnswered ExecReturns
CHECK_DEADLOCK FALSE
