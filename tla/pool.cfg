SPECIFICATION PoolLiveSpec
CONSTANTS
  p1 = p1
  p2 = p2
  t1 = t1
  t2 = t2
  u1 = u1
  Processes = {p1, p2}
  Root = p1
  Threads = {t1, t2, u1}
  ProcOf <- MCProcOf
  Outer = {t1}
  MaxSize = 2
  NoPool = NoPool
  NoThread = NoThread
  CleanForks = TRUE
  MaxFaults = 2
INVARIANTS
  OnePoolPerProcess
  OwnPoolsOnly
  NothingKept
  SomeThreadGoesOn
PROPERTIES
  SomeoneReturns
