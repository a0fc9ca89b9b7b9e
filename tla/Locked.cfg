SPECIFICATION FairSpec
CONSTANTS
  Threads = {t1, t2}
  NoThread = none
  Strings = {empty, a, b}
  Empty = empty
  IdCount = 4
  Jobs = {j1, j2}
  Nobody = none
  MaxWaits = 3
INVARIANTS TablesInverse NoUseAfterFree WaitReturnsResult
PROPERTIES InternSpec CallsReturn PromiseSpec WaitReturns
CHECK_DEADLOCK FALSE
