SPECIFICATION FairSpec
CONSTANTS
  ThreadCount = 1
  Callers = {c1}
  Reapers = {r1}
  None = None
CHECK_DEADLOCK FALSE
PROPERTY ReapReturns
