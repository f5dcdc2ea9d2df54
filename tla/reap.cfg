SPECIFICATION Spec
CONSTANTS
  ThreadCount = 2
  Callers = {c1, c2}
  Reapers = {r1}
  None = None
SYMMETRY CallerSymmetry
CHECK_DEADLOCK FALSE
INVARIANTS AssertionsHold
PROPERTY ImplementsParallelCall
