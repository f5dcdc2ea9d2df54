SPECIFICATION Spec
CONSTANTS
  Workers = {w1, w2}
  Count = 2
  None = None
CHECK_DEADLOCK FALSE
INVARIANT AnyFound
