\* Three threads, and an address more than pools are used at a time.
SPECIFICATION Spec
CONSTANTS
  Main = main
  Threads = {main, t2, t3}
  Pools = {p1, p2, p3, p4}
  Processors = 2
  NULL = NULL
SYMMETRY Symmetry
INVARIANTS ReapedHasNoThreads ReferencesExact DefaultPoolAlive
PROPERTY DefaultPoolStays
