SPECIFICATION Spec
CONSTANTS
  Threads = {t1, t2}
  s1 = s1
  s2 = s2
  Strings <- MCStrings
  HashOf <- DistinctHashes
  Objects = {o1, o2, o3}
  Flags <- MCFlags
  Settable <- MCSettable
  MaxPending = 1
  None = None
SYMMETRY Symmetry
INVARIANTS CountsExact NoDangling NothingLeaked
