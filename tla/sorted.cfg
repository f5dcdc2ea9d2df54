SPECIFICATION Spec
CONSTANTS
  Callers = {c1, c2}
  Count = 3
  IsArray = TRUE
  Threads = 1
  high = high
  low = low
  other = other
  zero = zero
  Objects <- MCObjects
  Hash <- MCHash
  Matching <- MCMatching
  Buckets = 2
  MaxHits = 2
  None = None
SYMMETRY CallerSymmetry
INVARIANTS InversionsNoticed PositionStable SnapshotComplete NullJustified
