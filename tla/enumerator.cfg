SPECIFICATION Spec
CONSTANTS
  Word = 64
  INT_MAX = 15
  captureCount = 4
  Strings <- MCStrings
  Regexes <- MCRegexes
  Names <- MCNames
  InitRanges <- MCInitRanges
  None = None
\* An enumerator that is exhausted can only be deallocated.
CHECK_DEADLOCK FALSE
INVARIANTS RangesAgree NamedRange
PROPERTY MatchesInOrder
