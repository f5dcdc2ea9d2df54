\* A regex with one capture, and room for five instructions on the stack.
SPECIFICATION FairSpec
CONSTANTS
  Calls <- MCCalls
  CaptureCount = 2
  StackInstructions = 5
  RKReplaceAll = RKReplaceAll
  MaxMatches = 3
INVARIANTS ReplacementExact OverflowLosesFirst CopyFits InBounds
PROPERTY ReplaceEnds
