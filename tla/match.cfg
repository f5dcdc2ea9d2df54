SPECIFICATION FairSpec
CONSTANTS
  Workers = {w1, w2}
  Count = 3
  None = None
CHECK_DEADLOCK FALSE
INVARIANTS AnswerAllowed AnswerConsistent ClaimedOnce SkipsAreSound
PROPERTY EvaluationEnds
