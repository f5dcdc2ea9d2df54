\* Two callers, two workers and two job slots, nobody reaps the threads.
SPECIFICATION FairSpec
CONSTANTS
  ThreadCount = 2
  Callers = {c1, c2}
  Reapers = {}
  None = None
INVARIANTS ArgumentLifetime JobAccounting HandshakeInv AssertionsUnreaped
PROPERTIES SomeCallReturns CallReturns
