\* One thread becomes three at any moment at which it does not hold the lock.
SPECIFICATION FairSpec
CONSTANTS
  Threads = {t1, t2, t3}
  None = None
INVARIANTS UnlockMatchesLock LevelKnown
PROPERTIES ImplementsReadWriteLock WriterGetsIn
