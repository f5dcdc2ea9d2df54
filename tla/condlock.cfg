\* Any thread calls lock and unlock at any time, also when it may not.  One
\* thread owns the lock while the other sleeps, is on its way to or gives up.
SPECIFICATION ConditionFairSpec
CONSTANTS
  Threads = {t1, t2}
  Conditions = {c1, c2}
  AnyCondition = AnyCondition
  None = None
INVARIANT NoLostWakeup
PROPERTIES ImplementsConditionLock NotStalled TryReturns
\* After an exception the mutex is never released, and everyone may block.
CHECK_DEADLOCK FALSE
