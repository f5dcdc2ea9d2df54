--------------------------- MODULE MCRKConditionLock ---------------------------
\* TLC instance of RKConditionLock: threads are interchangeable, and so are
\* conditions.
EXTENDS RKConditionLock, TLC

Symmetry == Permutations(Threads) \cup Permutations(Conditions)
=============================================================================
