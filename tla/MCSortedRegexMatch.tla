------------------------- MODULE MCSortedRegexMatch -------------------------
\* TLC instance of SortedRegexMatch: the threads are interchangeable, as far as
\* the invariants go.
EXTENDS SortedRegexMatch, TLC

WorkerSymmetry == Permutations(Workers)
=============================================================================
