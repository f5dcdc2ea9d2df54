---- MODULE MCRKThreadPool ----
\* TLC instance of RKThreadPool: the callers are interchangeable.
EXTENDS RKThreadPool, TLC

CallerSymmetry == Permutations(Callers)
====
