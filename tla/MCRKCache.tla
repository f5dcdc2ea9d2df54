------------------------------- MODULE MCRKCache -------------------------------
\* TLC instances of RKCache.  Threads and objects are interchangeable.
EXTENDS RKCache, TLC

CONSTANTS s1, s2

MCStrings == {s1, s2}
MCFlags == {"cache", "adding", "lookup"}
MCSettable == {"adding"}
DistinctHashes == s1 :> 1 @@ s2 :> 2
EqualHashes == s1 :> 1 @@ s2 :> 1

Symmetry == Permutations(Threads) \cup Permutations(Objects)
===============================================================================
