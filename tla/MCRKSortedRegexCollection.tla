----------------------- MODULE MCRKSortedRegexCollection -----------------------
\* TLC instances of RKSortedRegexCollection.  The callers are interchangeable.
EXTENDS RKSortedRegexCollection, TLC

CONSTANTS high, low, other, zero

\* Two objects that different regexes match, and one that nothing matches and
\* that shares a bucket with the second.
MCObjects == {high, low, other}
MCHash == high :> 1 @@ low :> 4 @@ other :> 2
MCMatching == high :> {1, 2} @@ low :> {0} @@ other :> {}

\* An object whose hash is 0, as that of an NSNumber or an empty string may be.
ZeroObjects == {zero}
ZeroHash == zero :> 0
ZeroMatching == zero :> Indexes

CallerSymmetry == Permutations(Callers)
===============================================================================
