------------------------- MODULE MCRKDefaultThreadPool -------------------------
(***************************************************************************)
(* TLC instance of RKDefaultThreadPool.                                    *)
(***************************************************************************)
EXTENDS DefaultPoolReferences, TLC

Symmetry == Permutations(Threads \ {Main}) \cup Permutations(Pools)
===============================================================================
