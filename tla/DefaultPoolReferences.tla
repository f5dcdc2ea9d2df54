------------------------- MODULE DefaultPoolReferences -------------------------
(***************************************************************************)
(* Who keeps the objects of RKDefaultThreadPool alive.                     *)
(***************************************************************************)
EXTENDS RKDefaultThreadPool

\* How many there are of a[t] things of each t, all told.
Tokens(a) == UNION {{t} \X (1..a[t]) : t \in DOMAIN a}
Total(a) == Cardinality(Tokens(a))

\* The releases of p that autorelease pools hold, and the references of threads.
Pending(p) == Total([t \in Threads |-> autoreleased[t][p]])
Reaping(p) == Cardinality({t \in Threads : pc[t] = "reap" /\ currentPool[t] = p})
Accounted(p) == Pending(p) + threadCount[p] + Reaping(p)

\* Every reference to a pool has someone who gives it back: its own threads, an
\* autorelease pool, the thread that reaps it; and the default pool has one more,
\* or a thread is about to retain it.  So a pool without threads that lost the
\* race, or was replaced, goes away with the autorelease pools that hold it.
ReferencesExact ==
  ~allocationFailed =>
    \A p \in Pools : retainCount[p] # 0 =>
      retainCount[p] = Accounted(p) + (IF p = Default /\ ~WillRetain THEN 1 ELSE 0)

\* The default pool outlives the autorelease pools of those who made it: it is
\* never deallocated while it is the default pool.  A pool that cannot be made
\* endangers it only where there is one processor: the pool without threads that
\* was taken away may be taken for the one made later at its address.  And unless
\* there is no memory a caller is given a pool: the one it read last has not been
\* taken away.
DefaultPoolAlive ==
  /\ Default # NULL /\ (allocationFailed => Processors > 1) => retainCount[Default] > 0
  /\ \A t \in Threads : pc[t] = "using" /\ ~allocationFailed => currentPool[t] # NULL
===============================================================================
