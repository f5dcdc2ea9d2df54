----------------------------- MODULE ReadWriteLock -----------------------------
(***************************************************************************)
(* What RKReadWriteLock promises its users, and what RKCache and           *)
(* RKSortedRegexCollection take it to be: any number of threads may hold   *)
(* it for reading, or one for writing.  A request may be turned down.      *)
(***************************************************************************)
CONSTANT Threads

VARIABLE holding  \* what each thread holds the lock for

Levels == {"none", "read", "write"}

Init == holding = [t \in Threads |-> "none"]

Acquire(t, level) ==
  /\ holding[t] = "none"
  /\ level # "none"
  /\ \A u \in Threads : holding[u] # "write" /\ (level = "write" => holding[u] = "none")
  /\ holding' = [holding EXCEPT ![t] = level]

Release(t) ==
  /\ holding[t] # "none"
  /\ holding' = [holding EXCEPT ![t] = "none"]

Next == \E t \in Threads : Release(t) \/ \E level \in Levels : Acquire(t, level)

Spec == Init /\ [][Next]_holding
===============================================================================
