------------------------------- MODULE LockCallers ------------------------------
(***************************************************************************)
(* RKLock.m: what its two locks have in common.  Any number of threads     *)
(* call the functions of a lock; each is at one of the points where the    *)
(* function touches the lock, or outside of it.                            *)
(***************************************************************************)
CONSTANTS
  Threads,
  None      \* no thread; no call

ASSUME LockAssumption == None \notin Threads

VARIABLE pc  \* where each thread is

\* The threads at a point of a function, such as those a pthread function has put
\* to sleep (RKLock.m:375).
At(point) == {thread \in Threads : pc[thread] = point}

\* A thread goes on to another point of a function, and no other thread moves.
Goto(t, here, there) ==
  /\ t \in At(here)
  /\ pc' = [thread \in Threads |-> IF thread = t THEN there ELSE pc[thread]]
===============================================================================
