----------------------------- MODULE ParallelCall -----------------------------
(***************************************************************************)
(* What -[RKThreadPool threadFunction:argument:] promises its callers,     *)
(* with no pool, job slot or condition lock in sight.  A caller hands over *)
(* a function and an argument that lives on the caller's own stack; any    *)
(* number of threads, the caller itself included, execute the function on  *)
(* that argument; the call returns once the function has been executed at  *)
(* least once and nobody executes it any more.                             *)
(***************************************************************************)

CONSTANTS
  Callers,    \* the threads that call threadFunction:argument:
  Executors,  \* the threads that may execute a function: workers and callers
  None        \* "executes nothing"

VARIABLES
  calling,    \* the callers whose call has not returned
  ran,        \* the callers whose function has been executed to its end
  executing   \* the caller on whose argument each executor works, or None

vars == <<calling, ran, executing>>

Init ==
  /\ calling = {}
  /\ ran = {}
  /\ executing = [e \in Executors |-> None]

Call(c) ==
  /\ c \notin calling
  /\ calling' = calling \cup {c}
  /\ UNCHANGED <<ran, executing>>

Begin(e, c) ==
  /\ c \in calling
  /\ executing[e] = None
  /\ executing' = [executing EXCEPT ![e] = c]
  /\ UNCHANGED <<calling, ran>>

End(e) ==
  /\ executing[e] # None
  /\ executing' = [executing EXCEPT ![e] = None]
  /\ ran' = ran \cup {executing[e]}
  /\ UNCHANGED calling

Return(c) ==
  /\ c \in calling
  /\ c \in ran
  /\ \A e \in Executors : executing[e] # c
  /\ calling' = calling \ {c}
  /\ ran' = ran \ {c}
  /\ UNCHANGED executing

Next ==
  \/ \E c \in Callers : Call(c) \/ Return(c)
  \/ \E e \in Executors, c \in Callers : Begin(e, c)
  \/ \E e \in Executors : End(e)

Spec == Init /\ [][Next]_vars
===============================================================================
