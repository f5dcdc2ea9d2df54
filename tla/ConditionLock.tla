----------------------------- MODULE ConditionLock -----------------------------
(***************************************************************************)
(* What RKConditionLock promises its users, and what RKThreadPool takes an *)
(* RKConditionLock to be: a lock that carries a condition.  A thread asks  *)
(* for it under a condition or under any, gets it only while nobody owns   *)
(* it and the condition is the one asked for, and gives it back with a new *)
(* condition.  Only a try, or a request with a time limit, is turned down. *)
(***************************************************************************)
CONSTANTS Threads, Conditions,
          AnyCondition,   \* the request takes the lock under whatever condition
          None            \* nobody; no request

VARIABLES owner,      \* the thread that has the lock
          condition,  \* the lock's condition
          request,    \* what each thread asks for
          rejected    \* the threads a call of which raised an exception

vars == <<owner, condition, request, rejected>>

Requests == [want : Conditions \cup {AnyCondition}, mayFail : BOOLEAN]

Init ==
  /\ owner = None
  /\ condition \in Conditions
  /\ request = [t \in Threads |-> None]
  /\ rejected = {}

Ask(t, r) ==
  /\ request[t] = None
  /\ request' = [request EXCEPT ![t] = r]
  /\ UNCHANGED <<owner, condition, rejected>>

Grant(t) ==
  /\ request[t] # None
  /\ owner = None
  /\ request[t].want \in {AnyCondition, condition}
  /\ owner' = t
  /\ request' = [request EXCEPT ![t] = None]
  /\ UNCHANGED <<condition, rejected>>

Refuse(t) ==
  /\ request[t] # None
  /\ request[t].mayFail
  /\ request' = [request EXCEPT ![t] = None]
  /\ UNCHANGED <<owner, condition, rejected>>

\* A thread that owns the lock may not ask for it again.  Once a call of its
\* has raised, nothing is promised to that thread any more.
RejectRequest(t) ==
  /\ request[t] # None
  /\ owner = t \/ t \in rejected
  /\ request' = [request EXCEPT ![t] = None]
  /\ rejected' = rejected \cup {t}
  /\ UNCHANGED <<owner, condition>>

Unlock(t, c) ==
  /\ owner = t
  /\ owner' = None
  /\ condition' = c
  /\ UNCHANGED <<request, rejected>>

\* Nor may a thread unlock what it does not own.
RejectUnlock(t) ==
  /\ owner # t \/ t \in rejected
  /\ rejected' = rejected \cup {t}
  /\ UNCHANGED <<owner, condition, request>>

Next ==
  \E t \in Threads :
    \/ \E r \in Requests : Ask(t, r)
    \/ Grant(t)
    \/ Refuse(t)
    \/ RejectRequest(t)
    \/ \E c \in Conditions : Unlock(t, c)
    \/ RejectUnlock(t)

Spec == Init /\ [][Next]_vars
=============================================================================
