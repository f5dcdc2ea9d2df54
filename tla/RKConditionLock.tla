---------------------------- MODULE RKConditionLock ----------------------------
(***************************************************************************)
(* RKLock.m, RKConditionLock: a lock with a condition, made of a pthread   *)
(* mutex and a pthread condition variable.  RKFastConditionLock tests the  *)
(* state once without the mutex when it only tries, then with it, and      *)
(* sleeps on the condition variable until the lock is free under the       *)
(* condition asked for or the time limit has passed.                       *)
(* RKFastConditionUnlock stores the new condition and wakes the sleepers.  *)
(*                                                                         *)
(* An exception leaves the function between the mutex's lock and its       *)
(* unlock: the mutex stays with the thread whose call raised.              *)
(***************************************************************************)
EXTENDS LockCallers

CONSTANTS
  Conditions,
  AnyCondition      \* lockOnAnyCondition: lockOnCondition is not looked at

ASSUME ConditionLockAssumption ==
  /\ AnyCondition \notin Conditions
  /\ None \notin [want : Conditions \cup {AnyCondition}, mayFail : BOOLEAN]

\* RKConditionLockStrategy, without the condition: wait, try once
\* (tryToLock), or wait with a time limit (canTimeOut).  A request by -tryLock is
\* of a kind of its own, but its strategy is that of -lock: it waits.
Kinds == {"wait", "tryLock", "try", "timed"}

VARIABLES
  mutex,                 \* the owner of pthreadMutex
  conditionIsLocked,
  lockOwner,             \* stays what it was when the lock is given back
  currentLockCondition,
  want,                  \* lockOnCondition and unlockWithCondition
  kind,                  \* conditionLockStrategy
  lockTimedOut,
  raised                 \* the threads a call of which raised an exception

stateVars == <<conditionIsLocked, lockOwner, currentLockCondition>>
localVars == <<want, kind, lockTimedOut>>
conditionVars == <<mutex, stateVars, pc, localVars, raised>>

ConditionInit ==
  /\ mutex = None
  /\ conditionIsLocked = FALSE
  /\ lockOwner = None
  /\ currentLockCondition \in Conditions
  /\ pc = [t \in Threads |-> "idle"]
  /\ want = [t \in Threads |-> AnyCondition]
  /\ kind = [t \in Threads |-> "wait"]
  /\ lockTimedOut = [t \in Threads |-> FALSE]
  /\ raised = {}

\* A call returns, or raises, and its locals are gone.
Leave(t, from) ==
  /\ Goto(t, from, "idle")
  /\ want' = [want EXCEPT ![t] = AnyCondition]
  /\ kind' = [kind EXCEPT ![t] = "wait"]
  /\ lockTimedOut' = [lockTimedOut EXCEPT ![t] = FALSE]

Wanted(t) == want[t] \in {AnyCondition, currentLockCondition}
Available(t) == ~conditionIsLocked /\ Wanted(t)

-------------------------------------------------------------------------------
\* RKFastConditionLock

LockOnCondition(t, c, k) ==
  /\ k = "tryLock" => c = AnyCondition
  /\ Goto(t, "idle", IF k = "try" THEN "peekLocked" ELSE "lockMutex")
  /\ want' = [want EXCEPT ![t] = c]
  /\ kind' = [kind EXCEPT ![t] = k]
  /\ lockTimedOut' = [lockTimedOut EXCEPT ![t] = FALSE]
  /\ UNCHANGED <<mutex, stateVars, raised>>

\* A try looks at the lock before it takes the mutex, one word at a time.
PeekLocked(t) ==
  /\ IF conditionIsLocked
     THEN Leave(t, "peekLocked")
     ELSE Goto(t, "peekLocked", "peekCondition") /\ UNCHANGED localVars
  /\ UNCHANGED <<mutex, stateVars, raised>>

PeekCondition(t) ==
  /\ IF Wanted(t)
     THEN Goto(t, "peekCondition", "lockMutex") /\ UNCHANGED localVars
     ELSE Leave(t, "peekCondition")
  /\ UNCHANGED <<mutex, stateVars, raised>>

LockMutex(t) ==
  /\ Goto(t, "lockMutex", "test")
  /\ mutex = None
  /\ mutex' = t
  /\ UNCHANGED <<stateVars, localVars, raised>>

\* pthread_mutex_trylock returns EBUSY.
TryMutexBusy(t) ==
  /\ Leave(t, "lockMutex")
  /\ kind[t] = "try"
  /\ mutex # None
  /\ UNCHANGED <<mutex, stateVars, raised>>

\* pthread_mutex_lock returns EDEADLK to the thread that has the mutex.
MutexDeadlock(t) ==
  /\ \/ Leave(t, "lockMutex") /\ kind[t] # "try"
     \/ Leave(t, "unlockMutex")
  /\ mutex = t
  /\ raised' = raised \cup {t}
  /\ UNCHANGED <<mutex, stateVars>>

\* The thread has the lock already: the exception leaves the mutex locked.
AlreadyLocked(t) ==
  /\ Leave(t, "test")
  /\ conditionIsLocked
  /\ lockOwner = t
  /\ raised' = raised \cup {t}
  /\ UNCHANGED <<mutex, stateVars>>

\* The lock is not to be had: a try, or a wait that has timed out, gives up.
TurnDown(t) ==
  /\ Goto(t, "test", "release")
  /\ ~(conditionIsLocked /\ lockOwner = t)
  /\ \/ kind[t] = "try" /\ ~Available(t)
     \/ lockTimedOut[t]
  /\ UNCHANGED <<mutex, stateVars, localVars, raised>>

\* Mutant: tryToLock is not looked at, and a try waits like any other request.
WaitEvenToTry(t) ==
  /\ Goto(t, "test", "sleep")
  /\ ~(conditionIsLocked /\ lockOwner = t)
  /\ ~Available(t)
  /\ ~lockTimedOut[t]
  /\ mutex' = None
  /\ UNCHANGED <<stateVars, localVars, raised>>

\* pthread_cond_wait, pthread_cond_timedwait: wait and give the mutex back.
Wait(t) ==
  /\ Goto(t, "test", "sleep")
  /\ ~(conditionIsLocked /\ lockOwner = t)
  /\ ~Available(t)
  /\ kind[t] # "try"
  /\ ~lockTimedOut[t]
  /\ mutex' = None
  /\ UNCHANGED <<stateVars, localVars, raised>>

\* A sleeper may wake up without being woken.
SpuriousWakeup(t) ==
  /\ Goto(t, "sleep", "reacquire")
  /\ UNCHANGED <<mutex, stateVars, localVars, raised>>

TimeOut(t) ==
  /\ Goto(t, "sleep", "reacquire")
  /\ kind[t] = "timed"
  /\ lockTimedOut' = [lockTimedOut EXCEPT ![t] = TRUE]
  /\ UNCHANGED <<mutex, stateVars, want, kind, raised>>

\* Mutant: an awakened thread does not test the lock again.
ReacquireAndTake(t) ==
  /\ Goto(t, "reacquire", IF lockTimedOut[t] THEN "test" ELSE "release")
  /\ mutex = None
  /\ mutex' = t
  /\ IF lockTimedOut[t]
     THEN UNCHANGED stateVars
     ELSE /\ conditionIsLocked' = TRUE
          /\ lockOwner' = t
          /\ UNCHANGED currentLockCondition
  /\ UNCHANGED <<localVars, raised>>

\* The wait returns with the mutex, and the while loop tests again.
Reacquire(t) ==
  /\ Goto(t, "reacquire", "test")
  /\ mutex = None
  /\ mutex' = t
  /\ UNCHANGED <<stateVars, localVars, raised>>

\* The condition stored is the one asked for, hence the one it has.
Take(t) ==
  /\ Goto(t, "test", "release")
  /\ Available(t)
  /\ ~lockTimedOut[t]
  /\ conditionIsLocked' = TRUE
  /\ lockOwner' = t
  /\ UNCHANGED <<mutex, currentLockCondition, localVars, raised>>

\* The end of both functions.
ReleaseMutex(t) ==
  /\ Leave(t, "release")
  /\ mutex' = None
  /\ UNCHANGED <<stateVars, raised>>

-------------------------------------------------------------------------------
\* RKFastConditionUnlock with RKConditionUnlockAndWakeAll, the only strategy
\* a caller passes.

UnlockWithCondition(t, c) ==
  /\ Goto(t, "idle", "unlockMutex")
  /\ want' = [want EXCEPT ![t] = c]
  /\ UNCHANGED <<mutex, stateVars, kind, lockTimedOut, raised>>

UnlockMutex(t) ==
  /\ Goto(t, "unlockMutex", "unlockOwner")
  /\ mutex = None
  /\ mutex' = t
  /\ UNCHANGED <<stateVars, localVars, raised>>

\* Not locked, or by somebody else: the exception leaves the mutex locked.
IllegalUnlock(t) ==
  /\ Leave(t, "unlockOwner")
  /\ ~(conditionIsLocked /\ lockOwner = t)
  /\ raised' = raised \cup {t}
  /\ UNCHANGED <<mutex, stateVars>>

\* conditionIsLocked = NO; a try that peeks sees it before the new condition.
GiveBack(t) ==
  /\ Goto(t, "unlockOwner", "unlockCondition")
  /\ conditionIsLocked
  /\ lockOwner = t
  /\ conditionIsLocked' = FALSE
  /\ UNCHANGED <<mutex, lockOwner, currentLockCondition, localVars, raised>>

\* Mutant: RKConditionUnlockAndWakeNone.
SetConditionWakeNone(t) ==
  /\ Goto(t, "unlockCondition", "release")
  /\ currentLockCondition' = want[t]
  /\ UNCHANGED <<mutex, conditionIsLocked, lockOwner, localVars, raised>>

\* The new condition, and pthread_cond_broadcast.
SetCondition(t) ==
  /\ t \in At("unlockCondition")
  /\ currentLockCondition' = want[t]
  /\ pc' = [s \in Threads |-> IF s = t THEN "release"
                              ELSE IF s \in At("sleep") THEN "reacquire" ELSE pc[s]]
  /\ UNCHANGED <<mutex, conditionIsLocked, lockOwner, localVars, raised>>

-------------------------------------------------------------------------------
\* What a thread does by itself once it has called one of the two functions.
ConditionProgress(t) ==
  \/ PeekLocked(t) \/ PeekCondition(t) \/ TryMutexBusy(t) \/ MutexDeadlock(t)
  \/ AlreadyLocked(t) \/ TurnDown(t) \/ Wait(t) \/ TimeOut(t) \/ Take(t)
  \/ ReleaseMutex(t) \/ IllegalUnlock(t) \/ GiveBack(t) \/ SetCondition(t)

TakesMutex(t) == LockMutex(t) \/ Reacquire(t) \/ UnlockMutex(t)

Calls(t) ==
  \/ \E c \in Conditions \cup {AnyCondition}, k \in Kinds : LockOnCondition(t, c, k)
  \/ \E c \in Conditions : UnlockWithCondition(t, c)

ConditionNext ==
  \E t \in Threads : Calls(t) \/ ConditionProgress(t) \/ TakesMutex(t) \/ SpuriousWakeup(t)

ConditionSpec == ConditionInit /\ [][ConditionNext]_conditionVars

\* The system runs every thread and hands a mutex that is released again and
\* again to every thread that waits for it.  The time limit is a point in time:
\* a thread that keeps going back to sleep is past it in the end.
ConditionFairSpec ==
  /\ ConditionSpec
  /\ \A t \in Threads :
       /\ WF_conditionVars(ConditionProgress(t))
       /\ SF_conditionVars(TakesMutex(t))
       /\ SF_conditionVars(TimeOut(t))

-------------------------------------------------------------------------------
\* The values each variable may have.
ConditionTypeOK ==
  /\ mutex \in Threads \cup {None}
  /\ conditionIsLocked \in BOOLEAN
  /\ lockOwner \in Threads \cup {None}
  /\ currentLockCondition \in Conditions
  /\ pc \in [Threads -> {"idle", "peekLocked", "peekCondition", "lockMutex", "test",
                         "sleep", "reacquire", "release", "unlockMutex",
                         "unlockOwner", "unlockCondition"}]
  /\ want \in [Threads -> Conditions \cup {AnyCondition}]
  /\ kind \in [Threads -> Kinds]
  /\ lockTimedOut \in [Threads -> BOOLEAN]
  /\ raised \subseteq Threads

\* No thread sleeps on the condition variable while the lock is free under the
\* condition it wants: a broadcast that comes between a waiter's test and its
\* sleep, or a condition that changes without one, would leave it there for
\* good (RKThreadPool waits without a time limit for four of its conditions).
NoLostWakeup ==
  \A t \in Threads : pc[t] = "sleep" =>
    \/ ~Available(t)
    \/ \E s \in Threads : pc[s] = "unlockCondition"

\* The condition lock implements its abstract specification: mutual exclusion,
\* the lock is taken only under the condition asked for, nobody but the owner
\* changes the condition, and only a request that may fail is turned down.
Requesting(t) ==
  pc[t] \in {"peekLocked", "peekCondition", "lockMutex", "test", "sleep", "reacquire"}
MayFail(t) == kind[t] \in {"try", "timed"}
Request ==
  [t \in Threads |-> IF Requesting(t) THEN [want |-> want[t], mayFail |-> MayFail(t)]
                                      ELSE None]
GivingBack == \E t \in Threads : pc[t] = "unlockCondition"
Owner == IF conditionIsLocked \/ GivingBack THEN lockOwner ELSE None

ConditionPromise == INSTANCE ConditionLock
  WITH owner <- Owner, condition <- currentLockCondition, request <- Request,
       rejected <- raised
ImplementsConditionLock == ConditionPromise!Spec

\* As long as no call has raised, a free lock does not stay free for ever while
\* a thread waits for it under the condition it has.
NotStalled ==
  []<>(\/ raised # {}
       \/ Owner # None
       \/ \A t \in Threads : ~(Requesting(t) /\ ~MayFail(t) /\ Wanted(t)))

\* As long as no call has raised, a request whose strategy is to try or has a time
\* limit comes back, whoever has the lock.  -tryLock is none of them: it comes
\* back only once the lock is given back.
TryReturns ==
  \A t \in Threads : (Requesting(t) /\ MayFail(t)) ~> (~Requesting(t) \/ raised # {})

\* Line 589: a -tryLock comes back whoever has the lock, as its name says.  It does
\* not hold: line 591 asks with the strategy of -lock, and the caller sleeps.
TryLockReturns ==
  \A t \in Threads :
    (Requesting(t) /\ kind[t] = "tryLock") ~> (~Requesting(t) \/ raised # {})
=============================================================================
