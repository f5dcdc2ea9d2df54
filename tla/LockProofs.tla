-------------------------------- MODULE LockProofs -----------------------------
(***************************************************************************)
(* The two locks of RKLock.m, for every set of threads: first the          *)
(* condition lock, then the read/write lock.                               *)
(***************************************************************************)
EXTENDS RKConditionLock, RKReadWriteLock, TLAPS

-------------------------------------------------------------------------------
(***************************************************************************)
(* Safety of the condition lock for every set of threads and conditions.   *)
(* The argument: who is past the mutex has it (Inside), so between a       *)
(* waiter's test and its sleep, and between the two stores of an unlock,   *)
(* no other thread changes the lock (GivingUpLock); hence no sleeper       *)
(* misses a change that would let it go.  A mutex outside of a critical    *)
(* section is one an exception left behind (Leaked).                       *)
(***************************************************************************)

Critical == {"test", "release", "unlockOwner", "unlockCondition"}

Inside == \A t \in Threads : pc[t] \in Critical => mutex = t
Leaked == \A t \in Threads : mutex = t => pc[t] \in Critical \/ t \in raised

\* An unlock has cleared conditionIsLocked and not yet stored the condition.
GivingUpLock == \A t \in Threads : pc[t] = "unlockCondition" =>
  ~conditionIsLocked /\ lockOwner = t

UnlockArgument == \A t \in Threads :
  pc[t] \in {"unlockMutex", "unlockOwner", "unlockCondition"} => want[t] \in Conditions

\* Only a try looks at the lock without the mutex; only a wait with a time
\* limit times out.
KindKnown == \A t \in Threads :
  /\ pc[t] \in {"peekLocked", "peekCondition"} => kind[t] = "try"
  /\ lockTimedOut[t] => kind[t] = "timed"

ConditionIInv ==
  /\ ConditionTypeOK
  /\ KindKnown
  /\ Inside
  /\ Leaked
  /\ GivingUpLock
  /\ UnlockArgument
  /\ NoLostWakeup

\* The lock begins free, with every thread idle.
LEMMA ConditionInitially == ConditionInit => ConditionIInv
BY LockAssumption, ConditionLockAssumption
   DEF ConditionInit, ConditionIInv, ConditionTypeOK, Kinds, Inside, Leaked, Critical, GivingUpLock,
       UnlockArgument, KindKnown, NoLostWakeup

\* The calls, and what a thread does before it has the mutex.
LEMMA ConditionOutsideStep ==
  ASSUME ConditionIInv, NEW t \in Threads,
         \/ Calls(t) \/ PeekLocked(t) \/ PeekCondition(t) \/ TryMutexBusy(t)
         \/ MutexDeadlock(t) \/ SpuriousWakeup(t) \/ TimeOut(t)
  PROVE  ConditionIInv'
<1>. USE DEF ConditionIInv
<1>1. /\ UNCHANGED <<mutex, stateVars>>
      /\ raised' \in {raised, raised \cup {t}}
      /\ \E l \in {"idle", "peekLocked", "peekCondition", "lockMutex", "reacquire",
                   "unlockMutex"} :
           /\ pc' = [pc EXCEPT ![t] = l]
           /\ l = "unlockMutex" => want'[t] \in Conditions
      /\ pc[t] \notin Critical
  BY DEF Calls, LockOnCondition, UnlockWithCondition, PeekLocked, PeekCondition,
       TryMutexBusy, MutexDeadlock,
         SpuriousWakeup, TimeOut, Goto, At, Leave, ConditionTypeOK, Critical
<1>2. /\ \E c \in Conditions \cup {AnyCondition} : want' = [want EXCEPT ![t] = c]
      /\ \E k \in Kinds : kind' = [kind EXCEPT ![t] = k]
      /\ \E b \in BOOLEAN : lockTimedOut' = [lockTimedOut EXCEPT ![t] = b]
  <2>1. /\ want = [want EXCEPT ![t] = want[t]] /\ want[t] \in Conditions \cup {AnyCondition}
        /\ kind = [kind EXCEPT ![t] = kind[t]] /\ kind[t] \in Kinds
        /\ lockTimedOut = [lockTimedOut EXCEPT ![t] = lockTimedOut[t]]
        /\ lockTimedOut[t] \in BOOLEAN
    BY DEF ConditionTypeOK
  <2>2. CASE \E c \in Conditions \cup {AnyCondition}, k \in Kinds : LockOnCondition(t, c, k)
    BY <2>2 DEF LockOnCondition
  <2>3. CASE \E c \in Conditions : UnlockWithCondition(t, c)
    BY <2>1, <2>3 DEF UnlockWithCondition
  <2>4. CASE PeekLocked(t) \/ PeekCondition(t) \/ TryMutexBusy(t) \/ MutexDeadlock(t)
    BY <2>1, <2>4 DEF PeekLocked, PeekCondition, TryMutexBusy, MutexDeadlock, Leave,
                      localVars, Kinds
  <2>5. CASE SpuriousWakeup(t) \/ TimeOut(t)
    BY <2>1, <2>5 DEF SpuriousWakeup, TimeOut, localVars
  <2>. QED  BY <2>2, <2>3, <2>4, <2>5 DEF Calls
<1>3. ConditionTypeOK'
  BY <1>1, <1>2 DEF ConditionTypeOK, stateVars
<1>4. (Inside /\ Leaked /\ GivingUpLock /\ UnlockArgument)'
  BY <1>1, <1>2 DEF ConditionTypeOK, stateVars, Inside, Leaked, Critical, GivingUpLock,
                    UnlockArgument
<1>5. NoLostWakeup'
  BY <1>1, <1>2 DEF ConditionTypeOK, stateVars, NoLostWakeup, Available, Wanted, Critical
<1>6. KindKnown'
  BY DEF Calls, LockOnCondition, UnlockWithCondition, PeekLocked, PeekCondition,
       TryMutexBusy, MutexDeadlock,
         SpuriousWakeup, TimeOut, Goto, At, Leave, ConditionTypeOK, KindKnown, localVars, Kinds
<1>. QED  BY <1>3, <1>4, <1>5, <1>6

\* The thread that takes the mutex is the only one inside its critical section.
LEMMA EnterStep ==
  ASSUME ConditionIInv, NEW t \in Threads, TakesMutex(t)
  PROVE  ConditionIInv'
<1>1. /\ UNCHANGED <<stateVars, localVars, raised>>
      /\ mutex = None /\ mutex' = t
      /\ \E l \in {"test", "unlockOwner"} : pc' = [pc EXCEPT ![t] = l]
      /\ pc'[t] = "unlockOwner" => pc[t] = "unlockMutex"
      /\ pc[t] \in {"lockMutex", "reacquire", "unlockMutex"}
  BY DEF ConditionIInv, TakesMutex, LockMutex, Reacquire, UnlockMutex, Goto, At, ConditionTypeOK
<1>2. \A s \in Threads : pc[s] \notin Critical
  BY <1>1, LockAssumption, ConditionLockAssumption DEF ConditionIInv, Inside
<1>. QED
  BY <1>1, <1>2, LockAssumption, ConditionLockAssumption
     DEF ConditionIInv, ConditionTypeOK, stateVars, localVars, Inside, Leaked, Critical, GivingUpLock,
         UnlockArgument, KindKnown, NoLostWakeup, Available, Wanted

\* What a thread does with the mutex keeps the invariant, since no other is
\* between its test and its sleep.
LEMMA InsideStep ==
  ASSUME ConditionIInv, NEW t \in Threads,
         \/ AlreadyLocked(t) \/ TurnDown(t) \/ Wait(t) \/ Take(t) \/ ReleaseMutex(t)
         \/ IllegalUnlock(t) \/ GiveBack(t) \/ SetCondition(t)
  PROVE  ConditionIInv'
<1>. USE DEF ConditionIInv
<1>0. KindKnown'
  BY DEF AlreadyLocked, TurnDown, Wait, Take, ReleaseMutex, IllegalUnlock, GiveBack,
         SetCondition, Goto, At, Leave, ConditionTypeOK, KindKnown, localVars
<1>1. /\ mutex = t
      /\ \A s \in Threads : s # t => pc[s] \notin Critical
  BY DEF AlreadyLocked, TurnDown, Wait, Take, ReleaseMutex, IllegalUnlock, GiveBack,
         SetCondition, Goto, At, Leave, Inside, Critical
<1>2. CASE AlreadyLocked(t) \/ IllegalUnlock(t) \/ ReleaseMutex(t)
  <2>1. /\ UNCHANGED stateVars
        /\ pc[t] \in Critical \ {"unlockCondition"} /\ pc' = [pc EXCEPT ![t] = "idle"]
        /\ want' = [want EXCEPT ![t] = AnyCondition]
        /\ kind' = [kind EXCEPT ![t] = "wait"]
        /\ lockTimedOut' = [lockTimedOut EXCEPT ![t] = FALSE]
        /\ \/ mutex' = None /\ UNCHANGED raised
           \/ UNCHANGED mutex /\ raised' = raised \cup {t}
    BY <1>2 DEF AlreadyLocked, IllegalUnlock, ReleaseMutex, Leave, Goto, At, ConditionTypeOK, Critical
  <2>2. ConditionTypeOK'
    BY <2>1 DEF ConditionTypeOK, Kinds, stateVars
  <2>3. (Inside /\ Leaked /\ GivingUpLock /\ UnlockArgument)'
    BY <1>1, <2>1, LockAssumption, ConditionLockAssumption
       DEF ConditionTypeOK, stateVars, Inside, Leaked, Critical, GivingUpLock, UnlockArgument
  <2>4. NoLostWakeup'
    BY <2>1 DEF ConditionTypeOK, stateVars, Critical, NoLostWakeup, Available, Wanted
  <2>. QED  BY <1>0, <2>2, <2>3, <2>4
<1>3. CASE TurnDown(t) \/ Wait(t) \/ Take(t)
  <2>1. /\ pc[t] = "test" /\ UNCHANGED <<localVars, raised, currentLockCondition>>
        /\ \E l \in {"release", "sleep"} :
             /\ pc' = [pc EXCEPT ![t] = l]
             /\ mutex' = IF l = "sleep" THEN None ELSE t
             /\ l = "sleep" => ~Available(t) /\ UNCHANGED stateVars
        /\ \/ UNCHANGED stateVars
           \/ conditionIsLocked' = TRUE /\ lockOwner' = t
    BY <1>1, <1>3 DEF TurnDown, Wait, Take, Goto, At, ConditionTypeOK, stateVars
  <2>2. ConditionTypeOK'
    BY <2>1 DEF ConditionTypeOK, stateVars, localVars
  <2>3. (Inside /\ Leaked /\ GivingUpLock /\ UnlockArgument)'
    BY <1>1, <2>1, LockAssumption, ConditionLockAssumption
       DEF ConditionTypeOK, stateVars, localVars, Inside, Leaked, Critical, GivingUpLock,
           UnlockArgument
  <2>4. NoLostWakeup'
    BY <1>1, <2>1
       DEF ConditionTypeOK, stateVars, localVars, Critical, NoLostWakeup, Available, Wanted
  <2>. QED  BY <1>0, <2>2, <2>3, <2>4
<1>4. CASE GiveBack(t)
  BY <1>0, <1>1, <1>4, LockAssumption, ConditionLockAssumption
     DEF GiveBack, Goto, At, ConditionTypeOK, localVars, Inside, Leaked, Critical, GivingUpLock,
         UnlockArgument, NoLostWakeup, Available, Wanted
<1>5. CASE SetCondition(t)
  BY <1>0, <1>1, <1>5, LockAssumption, ConditionLockAssumption
     DEF SetCondition, At, ConditionTypeOK, localVars, Inside, Leaked, Critical, GivingUpLock,
         UnlockArgument, NoLostWakeup, Available, Wanted
<1>. QED  BY <1>2, <1>3, <1>4, <1>5

\* A step that changes nothing keeps the invariant.
LEMMA ConditionStutters == ConditionIInv /\ UNCHANGED conditionVars => ConditionIInv'
BY DEF ConditionIInv, conditionVars, stateVars, localVars, ConditionTypeOK, Inside,
     Leaked, GivingUpLock,
       UnlockArgument, KindKnown, NoLostWakeup, Available, Wanted

\* In every state of a condition lock who is past the mutex has it, a lock that
\* is being given up stays its owner's, and no sleeper could go on (RKLock.m:644-733).
THEOREM ConditionInvariance == ConditionSpec => []ConditionIInv
<1>1. ConditionIInv /\ [ConditionNext]_conditionVars => ConditionIInv'
  BY ConditionOutsideStep, EnterStep, InsideStep, ConditionStutters
       DEF ConditionNext, ConditionProgress
<1>. QED  BY ConditionInitially, <1>1, PTL DEF ConditionSpec

\* Every variable of the condition lock has a value of its kind: the mutex and
\* the lock have one owner or none, and the condition is a known one (RKLock.m:644-733).
THEOREM ConditionTypeCorrect == ConditionSpec => []ConditionTypeOK
BY ConditionInvariance, PTL DEF ConditionIInv

\* Whatever the number of threads and conditions, no thread is left asleep when
\* the lock is free under the condition it waits for.
THEOREM WakeupsNotLost == ConditionSpec => []NoLostWakeup
BY ConditionInvariance, PTL DEF ConditionIInv

-------------------------------------------------------------------------------
\* The refinement.  A call is an Ask; a request ends in Grant where the lock is
\* taken, in Refuse where the call decides to return NO, and an Unlock takes
\* effect where the new condition is stored.

Entry(t) == [want |-> want[t], mayFail |-> MayFail(t)]

\* What the abstract lock sees of a thread that asks for the lock.
LEMMA RequestOf ==
  ASSUME ConditionIInv, NEW t \in Threads
  PROVE  /\ Requesting(t) => Request[t] = Entry(t) /\ Entry(t) \in ConditionPromise!Requests
         /\ Requesting(t) <=> Request[t] # None
         /\ Requesting(t) => Request[t].want = want[t]
         /\ Requesting(t) /\ MayFail(t) => Request[t].mayFail
<1>1. Entry(t) \in [want : Conditions \cup {AnyCondition}, mayFail : BOOLEAN]
  BY DEF ConditionIInv, ConditionTypeOK, Entry, MayFail
<1>2. Request[t] = IF Requesting(t) THEN Entry(t) ELSE None
  BY DEF Request, Entry
<1>3. Entry(t) # None
  BY <1>1, LockAssumption, ConditionLockAssumption
<1>4. Entry(t).want = want[t] /\ Entry(t).mayFail = MayFail(t)
  BY DEF Entry
<1>. QED  BY <1>1, <1>2, <1>3, <1>4 DEF ConditionPromise!Requests

\* The owner the abstract lock sees, while no unlock is half done.
LEMMA OwnerOutside ==
  ASSUME ConditionIInv, NEW t \in Threads, mutex = t, pc[t] # "unlockCondition"
  PROVE  Owner = IF conditionIsLocked THEN lockOwner ELSE None
BY DEF ConditionIInv, Inside, Critical, Owner, GivingBack

\* A step that leaves every request and the owner as they were.
LEMMA Unseen ==
  ASSUME ConditionIInv, NEW t \in Threads, NEW l,
         pc' = [pc EXCEPT ![t] = l],
         Requesting(t)' <=> Requesting(t),
         Requesting(t) => UNCHANGED <<want, kind>>,
         ~Requesting(t) => \A s \in Threads \ {t} :
           want'[s] = want[s] /\ kind'[s] = kind[s],
         UNCHANGED <<currentLockCondition, raised>>,
         Owner' = Owner
  PROVE  UNCHANGED ConditionPromise!vars
<1>1. \A s \in Threads : Request'[s] = Request[s]
  BY DEF ConditionIInv, ConditionTypeOK, Requesting, Request, MayFail
<1>2. Request' = Request
  BY <1>1 DEF Request
<1>. QED  BY <1>2 DEF ConditionPromise!vars

\* A step that ends the request of one thread.
LEMMA Ends ==
  ASSUME ConditionIInv, NEW t \in Threads, NEW l,
         pc' = [pc EXCEPT ![t] = l],
         l \in {"idle", "release"},
         \A s \in Threads \ {t} : want'[s] = want[s] /\ kind'[s] = kind[s]
  PROVE  Request' = [Request EXCEPT ![t] = None]
<1>1. \A s \in Threads : Request'[s] = IF s = t THEN None ELSE Request[s]
  BY DEF ConditionIInv, ConditionTypeOK, Requesting, Request, MayFail
<1>. QED  BY <1>1 DEF Request

\* A step that stores nothing leaves the owner.
LEMMA SameOwner ==
  ASSUME ConditionIInv, NEW t \in Threads, NEW l, UNCHANGED stateVars,
         pc' = [pc EXCEPT ![t] = l],
         pc[t] # "unlockCondition", l # "unlockCondition"
  PROVE  Owner' = Owner
BY DEF ConditionIInv, ConditionTypeOK, Owner, GivingBack, stateVars

\* A call is an Ask of the abstract lock, or is not seen.
LEMMA CallImplements ==
  ASSUME ConditionIInv, NEW t \in Threads, Calls(t)
  PROVE  [ConditionPromise!Next]_(ConditionPromise!vars)
<1>1. CASE \E c \in Conditions \cup {AnyCondition}, k \in Kinds : LockOnCondition(t, c, k)
  <2>1. PICK c \in Conditions \cup {AnyCondition}, k \in Kinds : LockOnCondition(t, c, k)
    BY <1>1
  <2>2. Owner' = Owner
    BY <2>1, SameOwner DEF LockOnCondition, Goto, At, ConditionIInv, ConditionTypeOK
  <2>. DEFINE r == [want |-> c, mayFail |-> k \in {"try", "timed"}]
  <2>3. Request[t] = None /\ r \in ConditionPromise!Requests
    BY <2>1 DEF LockOnCondition, Goto, At, Request, Requesting, ConditionPromise!Requests
  <2>4. Request' = [Request EXCEPT ![t] = r]
    <3>1. \A s \in Threads : Request'[s] = IF s = t THEN r ELSE Request[s]
      BY <2>1 DEF ConditionIInv, ConditionTypeOK, LockOnCondition, Goto, At, Request,
             Requesting, MayFail
    <3>. QED  BY <3>1 DEF Request
  <2>5. ConditionPromise!Ask(t, r)
    BY <2>1, <2>2, <2>3, <2>4 DEF LockOnCondition, stateVars, ConditionPromise!Ask
  <2>. QED  BY <2>3, <2>5 DEF ConditionPromise!Next
<1>2. CASE \E c \in Conditions : UnlockWithCondition(t, c)
  <2>1. PICK c \in Conditions : UnlockWithCondition(t, c)
    BY <1>2
  <2>2. Owner' = Owner
    BY <2>1, SameOwner DEF UnlockWithCondition, Goto, At, ConditionIInv, ConditionTypeOK
  <2>3. /\ pc' = [pc EXCEPT ![t] = "unlockMutex"]
        /\ ~Requesting(t) /\ ~Requesting(t)'
        /\ \A s \in Threads \ {t} : want'[s] = want[s] /\ kind'[s] = kind[s]
        /\ UNCHANGED <<currentLockCondition, raised>>
    BY <2>1
         DEF ConditionIInv, ConditionTypeOK, UnlockWithCondition, Goto, At, Requesting,
         stateVars
  <2>. QED  BY <2>2, <2>3, Unseen
<1>. QED  BY <1>1, <1>2 DEF Calls

\* A call that ends without the lock is a Refuse.
LEMMA RefuseImplements ==
  ASSUME ConditionIInv, NEW t \in Threads, NEW l, l \in {"idle", "release"},
         pc' = [pc EXCEPT ![t] = l],
         \A s \in Threads \ {t} : want'[s] = want[s] /\ kind'[s] = kind[s],
         Requesting(t), MayFail(t),
         UNCHANGED <<stateVars, raised>>
  PROVE  ConditionPromise!Refuse(t)
<1>1. Request' = [Request EXCEPT ![t] = None]
  BY Ends
<1>2. Owner' = Owner
  BY SameOwner DEF Requesting
<1>3. Request[t] # None /\ Request[t].mayFail
  BY RequestOf
<1>. QED  BY <1>1, <1>2, <1>3 DEF ConditionPromise!Refuse, stateVars

\* What is done without the mutex is a Refuse or is not seen.
LEMMA OutsideImplements ==
  ASSUME ConditionIInv, NEW t \in Threads,
         \/ PeekLocked(t) \/ PeekCondition(t) \/ TryMutexBusy(t)
         \/ SpuriousWakeup(t) \/ TimeOut(t) \/ TakesMutex(t)
  PROVE  [ConditionPromise!Next]_(ConditionPromise!vars)
<1>1. UNCHANGED <<stateVars, raised>>
  BY DEF PeekLocked, PeekCondition, TryMutexBusy, SpuriousWakeup, TimeOut, TakesMutex,
         LockMutex, Reacquire, UnlockMutex
<1>2. CASE pc'[t] = "idle"
  <2>1. /\ pc' = [pc EXCEPT ![t] = "idle"] /\ Requesting(t) /\ kind[t] = "try"
        /\ \A s \in Threads \ {t} : want'[s] = want[s] /\ kind'[s] = kind[s]
    BY <1>2 DEF PeekLocked, PeekCondition, TryMutexBusy, SpuriousWakeup, TimeOut,
                TakesMutex, LockMutex, Reacquire, UnlockMutex, Leave, Goto, At, ConditionIInv, ConditionTypeOK,
                Requesting, KindKnown
  <2>. QED  BY <1>1, <2>1, RefuseImplements DEF MayFail, ConditionPromise!Next
<1>3. CASE pc'[t] # "idle"
  <2>1. /\ pc' = [pc EXCEPT ![t] = pc'[t]]
        /\ pc[t] # "unlockCondition" /\ pc'[t] # "unlockCondition"
        /\ Requesting(t)' <=> Requesting(t)
        /\ UNCHANGED <<want, kind>>
    BY <1>3 DEF PeekLocked, PeekCondition, TryMutexBusy, SpuriousWakeup, TimeOut,
                TakesMutex, LockMutex, Reacquire, UnlockMutex, Leave, Goto, At, ConditionIInv, ConditionTypeOK,
                Requesting, localVars
  <2>2. Owner' = Owner
    BY <1>1, <2>1, SameOwner
  <2>3. UNCHANGED <<currentLockCondition, raised>>
    BY <1>1 DEF stateVars
  <2>. QED  BY <2>1, <2>2, <2>3, Unseen
<1>. QED  BY <1>2, <1>3

\* The calls that raise.
LEMMA RaiseImplements ==
  ASSUME ConditionIInv, NEW t \in Threads,
         MutexDeadlock(t) \/ AlreadyLocked(t) \/ IllegalUnlock(t)
  PROVE  [ConditionPromise!Next]_(ConditionPromise!vars)
<1>1. /\ pc' = [pc EXCEPT ![t] = "idle"] /\ UNCHANGED stateVars
      /\ raised' = raised \cup {t} /\ mutex = t /\ pc[t] # "unlockCondition"
      /\ \A s \in Threads \ {t} : want'[s] = want[s] /\ kind'[s] = kind[s]
  BY DEF MutexDeadlock, AlreadyLocked, IllegalUnlock, Leave, Goto, At, ConditionIInv,
       ConditionTypeOK, Inside,
         Critical
<1>2. Owner' = Owner /\ Owner = IF conditionIsLocked THEN lockOwner ELSE None
  BY <1>1, SameOwner, OwnerOutside
<1>3. Request' = [Request EXCEPT ![t] = None]
  BY <1>1, Ends
<1>4. CASE Requesting(t)
  <2>1. Owner = t \/ t \in raised
    BY <1>1, <1>2, <1>4 DEF MutexDeadlock, AlreadyLocked, IllegalUnlock, Leave, Goto, At,
                            Requesting, ConditionIInv, Leaked, Critical
  <2>. QED
    BY <1>1, <1>2, <1>3, <1>4, <2>1, RequestOf
       DEF ConditionPromise!Next, ConditionPromise!RejectRequest, stateVars
<1>5. CASE ~Requesting(t)
  <2>1. Owner # t \/ t \in raised
    BY <1>1, <1>2, <1>5, LockAssumption, ConditionLockAssumption
       DEF MutexDeadlock, AlreadyLocked, IllegalUnlock, Leave, Goto, At, Requesting, ConditionIInv,
           Leaked, Critical
  <2>2. Request' = Request
    BY <1>3, <1>5 DEF Request
  <2>. QED
    BY <1>1, <1>2, <2>1, <2>2
         DEF ConditionPromise!Next, ConditionPromise!RejectUnlock, stateVars
<1>. QED  BY <1>4, <1>5

\* What is done with the mutex is a Grant, a Refuse, an Unlock or is not seen.
LEMMA InsideImplements ==
  ASSUME ConditionIInv, NEW t \in Threads,
         \/ TurnDown(t) \/ Wait(t) \/ Take(t) \/ ReleaseMutex(t)
         \/ GiveBack(t) \/ SetCondition(t)
  PROVE  [ConditionPromise!Next]_(ConditionPromise!vars)
<1>1. mutex = t
  BY DEF TurnDown, Wait, Take, ReleaseMutex, GiveBack, SetCondition, Goto, At, Leave,
         ConditionIInv, Inside, Critical
<1>2. CASE TurnDown(t)
  BY <1>2, RefuseImplements
     DEF TurnDown, Goto, At, Requesting, ConditionIInv, ConditionTypeOK, KindKnown,
         localVars, MayFail, ConditionPromise!Next
<1>3. CASE Wait(t)
  <2>1. /\ pc' = [pc EXCEPT ![t] = "sleep"] /\ pc[t] = "test"
        /\ UNCHANGED <<stateVars, want, kind, raised>>
        /\ Requesting(t) /\ Requesting(t)'
    BY <1>3 DEF Wait, Goto, At, Requesting, localVars, ConditionIInv, ConditionTypeOK
  <2>. QED  BY <2>1, SameOwner, Unseen DEF stateVars
<1>4. CASE Take(t)
  <2>1. pc' = [pc EXCEPT ![t] = "release"] /\ pc[t] = "test" /\ Requesting(t)
    BY <1>4 DEF Take, Goto, At, ConditionIInv, ConditionTypeOK, Requesting
  <2>2. Request' = [Request EXCEPT ![t] = None]
    BY <1>4, <2>1, Ends DEF Take, localVars
  <2>3. Owner = None
    BY <1>1, <1>4, <2>1, OwnerOutside DEF Take, Available
  <2>4. Owner' = t
    BY <1>4 DEF Take, Owner
  <2>5. Request[t] # None /\ Request[t].want \in {AnyCondition, currentLockCondition}
    BY <1>4, <2>1, RequestOf DEF Take, Available, Wanted
  <2>. QED  BY <1>4, <2>2, <2>3, <2>4, <2>5
       DEF Take, ConditionPromise!Next, ConditionPromise!Grant
<1>5. CASE ReleaseMutex(t)
  <2>1. /\ pc' = [pc EXCEPT ![t] = "idle"] /\ pc[t] = "release"
        /\ UNCHANGED <<stateVars, raised>> /\ ~Requesting(t) /\ ~Requesting(t)'
        /\ \A s \in Threads \ {t} : want'[s] = want[s] /\ kind'[s] = kind[s]
    BY <1>5 DEF ReleaseMutex, Leave, Goto, At, Requesting, ConditionIInv, ConditionTypeOK
  <2>. QED  BY <2>1, SameOwner, Unseen DEF stateVars
<1>6. CASE GiveBack(t)
  <2>1. /\ pc' = [pc EXCEPT ![t] = "unlockCondition"] /\ pc[t] = "unlockOwner"
        /\ UNCHANGED <<currentLockCondition, want, kind, raised>>
        /\ ~Requesting(t) /\ ~Requesting(t)'
    BY <1>6 DEF GiveBack, Goto, At, Requesting, localVars, ConditionIInv, ConditionTypeOK
  <2>2. Owner = t
    BY <1>1, <1>6, <2>1, OwnerOutside DEF GiveBack
  <2>3. Owner' = t
    BY <1>6, <2>1 DEF GiveBack, Owner, GivingBack, ConditionIInv, ConditionTypeOK
  <2>. QED  BY <2>1, <2>2, <2>3, Unseen
<1>7. CASE SetCondition(t)
  <2>1. Request' = Request
    BY <1>7 DEF SetCondition, At, Request, Requesting, MayFail, localVars
  <2>2. Owner = t
    BY <1>7 DEF SetCondition, At, Owner, GivingBack, ConditionIInv, GivingUpLock
  <2>3. Owner' = None
    <3>1. \A s \in Threads : pc'[s] # "unlockCondition"
      BY <1>1, <1>7 DEF SetCondition, At, ConditionIInv, Inside, Critical
    <3>. QED
      BY <1>7, <3>1 DEF SetCondition, At, Owner, GivingBack, ConditionIInv, GivingUpLock
  <2>4. want[t] \in Conditions
    BY <1>7 DEF SetCondition, At, ConditionIInv, UnlockArgument
  <2>. QED
    BY <1>7, <2>1, <2>2, <2>3, <2>4
         DEF SetCondition, At, ConditionPromise!Next, ConditionPromise!Unlock
<1>. QED  BY <1>2, <1>3, <1>4, <1>5, <1>6, <1>7

\* Whatever the number of threads and conditions, the mutex and the condition
\* variable make the lock RKThreadPool takes an RKConditionLock to be.
THEOREM ConditionImplements == ConditionSpec => ImplementsConditionLock
<1>1. ConditionInit => ConditionPromise!Init
  BY DEF ConditionInit, ConditionPromise!Init, Request, Requesting, Owner, GivingBack
<1>2. ConditionIInv /\ [ConditionNext]_conditionVars => [ConditionPromise!Next]_(ConditionPromise!vars)
  <2>1. ASSUME ConditionIInv, UNCHANGED conditionVars PROVE UNCHANGED ConditionPromise!vars
    BY <2>1
         DEF conditionVars, stateVars, localVars, ConditionPromise!vars, Request,
         Requesting, Owner, GivingBack, MayFail
  <2>. QED
    BY <2>1, CallImplements, OutsideImplements, RaiseImplements, InsideImplements
       DEF ConditionNext, ConditionProgress
<1>. QED  BY <1>1, <1>2, ConditionInvariance, PTL
     DEF ConditionSpec, ImplementsConditionLock, ConditionPromise!Spec

-------------------------------------------------------------------------------
(***************************************************************************)
(* The read/write lock with its bypass is a read/write lock, for every set *)
(* of threads.  The argument: before the first detach one thread runs      *)
(* (OneThread); once globalIsMultiThreaded is set every holder has the     *)
(* pthread lock, and between the detach and that moment there is no holder *)
(* (Switching), because the thread that detaches does not own the lock.    *)
(***************************************************************************)

\* Threads that do not run yet do nothing, and before the first detach there
\* is one that does.
OneThread ==
  /\ \A t \in Threads : pc[t] # "idle" => t \in running
  /\ ~isMultiThreaded => \A t, u \in running : t = u

\* No thread has the lock while Cocoa knows of several threads and the library
\* does not.
Switching ==
  /\ isMultiThreaded /\ ~globalIsMultiThreaded => \A t \in Threads : ~Owns(t)
  /\ \A t \in Threads : pc[t] = "ask" => isMultiThreaded \/ ~globalIsMultiThreaded
  /\ \A t \in Threads : pc[t] = "swap" => isMultiThreaded
  /\ \A t \in Threads :
       pc[t] \in {"tryFirst", "tryWrite", "writeWait", "tryRead", "readWait"}
         => globalIsMultiThreaded

\* The pthread lock excludes, and its holders are in the lock for that level.
Pthread ==
  /\ rwWriter # None => rwReaders = {}
  /\ \A t \in rwReaders : Owns(t) /\ ~forWriting[t]
  /\ rwWriter # None => Owns(rwWriter) /\ forWriting[rwWriter]

\* Which level a call is about to take.
Wanting == \A t \in Threads :
  /\ lockStrategy[t] = "tryWritingThenReading" /\ pc[t] \in {"check", "ask", "swap"}
       => forWriting[t]
  /\ pc[t] \in {"tryFirst", "tryWrite", "writeWait"} => forWriting[t]
  /\ pc[t] \in {"tryRead", "readWait"} => ~forWriting[t]

IInv ==
  /\ TypeOK
  /\ OneThread
  /\ Switching
  /\ Pthread
  /\ Wanting
  /\ UnlockMatchesLock
  /\ LevelKnown

-------------------------------------------------------------------------------
\* Initially there is one thread, outside of the lock.
LEMMA InitIInv == Init => IInv
<1>. USE LockAssumption
<1>. SUFFICES ASSUME Init
              PROVE  IInv
  OBVIOUS
<1>1. TypeOK
  BY DEF Init, TypeOK
<1>2. OneThread
  BY DEF Init, OneThread
<1>3. Switching /\ Pthread /\ Wanting /\ UnlockMatchesLock /\ LevelKnown
  BY DEF Init, Switching, Pthread, Wanting, UnlockMatchesLock, LevelKnown, Owns
<1>. QED  BY <1>1, <1>2, <1>3 DEF IInv

\* A thread that becomes one of several does not own the lock.
LEMMA ProgramStep ==
  ASSUME IInv, NEW t \in Threads, SetMultithreaded(t) \/ \E u \in Threads : Detach(t, u)
  PROVE  IInv'
<1>. USE DEF IInv
<1>. UNCHANGED <<rwReaders, rwWriter, writeLocked, pc, lockStrategy, forWriting>>
  BY DEF SetMultithreaded, Detach, rwlock, locals
<1>1. TypeOK'
  BY DEF SetMultithreaded, Detach, TypeOK, program
<1>2. OneThread'
  BY DEF SetMultithreaded, Detach, OneThread, program
<1>3. isMultiThreaded \/ \A u \in Threads : pc[u] = "idle"
  BY DEF SetMultithreaded, Detach, OneThread
<1>4. Switching'
  BY <1>3 DEF SetMultithreaded, Detach, Switching, Owns, program
<1>5. Pthread' /\ Wanting' /\ LevelKnown'
  BY DEF Pthread, Wanting, LevelKnown, Owns
<1>6. UnlockMatchesLock'
  BY <1>3 DEF SetMultithreaded, Detach, UnlockMatchesLock, Switching, Owns, program
<1>. QED  BY <1>1, <1>2, <1>4, <1>5, <1>6

\* The steps of a call that neither take nor leave the lock.
LEMMA OutsideStep ==
  ASSUME IInv, NEW t \in Threads,
         \/ \E strategy \in Strategies : Lock(t, strategy)
         \/ CheckGlobal(t) \/ NoteMultithreaded(t) \/ Downgrade(t)
         \/ WriteBusy(t) \/ ReadBusy(t) \/ Spurious(t) \/ GiveUp(t)
  PROVE  IInv'
<1>. USE DEF IInv
<1>1. /\ UNCHANGED <<program, rwlock, writeLocked>>
      /\ ~Owns(t) /\ ~Owns(t)'
      /\ \A u \in Threads : u # t => pc'[u] = pc[u] /\ forWriting'[u] = forWriting[u]
      /\ globalIsMultiThreaded' = globalIsMultiThreaded \/ pc[t] = "swap"
      /\ globalIsMultiThreaded => globalIsMultiThreaded'
  BY DEF Lock, CheckGlobal, NoteMultithreaded, Downgrade, WriteBusy, ReadBusy, Spurious,
         GiveUp, WriteWait, ReadWait, ReturnNo, Goto, At, FirstTry, Owns, TypeOK, locals
<1>2. TypeOK'
  <2>1. /\ \E l \in Strategies \cup {None} :
             UNCHANGED lockStrategy \/ lockStrategy' = [lockStrategy EXCEPT ![t] = l]
        /\ \E b \in BOOLEAN : UNCHANGED forWriting \/ forWriting' = [forWriting EXCEPT ![t] = b]
    BY DEF Lock, CheckGlobal, NoteMultithreaded, Downgrade, WriteBusy, ReadBusy,
           Spurious, GiveUp, WriteWait, ReadWait, ReturnNo, locals
  <2>2. /\ \E p \in {"idle", "check", "ask", "tryFirst", "tryWrite", "writeWait",
                      "tryRead", "readWait"} :
             pc' = [u \in Threads |-> IF u = t THEN p ELSE pc[u]]
        /\ globalIsMultiThreaded' \in BOOLEAN
    BY DEF Lock, CheckGlobal, NoteMultithreaded, Downgrade, WriteBusy, ReadBusy,
           Spurious, GiveUp, WriteWait, ReadWait, ReturnNo, Goto, At, FirstTry, TypeOK
  <2>. QED  BY <1>1, <2>1, <2>2 DEF TypeOK, program, rwlock
<1>3. t \in running
  BY DEF Lock, CheckGlobal, NoteMultithreaded, Downgrade, WriteBusy, ReadBusy, Spurious,
         GiveUp, WriteWait, ReadWait, ReturnNo, Goto, At, OneThread
<1>4. OneThread'
  BY <1>1, <1>3 DEF OneThread, program
<1>5. /\ pc'[t] = "ask" => ~globalIsMultiThreaded'
      /\ pc'[t] # "swap"
      /\ pc'[t] \in {"tryFirst", "tryWrite", "writeWait", "tryRead", "readWait"}
           => globalIsMultiThreaded'
      /\ pc'[t] \in {"tryFirst", "tryWrite", "writeWait"} => forWriting'[t]
      /\ pc'[t] \in {"tryRead", "readWait"} => ~forWriting'[t]
  <2>1. CASE \E strategy \in Strategies : Lock(t, strategy)
    BY <2>1 DEF Lock, Goto, At, TypeOK
  <2>2. CASE CheckGlobal(t) \/ NoteMultithreaded(t)
    <3>1. /\ lockStrategy[t] = "tryWritingThenReading" => forWriting[t]
      BY <2>2 DEF CheckGlobal, NoteMultithreaded, Goto, At, Wanting
    <3>. QED
      BY <2>2, <3>1 DEF CheckGlobal, NoteMultithreaded, Goto, At, FirstTry, TypeOK, locals
  <2>3. CASE Downgrade(t)
    BY <2>3 DEF Downgrade, Goto, At, TypeOK, Switching
  <2>4. CASE WriteBusy(t) \/ ReadBusy(t) \/ Spurious(t) \/ GiveUp(t)
    BY <2>4 DEF WriteBusy, ReadBusy, Spurious, GiveUp, WriteWait, ReadWait, ReturnNo, Goto, At,
       TypeOK, Switching, Wanting, locals
  <2>. QED  BY <2>1, <2>2, <2>3, <2>4
<1>6. Switching' /\ Wanting'
  <2>1. /\ lockStrategy'[t] = "tryWritingThenReading" /\ pc'[t] \in {"check", "ask", "swap"}
             => forWriting'[t]
        /\ \A u \in Threads : u # t => lockStrategy'[u] = lockStrategy[u]
    BY DEF Lock, CheckGlobal, NoteMultithreaded, Downgrade, WriteBusy, ReadBusy, Spurious,
       GiveUp, WriteWait, ReadWait, ReturnNo, Goto, At, FirstTry, Reading, TypeOK, Wanting, locals
  <2>. QED  BY <1>1, <1>5, <2>1 DEF Switching, Wanting, Owns, program
<1>7. Pthread' /\ LevelKnown'
  BY <1>1 DEF Pthread, LevelKnown, Owns, rwlock, TypeOK
<1>8. UnlockMatchesLock'
  BY <1>1 DEF UnlockMatchesLock, Switching, Owns, rwlock
<1>. QED  BY <1>2, <1>4, <1>6, <1>7, <1>8

\* The bypass is taken by the only thread.
LEMMA AskStep ==
  ASSUME IInv, NEW t \in Threads, AskCocoa(t)
  PROVE  IInv'
<1>. USE DEF IInv
<1>1. /\ UNCHANGED <<program, globalIsMultiThreaded, rwlock, writeLocked, locals>>
      /\ pc[t] = "ask"
      /\ pc' = [pc EXCEPT ![t] = IF isMultiThreaded THEN "swap" ELSE "store"]
  BY DEF AskCocoa, Goto, At, TypeOK
<1>2. t \in running /\ (~isMultiThreaded => \A u \in Threads : u # t => pc[u] = "idle")
  BY <1>1 DEF OneThread
<1>3. TypeOK' /\ OneThread' /\ Wanting' /\ LevelKnown'
  BY <1>1, <1>2 DEF TypeOK, OneThread, Wanting, LevelKnown, program, rwlock, locals
<1>4. Switching' /\ Pthread'
  BY <1>1 DEF TypeOK, Switching, Pthread, Owns, program, rwlock, locals
<1>5. ~Owns(t) /\ t \notin rwReaders /\ rwWriter # t
  BY <1>1, LockAssumption DEF Pthread, Owns, TypeOK
<1>6. ~isMultiThreaded => ~globalIsMultiThreaded
  BY <1>1 DEF Switching
<1>7. UnlockMatchesLock'
  BY <1>1, <1>2, <1>5, <1>6 DEF UnlockMatchesLock, Owns, TypeOK, program, rwlock
<1>. QED  BY <1>3, <1>4, <1>7

\* A thread gets the pthread lock, for the level it wants.
LEMMA TakeStep ==
  ASSUME IInv, NEW t \in Threads, GetWrite(t) \/ WriteGranted(t) \/ GetRead(t)
  PROVE  IInv'
<1>. USE LockAssumption DEF IInv
<1>1. /\ UNCHANGED <<program, globalIsMultiThreaded, writeLocked, locals>>
      /\ pc[t] \in {"tryFirst", "tryWrite", "writeWait", "tryRead", "readWait"}
      /\ pc' = [pc EXCEPT ![t] = "store"]
      /\ IF forWriting[t] THEN TakeWrite(t) ELSE TakeRead(t)
  BY DEF GetWrite, WriteGranted, GetRead, Goto, At, TypeOK, Wanting
<1>2. TypeOK'
  BY <1>1 DEF TypeOK, TakeRead, TakeWrite, program, rwlock, locals
<1>3. t \in running /\ globalIsMultiThreaded /\ ~Owns(t)
  BY <1>1 DEF OneThread, Switching, Owns
<1>4. OneThread' /\ Switching' /\ Wanting' /\ LevelKnown'
  BY <1>1, <1>3 DEF TypeOK, OneThread, Switching, Wanting, LevelKnown, Owns, program, locals
<1>5. Pthread'
  <2>1. CASE forWriting[t]
    BY <1>1, <2>1 DEF TakeWrite, CanWrite, Pthread, Owns, TypeOK, locals
  <2>2. CASE ~forWriting[t]
    BY <1>1, <2>2 DEF TakeRead, CanRead, Pthread, Owns, TypeOK, locals
  <2>. QED  BY <2>1, <2>2
<1>6. UnlockMatchesLock'
  BY <1>1, <1>3 DEF TakeRead, TakeWrite, CanRead, CanWrite, UnlockMatchesLock, Owns, TypeOK
<1>. QED  BY <1>2, <1>4, <1>5, <1>6

\* Whoever holds the lock along with a thread that stores the level holds it
\* for reading, and so does that thread.
LEMMA Excluded ==
  ASSUME IInv, NEW t \in Threads, NEW u \in Threads, t # u, Owns(t), Owns(u)
  PROVE  ~forWriting[t] /\ ~forWriting[u]
<1>. USE LockAssumption DEF IInv
<1>1. isMultiThreaded
  BY DEF OneThread, Owns
<1>2. globalIsMultiThreaded
  BY <1>1 DEF Switching
<1>3. /\ t \in rwReaders \/ rwWriter = t
      /\ u \in rwReaders \/ rwWriter = u
  BY <1>2 DEF UnlockMatchesLock
<1>4. rwWriter = None
  BY <1>3 DEF Pthread
<1>. QED  BY <1>3, <1>4 DEF Pthread

\* A thread notes its level while it has the lock.
LEMMA StoreStep ==
  ASSUME IInv, NEW t \in Threads, StoreLevel(t)
  PROVE  IInv'
<1>. USE DEF IInv
<1>1. /\ UNCHANGED <<program, globalIsMultiThreaded, rwlock, forWriting>>
      /\ pc[t] = "store" /\ pc' = [pc EXCEPT ![t] = "held"]
      /\ writeLocked' = forWriting[t]
      /\ lockStrategy' = [lockStrategy EXCEPT ![t] = None]
  BY DEF StoreLevel, Goto, At, TypeOK
<1>2. TypeOK'
  BY <1>1 DEF TypeOK, program, rwlock
<1>3. OneThread' /\ Switching' /\ Wanting'
  BY <1>1 DEF TypeOK, OneThread, Switching, Wanting, Owns, program
<1>4. Pthread' /\ UnlockMatchesLock'
  BY <1>1 DEF TypeOK, Pthread, UnlockMatchesLock, Owns, rwlock
<1>5. LevelKnown'
  BY <1>1, Excluded DEF TypeOK, LevelKnown, Owns
<1>. QED  BY <1>2, <1>3, <1>4, <1>5

\* An unlock gives back the lock in the way it was taken.
LEMMA UnlockStep ==
  ASSUME IInv, NEW t \in Threads, Unlock(t)
  PROVE  IInv'
<1>. USE LockAssumption DEF IInv
<1>1. /\ UNCHANGED <<program, globalIsMultiThreaded, writeLocked, lockStrategy>>
      /\ pc[t] = "held" /\ pc' = [pc EXCEPT ![t] = "idle"]
      /\ forWriting' = [forWriting EXCEPT ![t] = FALSE]
  BY DEF Unlock, Goto, At, TypeOK
<1>2. /\ rwReaders' = rwReaders \ {t}
      /\ rwWriter' = IF rwWriter = t THEN None ELSE rwWriter
  BY <1>1 DEF Unlock, PthreadUnlock, UnlockMatchesLock, Owns, rwlock
<1>3. TypeOK'
  BY <1>1, <1>2 DEF TypeOK, program
<1>4. OneThread' /\ Switching' /\ Wanting' /\ LevelKnown'
  BY <1>1 DEF TypeOK, OneThread, Switching, Wanting, LevelKnown, Owns, program
<1>5. Pthread' /\ UnlockMatchesLock'
  BY <1>1, <1>2 DEF TypeOK, Pthread, UnlockMatchesLock, Owns
<1>. QED  BY <1>3, <1>4, <1>5

\* Every step of the lock and of the program around it preserves the invariant.
LEMMA NextIInv == IInv /\ [Next]_vars => IInv'
<1>. SUFFICES ASSUME IInv, [Next]_vars
              PROVE  IInv'
  OBVIOUS
<1>1. ASSUME NEW t \in Threads, ThreadNext(t)
      PROVE  IInv'
  BY <1>1, ProgramStep, OutsideStep, AskStep, TakeStep, StoreStep, UnlockStep
     DEF ThreadNext, Progress
<1>2. CASE UNCHANGED vars
  BY <1>2 DEF vars, program, rwlock, locals, IInv, TypeOK, OneThread, Switching, Pthread,
              Wanting, UnlockMatchesLock, LevelKnown, Owns
<1>. QED  BY <1>1, <1>2 DEF Next

\* The invariant holds in every reachable state.
LEMMA Invariance == Spec => []IInv
BY InitIInv, NextIInv, PTL DEF Spec

-------------------------------------------------------------------------------
\* The lock's words and each call's locals keep their types.
THEOREM TypeCorrect == Spec => []TypeOK
<1>1. IInv => TypeOK
  BY DEF IInv
<1>. QED  BY Invariance, <1>1, PTL

\* The unlock undoes what the lock did, although the program may have become
\* multithreaded in between (lines 336 to 339 and 451).
THEOREM UnlockMatches == Spec => []UnlockMatchesLock
<1>1. IInv => UnlockMatchesLock
  BY DEF IInv
<1>. QED  BY Invariance, <1>1, PTL

\* writeLocked says for what the lock is held (lines 337, 343 and 440).
THEOREM LevelsKnown == Spec => []LevelKnown
<1>1. IInv => LevelKnown
  BY DEF IInv
<1>. QED  BY Invariance, <1>1, PTL

\* The lock with its bypass implements a read/write lock: a writer is alone,
\* also while the program becomes multithreaded (lines 329 to 456).
THEOREM Implements == Spec => ImplementsReadWriteLock
<1>1. Init => Promise!Init
  BY DEF Init, Promise!Init, Holding, Owns
<1>2. ASSUME IInv, IInv', [Next]_vars
      PROVE  [Promise!Next]_Holding
  <2>1. ASSUME NEW t \in Threads, ~Owns(t), Owns(t)',
               \A u \in Threads : u # t => pc'[u] = pc[u],
               UNCHANGED forWriting
        PROVE  Promise!Next
    <3>. DEFINE level == IF forWriting[t] THEN "write" ELSE "read"
    <3>1. Holding' = [Holding EXCEPT ![t] = level]
      BY <2>1 DEF Holding, Owns
    <3>2. \A u \in Threads : u # t /\ Owns(u) => ~forWriting[u] /\ ~forWriting[t]
      <4>1. \A u \in Threads : u # t /\ Owns(u) => Owns(u)'
        BY <2>1 DEF Owns
      <4>2. ASSUME NEW u \in Threads, u # t, Owns(u)
            PROVE  ~forWriting[u] /\ ~forWriting[t]
        <5>1. IInv' /\ Owns(t)' /\ Owns(u)'
          BY <1>2, <2>1, <4>1, <4>2
        <5>2. ~forWriting'[t] /\ ~forWriting'[u]
          <6>1. isMultiThreaded'
            BY <5>1, <4>2 DEF IInv, OneThread, Owns
          <6>2. globalIsMultiThreaded'
            BY <5>1, <6>1 DEF IInv, Switching
          <6>3. /\ t \in rwReaders' \/ rwWriter' = t
                /\ u \in rwReaders' \/ rwWriter' = u
            BY <5>1, <6>2 DEF IInv, UnlockMatchesLock
          <6>4. rwWriter' = None
            BY <5>1, <6>3, <4>2, LockAssumption DEF IInv, Pthread
          <6>. QED  BY <5>1, <6>3, <6>4, LockAssumption DEF IInv, Pthread
        <5>. QED  BY <5>2, <2>1
      <4>. QED  BY <4>2
    <3>3. Holding[t] = "none" /\ level \in Promise!Levels /\ level # "none"
      BY <2>1 DEF Holding, Promise!Levels
    <3>4. \A u \in Threads :
            Holding[u] # "write" /\ (level = "write" => Holding[u] = "none")
      BY <2>1, <3>2 DEF Holding
    <3>5. Promise!Acquire(t, level)
      BY <3>1, <3>3, <3>4 DEF Promise!Acquire
    <3>. QED  BY <3>3, <3>5 DEF Promise!Next
  <2>2. ASSUME NEW t \in Threads, Unlock(t)
        PROVE  Promise!Next
    <3>1. Holding' = [Holding EXCEPT ![t] = "none"] /\ Holding[t] # "none"
      BY <1>2, <2>2 DEF Unlock, Goto, At, Holding, Owns, IInv, TypeOK
    <3>. QED  BY <3>1 DEF Promise!Next, Promise!Release
  <2>3. ASSUME NEW t \in Threads,
               \A u \in Threads : Owns(u)' <=> Owns(u),
               \A u \in Threads : Owns(u) => forWriting'[u] = forWriting[u]
        PROVE  UNCHANGED Holding
    BY <2>3 DEF Holding
  <2>4. ASSUME NEW t \in Threads, ThreadNext(t), ~Unlock(t)
        PROVE  \/ /\ \A u \in Threads : Owns(u)' <=> Owns(u)
                  /\ \A u \in Threads : Owns(u) => forWriting'[u] = forWriting[u]
               \/ /\ ~Owns(t) /\ Owns(t)'
                  /\ \A u \in Threads : u # t => pc'[u] = pc[u]
                  /\ UNCHANGED forWriting
    <3>1. CASE \/ SetMultithreaded(t) \/ \E u \in Threads : Detach(t, u)
      BY <3>1 DEF SetMultithreaded, Detach, Owns, locals
    <3>2. CASE \/ \E strategy \in Strategies : Lock(t, strategy)
               \/ CheckGlobal(t) \/ NoteMultithreaded(t) \/ Downgrade(t)
               \/ WriteBusy(t) \/ ReadBusy(t) \/ Spurious(t) \/ GiveUp(t)
      BY <1>2, <3>2 DEF Lock, CheckGlobal, NoteMultithreaded, Downgrade, WriteBusy,
         ReadBusy, Spurious, GiveUp, WriteWait, ReadWait, ReturnNo, Goto, At, FirstTry, Owns,
         IInv, TypeOK, locals
    <3>3. CASE AskCocoa(t) \/ StoreLevel(t)
      BY <1>2, <3>3 DEF AskCocoa, StoreLevel, Goto, At, Owns, IInv, TypeOK, locals
    <3>4. CASE GetWrite(t) \/ WriteGranted(t) \/ GetRead(t)
      BY <1>2, <3>4 DEF GetWrite, WriteGranted, GetRead, Goto, At, Owns, IInv, TypeOK, locals
    <3>. QED  BY <2>4, <3>1, <3>2, <3>3, <3>4 DEF ThreadNext, Progress
  <2>5. CASE UNCHANGED vars
    BY <2>5 DEF vars, locals, Holding, Owns
  <2>. QED  BY <1>2, <2>1, <2>2, <2>3, <2>4, <2>5 DEF Next
<1>. QED  BY Invariance, <1>1, <1>2, PTL DEF Spec, ImplementsReadWriteLock, Promise!Spec
===============================================================================
