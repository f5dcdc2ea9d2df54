---------------------------- MODULE RKReadWriteLock ----------------------------
(***************************************************************************)
(* RKFastReadWriteLockWithStrategy and RKFastReadWriteUnlock (RKLock.m):   *)
(* a pthread read/write lock that is left alone as long as the program has *)
(* one thread.  The comment at the head of RKLock.m obliges the users not  *)
(* to make the program multithreaded while they own such a lock; Detach    *)
(* and SetMultithreaded respect it.                                        *)
(*                                                                         *)
(* A pthread lock lets no reader in while a writer is blocked in it, which *)
(* is what the comment at line 375 relies on.                              *)
(***************************************************************************)
EXTENDS LockCallers

\* The strategies of RKLock.h.  The code has no case for the last of them.
Reading == {"reading", "tryReading"}
Trying == {"tryReading", "tryWriting"}
Strategies == Reading \cup Trying
                \cup {"writing", "tryWritingThenReading", "tryWritingThenTryReading"}

VARIABLES
  \* the program
  running,                \* the threads there are
  isMultiThreaded,        \* [NSThread isMultiThreaded]
  globalIsMultiThreaded,
  \* readWriteLock, the pthread lock
  rwReaders, rwWriter,
  writeLocked,            \* the ivar, for the unlock probe
  \* each thread's call
  lockStrategy, forWriting

program == <<running, isMultiThreaded>>
rwlock == <<rwReaders, rwWriter>>
locals == <<lockStrategy, forWriting>>
vars == <<program, globalIsMultiThreaded, rwlock, writeLocked, pc, locals>>

Init ==
  /\ \E main \in Threads : running = {main}
  /\ isMultiThreaded = FALSE
  /\ globalIsMultiThreaded = FALSE
  /\ rwReaders = {}
  /\ rwWriter = None
  /\ writeLocked = FALSE
  /\ pc = [t \in Threads |-> "idle"]
  /\ lockStrategy = [t \in Threads |-> None]
  /\ forWriting = [t \in Threads |-> FALSE]

\* A call ends without the lock.
ReturnNo(t, from) ==
  /\ Goto(t, from, "idle")
  /\ lockStrategy' = [lockStrategy EXCEPT ![t] = None]
  /\ forWriting' = [forWriting EXCEPT ![t] = FALSE]

-------------------------------------------------------------------------------
\* The program becomes multithreaded.

\* The first detach sets isMultiThreaded before the new thread runs.
Detach(t, u) ==
  /\ t \in running
  /\ u \notin running
  /\ pc[t] = "idle" \/ (isMultiThreaded /\ pc[t] = "held")
  /\ running' = running \cup {u}
  /\ isMultiThreaded' = TRUE
  /\ UNCHANGED <<globalIsMultiThreaded, rwlock, writeLocked, pc, locals>>

SetMultithreaded(t) ==
  /\ t \in running
  /\ pc[t] = "idle"
  /\ globalIsMultiThreaded' = TRUE
  /\ UNCHANGED <<program, rwlock, writeLocked, pc, locals>>

-------------------------------------------------------------------------------
\* The pthread lock.

BlockedWriters == At("writeWait")
CanRead == rwWriter = None /\ BlockedWriters = {}
CanWrite == rwWriter = None /\ rwReaders = {}

TakeRead(t) ==
  /\ CanRead
  /\ rwReaders' = rwReaders \cup {t}
  /\ UNCHANGED rwWriter

TakeWrite(t) ==
  /\ CanWrite
  /\ rwWriter' = t
  /\ UNCHANGED rwReaders

-------------------------------------------------------------------------------
\* RKFastReadWriteLockWithStrategy.

Lock(t, strategy) ==
  /\ t \in running
  /\ Goto(t, "idle", "check")
  /\ lockStrategy' = [lockStrategy EXCEPT ![t] = strategy]
  /\ forWriting' = [forWriting EXCEPT ![t] = strategy \notin Reading]
  /\ UNCHANGED <<program, globalIsMultiThreaded, rwlock, writeLocked>>

\* Where a call begins with the pthread lock.
FirstTry(t) ==
  IF lockStrategy[t] = "tryWritingThenReading" THEN "tryFirst"
  ELSE IF forWriting[t] THEN "tryWrite" ELSE "tryRead"

CheckGlobal(t) ==
  /\ Goto(t, "check", IF globalIsMultiThreaded THEN FirstTry(t) ELSE "ask")
  /\ UNCHANGED <<program, globalIsMultiThreaded, rwlock, writeLocked, locals>>

\* Mutant: only the library's own word is looked at.
AskNobody(t) ==
  /\ Goto(t, "ask", "store")
  /\ UNCHANGED <<program, globalIsMultiThreaded, rwlock, writeLocked, locals>>

\* The bypass.
AskCocoa(t) ==
  /\ Goto(t, "ask", IF isMultiThreaded THEN "swap" ELSE "store")
  /\ UNCHANGED <<program, globalIsMultiThreaded, rwlock, writeLocked, locals>>

\* Mutant: the lock goes on without telling the unlock.
NoteNothing(t) ==
  /\ Goto(t, "swap", FirstTry(t))
  /\ UNCHANGED <<program, globalIsMultiThreaded, rwlock, writeLocked, locals>>

NoteMultithreaded(t) ==
  /\ Goto(t, "swap", FirstTry(t))
  /\ globalIsMultiThreaded' = TRUE
  /\ UNCHANGED <<program, rwlock, writeLocked, locals>>

\* A try or a wait that gets the pthread lock.
GetWrite(t) ==
  /\ \E from \in {"tryFirst", "tryWrite"} : Goto(t, from, "store")
  /\ TakeWrite(t)
  /\ UNCHANGED <<program, globalIsMultiThreaded, writeLocked, locals>>

WriteGranted(t) ==
  /\ Goto(t, "writeWait", "store")
  /\ TakeWrite(t)
  /\ UNCHANGED <<program, globalIsMultiThreaded, writeLocked, locals>>

\* Mutant: a reader does not touch writeLocked.
GetReadDone(t) ==
  /\ \E from \in {"tryRead", "readWait"} : Goto(t, from, "held")
  /\ TakeRead(t)
  /\ lockStrategy' = [lockStrategy EXCEPT ![t] = None]
  /\ UNCHANGED <<program, globalIsMultiThreaded, writeLocked, forWriting>>

GetRead(t) ==
  /\ \E from \in {"tryRead", "readWait"} : Goto(t, from, "store")
  /\ TakeRead(t)
  /\ UNCHANGED <<program, globalIsMultiThreaded, writeLocked, locals>>

\* Any failure of the first try is an answer (lines 341 to 349).
Downgrade(t) ==
  /\ Goto(t, "tryFirst", "tryRead")
  /\ forWriting' = [forWriting EXCEPT ![t] = FALSE]
  /\ UNCHANGED <<program, globalIsMultiThreaded, rwlock, writeLocked, lockStrategy>>

\* EBUSY: a try returns, the others wait.
WriteWait(t) ==
  IF lockStrategy[t] \in Trying THEN ReturnNo(t, "tryWrite")
                                 ELSE Goto(t, "tryWrite", "writeWait") /\ UNCHANGED locals

ReadWait(t) ==
  IF lockStrategy[t] \in Trying THEN ReturnNo(t, "tryRead")
                                 ELSE Goto(t, "tryRead", "readWait") /\ UNCHANGED locals

\* Mutant: the writer goes on trying, and blocks nobody.
WriteSpin(t) ==
  /\ ~CanWrite
  /\ IF lockStrategy[t] \in Trying THEN ReturnNo(t, "tryWrite")
     ELSE Goto(t, "tryWrite", "tryWrite") /\ UNCHANGED locals
  /\ UNCHANGED <<program, globalIsMultiThreaded, rwlock, writeLocked>>

WriteBusy(t) ==
  /\ ~CanWrite
  /\ WriteWait(t)
  /\ UNCHANGED <<program, globalIsMultiThreaded, rwlock, writeLocked>>

ReadBusy(t) ==
  /\ ~CanRead
  /\ ReadWait(t)
  /\ UNCHANGED <<program, globalIsMultiThreaded, rwlock, writeLocked>>

\* An unknown error of a try is taken for EBUSY; a wait is then repeated.
Spurious(t) ==
  /\ WriteWait(t) \/ ReadWait(t)
  /\ UNCHANGED <<program, globalIsMultiThreaded, rwlock, writeLocked>>

\* An unknown error once too often (RKLOCK_MAX_SPURIOUS_ERROR_ATTEMPTS), or one
\* of EDEADLK, ENOMEM and EINVAL.
GiveUp(t) ==
  /\ \E from \in {"tryWrite", "writeWait", "tryRead", "readWait"} : ReturnNo(t, from)
  /\ UNCHANGED <<program, globalIsMultiThreaded, rwlock, writeLocked>>

StoreLevel(t) ==
  /\ Goto(t, "store", "held")
  /\ writeLocked' = forWriting[t]
  /\ lockStrategy' = [lockStrategy EXCEPT ![t] = None]
  /\ UNCHANGED <<program, globalIsMultiThreaded, rwlock, forWriting>>

-------------------------------------------------------------------------------
\* RKFastReadWriteUnlock.

\* A thread that does not hold the pthread lock may get an error, or give back
\* what another thread holds.
PthreadUnlock(t) ==
  IF t \in rwReaders \/ rwWriter = t
  THEN /\ rwReaders' = rwReaders \ {t}
       /\ rwWriter' = IF rwWriter = t THEN None ELSE rwWriter
  ELSE \/ UNCHANGED rwlock
       \/ rwWriter' = None /\ \E u \in rwReaders \cup {None} : rwReaders' = rwReaders \ {u}

Unlock(t) ==
  /\ Goto(t, "held", "idle")
  /\ forWriting' = [forWriting EXCEPT ![t] = FALSE]
  /\ IF globalIsMultiThreaded THEN PthreadUnlock(t) ELSE UNCHANGED rwlock
  /\ UNCHANGED <<program, globalIsMultiThreaded, writeLocked, lockStrategy>>

-------------------------------------------------------------------------------
Progress(t) ==
  \/ CheckGlobal(t) \/ AskCocoa(t) \/ NoteMultithreaded(t)
  \/ GetWrite(t) \/ GetRead(t) \/ Downgrade(t) \/ WriteBusy(t) \/ ReadBusy(t)
  \/ StoreLevel(t) \/ Unlock(t)

ThreadNext(t) ==
  \/ SetMultithreaded(t)
  \/ \E u \in Threads : Detach(t, u)
  \/ \E strategy \in Strategies : Lock(t, strategy)
  \/ Progress(t)
  \/ WriteGranted(t)
  \/ Spurious(t)
  \/ GiveUp(t)

Next == \E t \in Threads : ThreadNext(t)

Spec == Init /\ [][Next]_vars

\* Threads go on, and give back what they have; a pthread lock that is free
\* again and again goes in the end to a writer that waits for it.
FairSpec == Spec /\ \A t \in Threads : WF_vars(Progress(t)) /\ SF_vars(WriteGranted(t))

-------------------------------------------------------------------------------
\* The values each variable may have.
TypeOK ==
  /\ running \subseteq Threads
  /\ isMultiThreaded \in BOOLEAN
  /\ globalIsMultiThreaded \in BOOLEAN
  /\ rwReaders \subseteq Threads
  /\ rwWriter \in Threads \cup {None}
  /\ writeLocked \in BOOLEAN
  /\ pc \in [Threads -> {"idle", "check", "ask", "swap", "tryFirst", "tryWrite",
                         "writeWait", "tryRead", "readWait", "store", "held"}]
  /\ lockStrategy \in [Threads -> Strategies \cup {None}]
  /\ forWriting \in [Threads -> BOOLEAN]

Owns(t) == pc[t] \in {"store", "held"}

\* The unlock undoes what the lock did: it calls pthread_rwlock_unlock exactly
\* if the thread has locked the pthread lock, also when the program becomes
\* multithreaded between two calls (lines 336 to 339 and 451).
UnlockMatchesLock ==
  \A t \in Threads :
    Owns(t) => (globalIsMultiThreaded <=> (t \in rwReaders \/ rwWriter = t))

\* While a thread holds the lock, writeLocked says for what, although every
\* thread stores it after it has the lock and before it goes on (line 440).
LevelKnown == \A t \in Threads : pc[t] = "held" => writeLocked = forWriting[t]

\* With the bypass and without, the lock is a read/write lock.
Holding == [t \in Threads |-> IF Owns(t) THEN IF forWriting[t] THEN "write" ELSE "read"
                              ELSE "none"]
Promise == INSTANCE ReadWriteLock WITH holding <- Holding
ImplementsReadWriteLock == Promise!Spec

\* Line 375: "Don't trylock, allow write lock request to block reads for
\* priority access".  A request to write is not held up for ever by readers
\* that come and go.
WriterGetsIn ==
  \A t \in Threads : pc[t] \in {"tryWrite", "writeWait"} ~> pc[t] \in {"store", "idle"}
===============================================================================
