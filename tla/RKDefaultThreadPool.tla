-------------------------- MODULE RKDefaultThreadPool --------------------------
(***************************************************************************)
(* +[RKThreadPool defaultThreadPool]: the pool every evaluation of a sorted *)
(* collection uses.  It is made on first use, without threads while the    *)
(* program has a single thread, and replaced by one with threads when it   *)
(* has more.  Threads race to make and to replace it with compare and swap *)
(* and leave what they lost to their autorelease pools.                    *)
(*                                                                         *)
(* A pool is the address of its object, which may serve again for another  *)
(* when the object has been deallocated.  NSThread keeps the object that a *)
(* thread was detached on retained until the thread ends.                  *)
(***************************************************************************)
EXTENDS Integers, FiniteSets

CONSTANTS
  Threads,      \* the threads of the program
  Main,         \* the one it begins with
  Pools,        \* addresses for pools
  Processors,   \* cpuCores
  NULL

ASSUME ThreadsAssumption == IsFiniteSet(Threads) /\ Main \in Threads
ASSUME ProcessorsAssumption == Processors \in Nat \ {0}
ASSUME NullAssumption == NULL \notin Pools

VARIABLES
  isMultiThreaded,              \* [NSThread isMultiThreaded]
  threadPoolIsMultiThreaded,    \* static, 0 or 1
  defaultThreadPoolSingleton,   \* static, the default pool or NULL
  retainCount,                  \* retainCount[p]: 0 if no object is at p
  threadCount,                  \* threadCount[p]: the worker threads of p
  autoreleased,                 \* autoreleased[t][p]: the releases of p that t's
                                \* autorelease pool holds
  pc,                           \* "idle", the steps of the method, or "using"
  currentPool,                  \* currentDefaultThreadPoolSingleton of t
  cocoaIsMultiThreaded,         \* the local of t of that name
  tempPool,                     \* tempThreadPoolSingleton of t
  allocationFailed              \* history: some pool could not be made

statics == <<isMultiThreaded, threadPoolIsMultiThreaded, defaultThreadPoolSingleton>>
objects == <<retainCount, threadCount, autoreleased>>
locals == <<pc, currentPool, cocoaIsMultiThreaded, tempPool>>
vars == <<statics, objects, locals, allocationFailed>>

Steps == {"idle", "test", "swap", "reap", "prepare", "init", "publish", "retain", "reread",
          "using"}

\* A count may be negative: with one processor and a failed allocation a pool is
\* released once more than it was retained.
TypeOK ==
  /\ isMultiThreaded \in BOOLEAN
  /\ threadPoolIsMultiThreaded \in {0, 1}
  /\ defaultThreadPoolSingleton \in Pools \cup {NULL}
  /\ retainCount \in [Pools -> Int]
  /\ threadCount \in [Pools -> {0, Processors}]
  /\ autoreleased \in [Threads -> [Pools -> Nat]]
  /\ pc \in [Threads -> Steps]
  /\ currentPool \in [Threads -> Pools \cup {NULL}]
  /\ cocoaIsMultiThreaded \in [Threads -> BOOLEAN]
  /\ tempPool \in [Threads -> Pools \cup {NULL}]
  /\ allocationFailed \in BOOLEAN

Init ==
  /\ isMultiThreaded = FALSE
  /\ threadPoolIsMultiThreaded = 0
  /\ defaultThreadPoolSingleton = NULL
  /\ retainCount = [p \in Pools |-> 0]
  /\ threadCount = [p \in Pools |-> 0]
  /\ autoreleased = [t \in Threads |-> [p \in Pools |-> 0]]
  /\ pc = [t \in Threads |-> "idle"]
  /\ currentPool = [t \in Threads |-> NULL]
  /\ cocoaIsMultiThreaded = [t \in Threads |-> FALSE]
  /\ tempPool = [t \in Threads |-> NULL]
  /\ allocationFailed = FALSE

Goto(t, step) == pc' = [pc EXCEPT ![t] = step]
Hold(t, p) == currentPool' = [currentPool EXCEPT ![t] = p]
Autorelease(t, p, n) == autoreleased' = [autoreleased EXCEPT ![t][p] = @ + n]

\* RKAtomicCompareAndSwapPtr: where t goes on if the default pool is the old one
\* and is exchanged for the new, and where if it is not.
CompareAndSwap(t, old, new, succeeds, fails) ==
  \/ /\ defaultThreadPoolSingleton = old
     /\ defaultThreadPoolSingleton' = new
     /\ Goto(t, succeeds)
  \/ /\ defaultThreadPoolSingleton # old
     /\ Goto(t, fails)
     /\ UNCHANGED defaultThreadPoolSingleton

\* The main thread detaches the others, not from within a call.
DetachThreads ==
  /\ ~isMultiThreaded /\ pc[Main] = "idle"
  /\ isMultiThreaded' = TRUE
  /\ UNCHANGED <<threadPoolIsMultiThreaded, defaultThreadPoolSingleton, objects, locals,
                 allocationFailed>>

Call(t) ==
  /\ pc[t] = "idle" /\ (t = Main \/ isMultiThreaded)
  /\ Hold(t, defaultThreadPoolSingleton)
  /\ cocoaIsMultiThreaded' = [cocoaIsMultiThreaded EXCEPT ![t] = isMultiThreaded]
  /\ tempPool' = [tempPool EXCEPT ![t] = NULL]
  /\ Goto(t, "test")
  /\ UNCHANGED <<statics, objects, allocationFailed>>

\* Mutant: the default pool is replaced in any multithreaded program.
MustReplaceAlways(t) == cocoaIsMultiThreaded[t] /\ currentPool[t] # NULL

\* The pool t has read must be replaced.
MustReplace(t) ==
  threadPoolIsMultiThreaded = 0 /\ cocoaIsMultiThreaded[t] /\ currentPool[t] # NULL

Test(t) ==
  /\ pc[t] = "test"
  /\ Goto(t, IF MustReplace(t) THEN "swap"
             ELSE IF currentPool[t] = NULL THEN "prepare" ELSE "using")
  /\ UNCHANGED <<statics, objects, currentPool, cocoaIsMultiThreaded, tempPool, allocationFailed>>

\* Mutant: the default pool is removed whatever it is by now.
SwapOutAny(t) ==
  /\ pc[t] = "swap"
  /\ CompareAndSwap(t, defaultThreadPoolSingleton, NULL, "reap", "prepare")
  /\ UNCHANGED currentPool
  /\ UNCHANGED <<isMultiThreaded, threadPoolIsMultiThreaded, objects, cocoaIsMultiThreaded,
                 tempPool, allocationFailed>>

\* Who takes the default pool away is the one to reap it.
SwapOut(t) ==
  /\ pc[t] = "swap"
  /\ CompareAndSwap(t, currentPool[t], NULL, "reap", "prepare")
  /\ Hold(t, IF defaultThreadPoolSingleton = currentPool[t] THEN currentPool[t] ELSE NULL)
  /\ UNCHANGED <<isMultiThreaded, threadPoolIsMultiThreaded, objects, cocoaIsMultiThreaded,
                 tempPool, allocationFailed>>

\* reapThreads returns at once from a pool without threads, and from no other.
Reap(t) ==
  /\ pc[t] = "reap" /\ threadCount[currentPool[t]] = 0
  /\ Autorelease(t, currentPool[t], 1)
  /\ Hold(t, NULL)
  /\ Goto(t, "prepare")
  /\ UNCHANGED <<statics, retainCount, threadCount, cocoaIsMultiThreaded, tempPool,
                 allocationFailed>>

Flag(multi) == IF multi THEN 1 ELSE 0

Prepare(t) ==
  /\ pc[t] = "prepare"
  /\ threadPoolIsMultiThreaded' = Flag(cocoaIsMultiThreaded[t])
  /\ Goto(t, "init")
  /\ UNCHANGED <<isMultiThreaded, defaultThreadPoolSingleton, objects, currentPool,
                 cocoaIsMultiThreaded, tempPool, allocationFailed>>

\* initWithThreadCount: makes an object with two references, both given to the
\* autorelease pool, and a thread per processor, each with a reference.
InitPool(t) ==
  /\ pc[t] = "init"
  /\ threadPoolIsMultiThreaded' = Flag(isMultiThreaded)
  /\ \E p \in {q \in Pools : retainCount[q] = 0} :
       /\ tempPool' = [tempPool EXCEPT ![t] = p]
       /\ LET workers == IF ~cocoaIsMultiThreaded[t] \/ Processors = 1 \/ ~isMultiThreaded
                         THEN 0 ELSE Processors
          IN  /\ threadCount' = [threadCount EXCEPT ![p] = workers]
              /\ retainCount' = [retainCount EXCEPT ![p] = 2 + workers]
       /\ Autorelease(t, p, 2)
  /\ Goto(t, "publish")
  /\ UNCHANGED <<isMultiThreaded, defaultThreadPoolSingleton, currentPool, cocoaIsMultiThreaded,
                 allocationFailed>>

\* There is no memory for it, and tempThreadPoolSingleton is NULL.
InitPoolFails(t) ==
  /\ pc[t] = "init"
  /\ Goto(t, "publish")
  /\ allocationFailed' = TRUE
  /\ UNCHANGED <<statics, objects, currentPool, cocoaIsMultiThreaded, tempPool>>

Publish(t) ==
  /\ pc[t] = "publish"
  /\ CompareAndSwap(t, NULL, tempPool[t], "retain", "reread")
  /\ UNCHANGED <<isMultiThreaded, threadPoolIsMultiThreaded, objects, currentPool,
                 cocoaIsMultiThreaded, tempPool, allocationFailed>>

\* Mutant: the default pool is not retained.
RetainNothing(t) ==
  /\ pc[t] = "retain"
  /\ Goto(t, "reread")
  /\ UNCHANGED <<statics, objects, currentPool, cocoaIsMultiThreaded, tempPool, allocationFailed>>

\* What is retained is the default pool as it is now.
Retain(t) ==
  /\ pc[t] = "retain"
  /\ retainCount' = IF defaultThreadPoolSingleton = NULL THEN retainCount
                    ELSE [retainCount EXCEPT ![defaultThreadPoolSingleton] = @ + 1]
  /\ Goto(t, "reread")
  /\ UNCHANGED <<statics, threadCount, autoreleased, currentPool, cocoaIsMultiThreaded, tempPool,
                 allocationFailed>>

Reread(t) ==
  /\ pc[t] = "reread"
  /\ Hold(t, defaultThreadPoolSingleton)
  /\ Goto(t, "using")
  /\ UNCHANGED <<statics, objects, cocoaIsMultiThreaded, tempPool, allocationFailed>>

\* The caller is done with the pool.
Finish(t) ==
  /\ pc[t] = "using"
  /\ Hold(t, NULL)
  /\ Goto(t, "idle")
  /\ UNCHANGED <<statics, objects, cocoaIsMultiThreaded, tempPool, allocationFailed>>

\* The autorelease pool of t releases what it holds; objects without references
\* are deallocated.
Drain(t) ==
  /\ pc[t] = "idle"
  /\ \E p \in Pools : autoreleased[t][p] # 0
  /\ retainCount' = [p \in Pools |-> retainCount[p] - autoreleased[t][p]]
  /\ autoreleased' = [autoreleased EXCEPT ![t] = [p \in Pools |-> 0]]
  /\ UNCHANGED <<statics, threadCount, locals, allocationFailed>>

DefaultThreadPool(t) ==
  \/ Call(t)
  \/ Test(t)
  \/ SwapOut(t)
  \/ Reap(t)
  \/ Prepare(t)
  \/ InitPool(t)
  \/ InitPoolFails(t)
  \/ Publish(t)
  \/ Retain(t)
  \/ Reread(t)

Next ==
  \/ DetachThreads
  \/ \E t \in Threads : DefaultThreadPool(t) \/ Finish(t) \/ Drain(t)

Spec == Init /\ [][Next]_vars

-------------------------------------------------------------------------------
Default == defaultThreadPoolSingleton
HasThreads(p) == p # NULL /\ threadCount[p] # 0
WillRetain == \E t \in Threads : pc[t] = "retain"

\* The pool that has worker threads and became the default pool is the default
\* pool for ever: no thread that still thinks it has to replace the one without
\* threads replaces it.  After a failed allocation one may: the old pool can be
\* deallocated before there is a new one, which is then made at its address.
DefaultPoolStays ==
  [][HasThreads(Default) /\ ~allocationFailed => Default' = Default]_vars

\* Only a pool without threads is reaped, so that reapThreads, which waits for
\* threads it does not wake (RKThreadPool.m:166), ends; and one thread reaps it.
ReapedHasNoThreads ==
  \A t \in Threads :
    pc[t] = "reap" /\ ~allocationFailed =>
      /\ currentPool[t] # NULL /\ threadCount[currentPool[t]] = 0
      /\ currentPool[t] # Default
      /\ \A u \in Threads \ {t} : ~(pc[u] = "reap" /\ currentPool[u] = currentPool[t])
===============================================================================
