----------------------------- MODULE RKThreadPool -----------------------------
(***************************************************************************)
(* RKThreadPool.m: a fixed set of worker threads that all execute one      *)
(* caller's function at the same time.  A caller claims a job slot, hands  *)
(* the slot to every worker it finds asleep through a four step handshake  *)
(* on the worker's RKConditionLock, and waits for the last worker to mark  *)
(* the slot completed.                                                     *)
(*                                                                         *)
(* An RKConditionLock is its owner and its condition.  A critical section  *)
(* whose reads and writes are all protected by the lock it holds is one    *)
(* action, enabled when the lock is free and has the condition waited for; *)
(* the lock stays visible as held (lockOwner, jobOwner) only where a       *)
(* thread does something else that others can see before it unlocks.       *)
(***************************************************************************)
EXTENDS Integers, FiniteSets

CONSTANTS
  ThreadCount,  \* threadCount: the number of workers, and of job slots
  Callers,      \* the threads that call threadFunction:argument:
  Reapers,      \* the threads that call reapThreads
  None          \* no thread, no job, NULL

Threads == 0 .. (ThreadCount - 1)

ASSUME ThreadPoolAssumption ==
  /\ ThreadCount \in Nat \ {0}
  /\ None \notin Callers
  /\ None \notin Int
  /\ Callers \cap Threads = {}

VARIABLES
  threadPoolControl,   \* 0, or RKThreadPoolStop while threads are reaped
  liveThreads,         \* workers between start up and exit
  lockOwner,           \* who holds locks[t]
  lockCond,            \* the condition of locks[t]
  threadQueue,         \* the job slot handed to worker t, or None
  jobOwner,            \* who holds jobs[j].jobLock
  jobCond,             \* the condition of jobs[j].jobLock
  jobArgument,         \* jobs[j].jobArgument: the caller whose stack it is on
  activeThreadsCount,  \* jobs[j].activeThreadsCount
  workerPc, currentJob, workArgument,    \* each worker's locals
  callerPc, runJob, at, startedJobThreads, \* each caller's locals
  reaperPc, reapAt                       \* each reaper's locals

lockVars   == <<lockOwner, lockCond, threadQueue>>
jobVars    == <<jobOwner, jobCond, jobArgument, activeThreadsCount>>
workerVars == <<workerPc, currentJob, workArgument>>
callerVars == <<callerPc, runJob, at, startedJobThreads>>
reaperVars == <<reaperPc, reapAt>>
poolVars   == <<threadPoolControl, liveThreads>>
vars == <<poolVars, lockVars, jobVars, workerVars, callerVars, reaperVars>>

RKThreadPoolStop == 1
\* threadPoolControl & RKThreadPoolStop
Stopping == threadPoolControl = RKThreadPoolStop
\* RKThreadPoolStop & RKThreadPoolThreadsReaped, as reapThreads writes it:
\* the two flags are 1 and 2, so the word becomes 0 and not 3.
ControlAfterReap == 0

ThreadConditions ==
  {"NotRunning", "Starting", "Sleeping", "Wakeup", "Awake", "RunningJob"}
JobConditions == {"Available", "Executing", "Finishing", "Completed"}

\* The workers are detached by the initialiser; none need have run yet when
\* the pool is first used.
Init ==
  /\ threadPoolControl = 0
  /\ liveThreads = 0
  /\ lockOwner = [t \in Threads |-> None]
  /\ lockCond = [t \in Threads |-> "Starting"]
  /\ threadQueue = [t \in Threads |-> None]
  /\ jobOwner = [j \in Threads |-> None]
  /\ jobCond = [j \in Threads |-> "Available"]
  /\ jobArgument = [j \in Threads |-> None]
  /\ activeThreadsCount = [j \in Threads |-> 0]
  /\ workerPc = [t \in Threads |-> "new"]
  /\ currentJob = [t \in Threads |-> None]
  /\ workArgument = [t \in Threads |-> None]
  /\ callerPc = [c \in Callers |-> "idle"]
  /\ runJob = [c \in Callers |-> None]
  /\ at = [c \in Callers |-> ThreadCount]
  /\ startedJobThreads = [c \in Callers |-> 0]
  /\ reaperPc = [r \in Reapers |-> "idle"]
  /\ reapAt = [r \in Reapers |-> ThreadCount]

-------------------------------------------------------------------------------
\* threadFunction:argument:, first half: find a job slot.  `at' is the index
\* of the for loop; at ThreadCount the enclosing while loop tests again.

CallerStep(c, from, to) ==
  /\ callerPc[c] = from
  /\ callerPc' = [callerPc EXCEPT ![c] = to]

LockFree(t, condition) == lockOwner[t] = None /\ lockCond[t] = condition

\* One processor, one active processor, a single threaded pool or no live
\* thread: the function is executed by the caller.  The processor counts are
\* the environment's, so this is always possible.
CallInline(c) ==
  /\ CallerStep(c, "idle", "inline")
  /\ UNCHANGED <<poolVars, lockVars, jobVars, workerVars, reaperVars,
                 runJob, at, startedJobThreads>>

CallPool(c) ==
  /\ CallerStep(c, "idle", "slot")
  /\ liveThreads # 0
  /\ UNCHANGED <<poolVars, lockVars, jobVars, workerVars, reaperVars,
                 runJob, at, startedJobThreads>>

\* Mutant: a pool that is being reaped returns at once.
SlotRoundNoFallback(c) ==
  /\ at[c] = ThreadCount
  /\ CallerStep(c, "slot", IF Stopping THEN "return" ELSE "slotLive")
  /\ UNCHANGED <<poolVars, lockVars, jobVars, workerVars, reaperVars,
                 runJob, at, startedJobThreads>>

\* while(runJob == NULL && not stopping && liveThreads > 0): no lock protects
\* the two words, and they are read one after the other.
SlotRound(c) ==
  /\ at[c] = ThreadCount
  /\ CallerStep(c, "slot", IF Stopping THEN "inline" ELSE "slotLive")
  /\ UNCHANGED <<poolVars, lockVars, jobVars, workerVars, reaperVars,
                 runJob, at, startedJobThreads>>

SlotRoundLive(c) ==
  /\ callerPc[c] = "slotLive"
  /\ IF liveThreads = 0
     THEN /\ callerPc' = [callerPc EXCEPT ![c] = "inline"]
          /\ UNCHANGED at
     ELSE /\ callerPc' = [callerPc EXCEPT ![c] = "slot"]
          /\ at' = [at EXCEPT ![c] = 0]
  /\ UNCHANGED <<poolVars, lockVars, jobVars, workerVars, reaperVars,
                 runJob, startedJobThreads>>

\* The try succeeded: fill the slot in and unlock it as Executing.
SlotAcquire(c) ==
  LET j == at[c] IN
  /\ at[c] < ThreadCount
  /\ CallerStep(c, "slot", "start")
  /\ jobOwner[j] = None
  /\ jobCond[j] = "Available"
  /\ runJob' = [runJob EXCEPT ![c] = j]
  /\ jobArgument' = [jobArgument EXCEPT ![j] = c]
  /\ jobCond' = [jobCond EXCEPT ![j] = "Executing"]
  /\ at' = [at EXCEPT ![c] = ThreadCount]
  /\ UNCHANGED <<poolVars, lockVars, workerVars, reaperVars, jobOwner,
                 activeThreadsCount, startedJobThreads>>

\* The try failed.  It may fail on a free slot too: trying does not wait for
\* the lock's mutex, and a timed wait can run out.
SlotSkip(c) ==
  /\ callerPc[c] = "slot"
  /\ at[c] < ThreadCount
  /\ at' = [at EXCEPT ![c] = @ + 1]
  /\ UNCHANGED <<poolVars, lockVars, jobVars, workerVars, reaperVars,
                 callerPc, runJob, startedJobThreads>>

\* function(argument) on the caller's own thread, without a slot.
RunInline(c) ==
  /\ CallerStep(c, "inline", "executing")
  /\ UNCHANGED <<poolVars, lockVars, jobVars, workerVars, reaperVars,
                 runJob, at, startedJobThreads>>

InlineDone(c) ==
  /\ CallerStep(c, "executing", "return")
  /\ UNCHANGED <<poolVars, lockVars, jobVars, workerVars, reaperVars,
                 runJob, at, startedJobThreads>>

Return(c) ==
  /\ CallerStep(c, "return", "idle")
  /\ at' = [at EXCEPT ![c] = ThreadCount]
  /\ startedJobThreads' = [startedJobThreads EXCEPT ![c] = 0]
  /\ UNCHANGED <<poolVars, lockVars, jobVars, workerVars, reaperVars, runJob>>

-------------------------------------------------------------------------------
\* Second half: start workers on the slot and wait for them.

\* The end of the starting loop: with no worker started the function is
\* executed by the caller, which leaves the slot's condition as it is.
StartEnd(c) == IF startedJobThreads[c] = 0 THEN "fallback" ELSE "join"

\* while(the slot is Executing && started < liveThreads && not stopping): three
\* words that change under other locks or none, read one after the other.
StartRound(c) ==
  /\ at[c] = ThreadCount
  /\ CallerStep(c, "start",
       IF jobCond[runJob[c]] = "Executing" THEN "startLive" ELSE StartEnd(c))
  /\ UNCHANGED <<poolVars, lockVars, jobVars, workerVars, reaperVars,
                 runJob, at, startedJobThreads>>

\* Mutant: the last live worker is never asked for.
StartRoundOffByOne(c) ==
  /\ CallerStep(c, "startLive",
       IF startedJobThreads[c] + 1 < liveThreads THEN "startControl" ELSE StartEnd(c))
  /\ UNCHANGED <<poolVars, lockVars, jobVars, workerVars, reaperVars,
                 runJob, at, startedJobThreads>>

StartRoundLive(c) ==
  /\ CallerStep(c, "startLive",
       IF startedJobThreads[c] < liveThreads THEN "startControl" ELSE StartEnd(c))
  /\ UNCHANGED <<poolVars, lockVars, jobVars, workerVars, reaperVars,
                 runJob, at, startedJobThreads>>

StartRoundControl(c) ==
  /\ callerPc[c] = "startControl"
  /\ IF Stopping
     THEN /\ callerPc' = [callerPc EXCEPT ![c] = StartEnd(c)]
          /\ UNCHANGED at
     ELSE /\ callerPc' = [callerPc EXCEPT ![c] = "start"]
          /\ at' = [at EXCEPT ![c] = 0]
  /\ UNCHANGED <<poolVars, lockVars, jobVars, workerVars, reaperVars,
                 runJob, startedJobThreads>>

\* Mutant: the worker's lock is taken whatever its condition.
StartWorkerAnyCondition(c) ==
  LET t == at[c] IN
  /\ at[c] < ThreadCount
  /\ CallerStep(c, "start", "handshake")
  /\ jobCond[runJob[c]] = "Executing"
  /\ lockOwner[t] = None
  /\ threadQueue' = [threadQueue EXCEPT ![t] = runJob[c]]
  /\ lockCond' = [lockCond EXCEPT ![t] = "Wakeup"]
  /\ UNCHANGED <<poolVars, jobVars, workerVars, reaperVars, lockOwner,
                 runJob, at, startedJobThreads>>

\* The worker is asleep and the slot still Executing: queue the slot, wake it.
StartWorker(c) ==
  LET t == at[c] IN
  /\ at[c] < ThreadCount
  /\ CallerStep(c, "start", "handshake")
  /\ jobCond[runJob[c]] = "Executing"
  /\ LockFree(t, "Sleeping")
  /\ threadQueue' = [threadQueue EXCEPT ![t] = runJob[c]]
  /\ lockCond' = [lockCond EXCEPT ![t] = "Wakeup"]
  /\ UNCHANGED <<poolVars, jobVars, workerVars, reaperVars, lockOwner,
                 runJob, at, startedJobThreads>>

\* The try failed, or the slot was no longer Executing under the lock.
SkipWorker(c) ==
  /\ callerPc[c] = "start"
  /\ at[c] < ThreadCount
  /\ at' = [at EXCEPT ![c] =
              IF jobCond[runJob[c]] = "Executing" THEN @ + 1 ELSE ThreadCount]
  /\ UNCHANGED <<poolVars, lockVars, jobVars, workerVars, reaperVars,
                 callerPc, runJob, startedJobThreads>>

\* Wait until the worker has looked at its queue, and let it go on.
Handshake(c) ==
  LET t == at[c] IN
  /\ CallerStep(c, "handshake", "handshaken")
  /\ LockFree(t, "Awake")
  /\ lockCond' = [lockCond EXCEPT ![t] = "RunningJob"]
  /\ startedJobThreads' = [startedJobThreads EXCEPT ![c] = @ + 1]
  /\ UNCHANGED <<poolVars, jobVars, workerVars, reaperVars, lockOwner,
                 threadQueue, runJob, at>>

\* if(startedJobThreads >= liveThreads) { goto exitLoop; }
Handshaken(c) ==
  /\ callerPc[c] = "handshaken"
  /\ IF startedJobThreads[c] >= liveThreads
     THEN /\ callerPc' = [callerPc EXCEPT ![c] = "join"]
          /\ at' = [at EXCEPT ![c] = ThreadCount]
     ELSE /\ callerPc' = [callerPc EXCEPT ![c] = "start"]
          /\ at' = [at EXCEPT ![c] = @ + 1]
  /\ UNCHANGED <<poolVars, lockVars, jobVars, workerVars, reaperVars,
                 runJob, startedJobThreads>>

FallbackDone(c) ==
  /\ CallerStep(c, "fallback", "fallbackLock")
  /\ UNCHANGED <<poolVars, lockVars, jobVars, workerVars, reaperVars,
                 runJob, at, startedJobThreads>>

JobLock(c, to) ==
  /\ jobOwner[runJob[c]] = None
  /\ jobOwner' = [jobOwner EXCEPT ![runJob[c]] = c]
  /\ callerPc' = [callerPc EXCEPT ![c] = to]
  /\ UNCHANGED <<poolVars, lockVars, workerVars, reaperVars, jobCond,
                 jobArgument, activeThreadsCount, runJob, at, startedJobThreads>>

FallbackLock(c) ==
  /\ callerPc[c] = "fallbackLock"
  /\ JobLock(c, "reset")

\* RKConditionLockTryAnyCondition does not wait for the lock's mutex; when it
\* returns NO the code raises, and the slot stays Executing.
FallbackRaise(c) ==
  /\ CallerStep(c, "fallbackLock", "raised")
  /\ UNCHANGED <<poolVars, lockVars, jobVars, workerVars, reaperVars,
                 runJob, at, startedJobThreads>>

\* Mutant: the caller stops waiting at the first worker that leaves.
JoinFinishing(c) ==
  /\ callerPc[c] = "join"
  /\ jobCond[runJob[c]] \in {"Finishing", "Completed"}
  /\ JobLock(c, "reset")

\* Lock the slot's lock when Completed.
JoinCompleted(c) ==
  /\ callerPc[c] = "join"
  /\ jobCond[runJob[c]] = "Completed"
  /\ JobLock(c, "reset")

\* Mutant: the slot is left Completed.
ResetKeepsCondition(c) ==
  LET j == runJob[c] IN
  /\ CallerStep(c, "reset", "return")
  /\ jobArgument' = [jobArgument EXCEPT ![j] = None]
  /\ jobOwner' = [jobOwner EXCEPT ![j] = None]
  /\ runJob' = [runJob EXCEPT ![c] = None]
  /\ UNCHANGED <<poolVars, lockVars, workerVars, reaperVars, jobCond,
                 activeThreadsCount, at, startedJobThreads>>

\* The caller holds the job lock here: the two NSParameterAsserts that come
\* first are AssertionsHold below.
Reset(c) ==
  LET j == runJob[c] IN
  /\ CallerStep(c, "reset", "return")
  /\ jobArgument' = [jobArgument EXCEPT ![j] = None]
  /\ jobCond' = [jobCond EXCEPT ![j] = "Available"]
  /\ jobOwner' = [jobOwner EXCEPT ![j] = None]
  /\ runJob' = [runJob EXCEPT ![c] = None]
  /\ UNCHANGED <<poolVars, lockVars, workerVars, reaperVars,
                 activeThreadsCount, at, startedJobThreads>>

-------------------------------------------------------------------------------
\* workerThreadStart:

WorkerStep(w, from, to) ==
  /\ workerPc[w] = from
  /\ workerPc' = [workerPc EXCEPT ![w] = to]

Boot(w) ==
  /\ WorkerStep(w, "new", "starting")
  /\ liveThreads' = liveThreads + 1
  /\ UNCHANGED <<threadPoolControl, lockVars, jobVars, callerVars, reaperVars,
                 currentJob, workArgument>>

Ready(w) ==
  /\ WorkerStep(w, "starting", "loop")
  /\ LockFree(w, "Starting")
  /\ lockCond' = [lockCond EXCEPT ![w] = "Sleeping"]
  /\ UNCHANGED <<poolVars, jobVars, callerVars, reaperVars, lockOwner,
                 threadQueue, currentJob, workArgument>>

\* while(not stopping)
LoopTest(w) ==
  /\ workerPc[w] = "loop"
  /\ workerPc' = [workerPc EXCEPT ![w] = IF Stopping THEN "exit" ELSE "sleep"]
  /\ UNCHANGED <<poolVars, lockVars, jobVars, callerVars, reaperVars,
                 currentJob, workArgument>>

\* The worker now holds its lock, and keeps it when it breaks out of the loop.
Wake(w) ==
  /\ workerPc[w] = "sleep"
  /\ LockFree(w, "Wakeup")
  /\ lockOwner' = [lockOwner EXCEPT ![w] = w]
  /\ workerPc' = [workerPc EXCEPT ![w] = IF Stopping THEN "exit" ELSE "woken"]
  /\ UNCHANGED <<poolVars, jobVars, callerVars, reaperVars, lockCond,
                 threadQueue, currentJob, workArgument>>

\* Under both locks: join the queued slot if it is still Executing, empty the
\* queue and unlock as Awake.
TakeJob(w) ==
  LET j == threadQueue[w] IN
  /\ workerPc[w] = "woken"
  /\ j # None => jobOwner[j] = None
  /\ IF j # None /\ jobCond[j] = "Executing"
     THEN /\ currentJob' = [currentJob EXCEPT ![w] = j]
          /\ activeThreadsCount' = [activeThreadsCount EXCEPT ![j] = @ + 1]
          /\ workerPc' = [workerPc EXCEPT ![w] = "call"]
     ELSE /\ workerPc' = [workerPc EXCEPT ![w] = "finish"]
          /\ UNCHANGED <<currentJob, activeThreadsCount>>
  /\ threadQueue' = [threadQueue EXCEPT ![w] = None]
  /\ lockCond' = [lockCond EXCEPT ![w] = "Awake"]
  /\ lockOwner' = [lockOwner EXCEPT ![w] = None]
  /\ UNCHANGED <<poolVars, callerVars, reaperVars, jobOwner, jobCond,
                 jobArgument, workArgument>>

\* The slot's function and argument are read with no lock held.
Execute(w) ==
  /\ WorkerStep(w, "call", "executing")
  /\ workArgument' = [workArgument EXCEPT ![w] = jobArgument[currentJob[w]]]
  /\ UNCHANGED <<poolVars, lockVars, jobVars, callerVars, reaperVars, currentJob>>

\* Mutants: the count is tested before it is decremented; every worker that
\* leaves completes the slot.
LeaveJobLateTest(w) ==
  LET j == currentJob[w] IN
  /\ WorkerStep(w, "executing", "finish")
  /\ jobOwner[j] = None
  /\ activeThreadsCount' = [activeThreadsCount EXCEPT ![j] = @ - 1]
  /\ jobCond' = [jobCond EXCEPT ![j] =
                   IF activeThreadsCount[j] = 0 THEN "Completed" ELSE "Finishing"]
  /\ currentJob' = [currentJob EXCEPT ![w] = None]
  /\ workArgument' = [workArgument EXCEPT ![w] = None]
  /\ UNCHANGED <<poolVars, lockVars, callerVars, reaperVars, jobOwner, jobArgument>>

LeaveJobCompletes(w) ==
  LET j == currentJob[w] IN
  /\ WorkerStep(w, "executing", "finish")
  /\ jobOwner[j] = None
  /\ activeThreadsCount' = [activeThreadsCount EXCEPT ![j] = @ - 1]
  /\ jobCond' = [jobCond EXCEPT ![j] = "Completed"]
  /\ currentJob' = [currentJob EXCEPT ![w] = None]
  /\ workArgument' = [workArgument EXCEPT ![w] = None]
  /\ UNCHANGED <<poolVars, lockVars, callerVars, reaperVars, jobOwner, jobArgument>>

\* The function has returned: leave the slot, the last one completes it.
LeaveJob(w) ==
  LET j == currentJob[w] IN
  /\ WorkerStep(w, "executing", "finish")
  /\ jobOwner[j] = None
  /\ activeThreadsCount' = [activeThreadsCount EXCEPT ![j] = @ - 1]
  /\ jobCond' = [jobCond EXCEPT ![j] =
                   IF activeThreadsCount[j] = 1 THEN "Completed" ELSE "Finishing"]
  /\ currentJob' = [currentJob EXCEPT ![w] = None]
  /\ workArgument' = [workArgument EXCEPT ![w] = None]
  /\ UNCHANGED <<poolVars, lockVars, callerVars, reaperVars, jobOwner, jobArgument>>

Resleep(w) ==
  /\ WorkerStep(w, "finish", "loop")
  /\ LockFree(w, "RunningJob")
  /\ lockCond' = [lockCond EXCEPT ![w] = "Sleeping"]
  /\ UNCHANGED <<poolVars, jobVars, callerVars, reaperVars, lockOwner,
                 threadQueue, currentJob, workArgument>>

\* exitThread: no path of the loop leaves it with a current job.
Exit(w) ==
  /\ WorkerStep(w, "exit", "exiting")
  /\ lockOwner[w] \in {None, w}
  /\ lockOwner' = [lockOwner EXCEPT ![w] = None]
  /\ lockCond' = [lockCond EXCEPT ![w] = "NotRunning"]
  /\ UNCHANGED <<poolVars, jobVars, callerVars, reaperVars, threadQueue,
                 currentJob, workArgument>>

Exited(w) ==
  /\ WorkerStep(w, "exiting", "dead")
  /\ liveThreads' = liveThreads - 1
  /\ UNCHANGED <<threadPoolControl, lockVars, jobVars, callerVars, reaperVars,
                 currentJob, workArgument>>

-------------------------------------------------------------------------------
\* reapThreads.  wakeThread: locks the thread's lock on any condition, or
\* times out, and unlocks it with the condition it had: it changes nothing.

ReapBegin(r) ==
  /\ reaperPc[r] = "idle"
  /\ reaperPc' = [reaperPc EXCEPT ![r] = "reaping"]
  /\ threadPoolControl' =
       IF threadPoolControl = 0 THEN RKThreadPoolStop ELSE threadPoolControl
  /\ UNCHANGED <<liveThreads, lockVars, jobVars, workerVars, callerVars, reapAt>>

ReapRound(r) ==
  /\ reaperPc[r] = "reaping"
  /\ reapAt[r] = ThreadCount
  /\ liveThreads # 0
  /\ reapAt' = [reapAt EXCEPT ![r] = 0]
  /\ UNCHANGED <<poolVars, lockVars, jobVars, workerVars, callerVars, reaperPc>>

WakeThread(r) ==
  /\ reaperPc[r] = "reaping"
  /\ reapAt[r] < ThreadCount
  /\ reapAt' = [reapAt EXCEPT ![r] = @ + 1]
  /\ UNCHANGED <<poolVars, lockVars, jobVars, workerVars, callerVars, reaperPc>>

ReapEnd(r) ==
  /\ reaperPc[r] = "reaping"
  /\ reapAt[r] = ThreadCount
  /\ liveThreads = 0
  /\ reaperPc' = [reaperPc EXCEPT ![r] = "reaped"]
  /\ threadPoolControl' =
       IF Stopping THEN ControlAfterReap ELSE threadPoolControl
  /\ UNCHANGED <<liveThreads, lockVars, jobVars, workerVars, callerVars, reapAt>>

-------------------------------------------------------------------------------
\* Every caller step but the decision to call.
CallerProgress(c) ==
  \/ SlotRound(c) \/ SlotRoundLive(c) \/ SlotSkip(c) \/ SlotAcquire(c)
  \/ RunInline(c) \/ InlineDone(c) \/ Return(c)
  \/ StartRound(c) \/ StartRoundLive(c) \/ StartRoundControl(c)
  \/ StartWorker(c) \/ SkipWorker(c) \/ Handshake(c) \/ Handshaken(c)
  \/ FallbackDone(c) \/ FallbackLock(c) \/ FallbackRaise(c)
  \/ JoinCompleted(c) \/ Reset(c)

CallerNext(c) == CallInline(c) \/ CallPool(c) \/ CallerProgress(c)

WorkerNext(w) ==
  \/ Boot(w) \/ Ready(w) \/ LoopTest(w) \/ Wake(w) \/ TakeJob(w)
  \/ Execute(w) \/ LeaveJob(w) \/ Resleep(w) \/ Exit(w) \/ Exited(w)

ReaperNext(r) ==
  ReapBegin(r) \/ ReapRound(r) \/ WakeThread(r) \/ ReapEnd(r)

Next ==
  \/ \E c \in Callers : CallerNext(c)
  \/ \E w \in Threads : WorkerNext(w)
  \/ \E r \in Reapers : ReaperNext(r)

Spec == Init /\ [][Next]_vars

\* Every thread that can go on does, functions return, and a thread that
\* tries again and again to take a lock that is free again and again gets it.
Fairness ==
  /\ \A w \in Threads : WF_vars(WorkerNext(w))
  /\ \A r \in Reapers : WF_vars(ReapRound(r) \/ WakeThread(r) \/ ReapEnd(r))
  /\ \A c \in Callers : /\ WF_vars(CallerProgress(c))
                        /\ SF_vars(SlotAcquire(c))
                        /\ SF_vars(StartWorker(c))

FairSpec == Spec /\ Fairness

-------------------------------------------------------------------------------
\* Properties.

CallerPcs == {"idle", "inline", "executing", "return", "slot", "slotLive", "start",
              "startLive", "startControl", "handshake", "handshaken", "join",
              "reset", "fallback", "fallbackLock", "raised"}
WorkerPcs == {"new", "starting", "loop", "sleep", "woken", "call", "executing",
              "finish", "exit", "exiting", "dead"}

\* Every variable holds a value of its type (the declarations of
\* RKThreadPoolJob, of the pool's ivars and of the locals of both methods).
TypeOK ==
  /\ threadPoolControl \in {0, RKThreadPoolStop}
  /\ liveThreads \in 0 .. ThreadCount
  /\ lockOwner \in [Threads -> Threads \cup {None}]
  /\ lockCond \in [Threads -> ThreadConditions]
  /\ threadQueue \in [Threads -> Threads \cup {None}]
  /\ jobOwner \in [Threads -> Callers \cup {None}]
  /\ jobCond \in [Threads -> JobConditions]
  /\ jobArgument \in [Threads -> Callers \cup {None}]
  /\ activeThreadsCount \in [Threads -> 0 .. ThreadCount]
  /\ workerPc \in [Threads -> WorkerPcs]
  /\ currentJob \in [Threads -> Threads \cup {None}]
  /\ workArgument \in [Threads -> Callers \cup {None}]
  /\ callerPc \in [Callers -> CallerPcs]
  /\ runJob \in [Callers -> Threads \cup {None}]
  /\ at \in [Callers -> 0 .. ThreadCount]
  /\ startedJobThreads \in [Callers -> Nat]
  /\ reaperPc \in [Reapers -> {"idle", "reaping", "reaped"}]
  /\ reapAt \in [Reapers -> 0 .. ThreadCount]

InJob == {"start", "startLive", "startControl", "handshake", "handshaken", "join",
          "reset", "fallback", "fallbackLock"}

\* The argument is on the stack of the caller of threadFunction:argument:.
\* A worker that executes the function, or is about to read the argument from
\* the slot, does so only while that caller is still inside its call.
ArgumentLifetime ==
  \A w \in Threads :
    /\ workerPc[w] = "call" =>
         \E c \in Callers : /\ callerPc[c] \in InJob
                            /\ runJob[c] = currentJob[w]
                            /\ jobArgument[currentJob[w]] = c
    /\ workerPc[w] = "executing" =>
         \E c \in Callers : /\ callerPc[c] \in InJob
                            /\ runJob[c] = currentJob[w]
                            /\ workArgument[w] = c

\* activeThreadsCount counts the workers inside the slot, and a slot that is
\* Available or Completed has none: the caller that waits for Completed
\* returns with nobody left in its function.
JobAccounting ==
  \A j \in Threads :
    /\ activeThreadsCount[j] = Cardinality({w \in Threads : currentJob[w] = j})
    /\ jobCond[j] \in {"Available", "Completed"} => activeThreadsCount[j] = 0
    /\ jobCond[j] = "Finishing" => activeThreadsCount[j] > 0

\* Worker t will unlock its lock as Awake: it has not yet looked at its queue and
\* is on the way to it, or it has looked.  A worker that reapThreads stops
\* between line 334 and line 336 leaves instead.
WillAnswer(t) ==
  \/ lockCond[t] = "Wakeup" /\ workerPc[t] \in {"loop", "sleep", "woken"}
  \/ lockCond[t] = "Awake" /\ workerPc[t] \in {"call", "executing", "finish"}
  \/ Reapers # {} /\ workerPc[t] \in {"exit", "exiting", "dead"}

\* The handshake of lines 263 to 266 is between one caller and one worker.  A
\* slot in a worker's queue is that of a caller waiting there for this worker, so
\* no call returns with its slot still queued somewhere; a lock that is Wakeup or
\* Awake has such a caller, who alone takes it on to RunningJob; no two callers
\* wait for the same worker; and the worker a caller waits for will answer,
\* unless threads are reaped.
HandshakeInv ==
  /\ \A t \in Threads : threadQueue[t] # None =>
       /\ lockCond[t] \in {"Wakeup", "NotRunning"}
       /\ \E c \in Callers : /\ callerPc[c] = "handshake" /\ at[c] = t
                             /\ runJob[c] = threadQueue[t]
  /\ \A t \in Threads : lockCond[t] \in {"Wakeup", "Awake"} =>
       \E c \in Callers : callerPc[c] = "handshake" /\ at[c] = t
  /\ \A c, d \in Callers :
       callerPc[c] = "handshake" /\ callerPc[d] = "handshake" /\ at[c] = at[d] => c = d
  /\ \A c \in Callers : callerPc[c] = "handshake" => WillAnswer(at[c])

\* The NSParameterAsserts that hold whoever reaps the pool: those on the count and
\* on the function and argument of a slot just claimed (lines 247, 250 and 251),
\* on the condition of a job a worker leaves (line 351), and on the count of a
\* slot given back (line 289).
AssertionsHold ==
  /\ \A j \in Threads : (jobOwner[j] = None /\ jobCond[j] = "Available") =>
       activeThreadsCount[j] = 0 /\ jobArgument[j] = None
  /\ \A w \in Threads : workerPc[w] = "executing" =>
       jobCond[currentJob[w]] \in {"Executing", "Finishing"}
  /\ \A c \in Callers : callerPc[c] = "reset" =>
       activeThreadsCount[runJob[c]] = 0

\* The NSParameterAsserts that hold only of a pool nobody reaps: liveThreads > 0
\* where a slot can be claimed (line 253), startedJobThreads > 0 where it is given
\* back (line 288).
AssertionsUnreaped ==
  /\ \A c \in Callers :
       /\ callerPc[c] = "slot" /\ at[c] < ThreadCount
       /\ jobOwner[at[c]] = None /\ jobCond[at[c]] = "Available"
       => liveThreads > 0
  /\ \A c \in Callers : callerPc[c] = "reset" => startedJobThreads[c] > 0

\* Someone always gets through: while any call is under way, some call returns.
SomeCallReturns ==
  (\E c \in Callers : callerPc[c] # "idle") ~> (\E c \in Callers : callerPc[c] = "return")

\* A caller can lose every worker to callers that keep calling.  Once nobody
\* makes a new call, every call under way returns.
CallsStop == <>[][\A c \in Callers : callerPc[c] = "idle" => callerPc'[c] = "idle"]_vars
CallReturns ==
  CallsStop => \A c \in Callers : callerPc[c] # "idle" ~> callerPc[c] = "idle"

\* reapThreads returns (its while loop ends once every worker has exited).
ReapReturns == \A r \in Reapers : reaperPc[r] = "reaping" ~> reaperPc[r] = "reaped"

-------------------------------------------------------------------------------
\* The pool implements ParallelCall: a slot that is Finishing or Completed has
\* been executed to its end at least once.

Calling == {c \in Callers : callerPc[c] \notin {"idle", "raised"}}

Ran == {c \in Callers :
          \/ callerPc[c] \in {"return", "reset", "fallbackLock"}
          \/ /\ callerPc[c] \in InJob
             /\ jobCond[runJob[c]] \in {"Finishing", "Completed"}}

Executing == [e \in Threads \cup Callers |->
                IF e \in Threads THEN workArgument[e]
                ELSE IF callerPc[e] \in {"executing", "fallback"} THEN e ELSE None]

Promise == INSTANCE ParallelCall WITH
  Executors <- Threads \cup Callers,
  calling <- Calling, ran <- Ran, executing <- Executing

\* Every call returns only after its function was executed to its end and when
\* no thread executes it any more.
ImplementsParallelCall == Promise!Spec
===============================================================================
