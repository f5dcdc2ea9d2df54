--------------------------- MODULE RKThreadPoolProofs ---------------------------
(***************************************************************************)
(* Safety of the thread pool for every number of workers and callers.  The *)
(* argument: a slot names its caller from the moment it is claimed until   *)
(* it is given back (SlotOwned); a worker gets into a slot only through a  *)
(* handshake with that caller (Handshaking); so the caller of a slot with  *)
(* workers in it has counted at least one of them and is bound to wait for *)
(* Completed (WorkersJoined), which the last of them sets (JobAccounting). *)
(***************************************************************************)
EXTENDS RKThreadPool, FiniteSetTheorems, TLAPS

Running == {w \in Threads : workerPc[w] \notin {"new", "dead"}}
LiveCount == liveThreads = Cardinality(Running)

Members(j) == {w \in Threads : currentJob[w] = j}
ActiveCount == \A j \in Threads : activeThreadsCount[j] = Cardinality(Members(j))

\* Only a slot with workers in it is Finishing, and only one with none is
\* Available or Completed.
ConditionCount == \A j \in Threads :
  /\ jobCond[j] \in {"Available", "Completed"} => activeThreadsCount[j] = 0
  /\ jobCond[j] = "Finishing" => activeThreadsCount[j] > 0

\* A slot that is not Available belongs to the caller its argument names.
SlotOwned ==
  /\ \A c \in Callers : runJob[c] # None <=> callerPc[c] \in InJob \cup {"raised"}
  /\ \A c \in Callers : runJob[c] # None =>
       jobArgument[runJob[c]] = c /\ jobCond[runJob[c]] # "Available"
  /\ \A j \in Threads : jobCond[j] = "Available" => jobArgument[j] = None

\* The caller of a handshake has that worker to itself, and the worker's lock is
\* taken from Wakeup on only for a caller of a handshake.
Handshaking ==
  /\ \A c \in Callers : callerPc[c] \in {"handshake", "handshaken"} => at[c] \in Threads
  /\ \A c \in Callers : callerPc[c] = "handshake" =>
       lockCond[at[c]] \in {"Wakeup", "Awake", "NotRunning"}
  /\ \A t \in Threads : lockCond[t] \in {"Wakeup", "Awake"} =>
       \E c \in Callers : callerPc[c] = "handshake" /\ at[c] = t
  /\ \A c, d \in Callers :
       callerPc[c] = "handshake" /\ callerPc[d] = "handshake" /\ at[c] = at[d] => c = d
  /\ \A t \in Threads : threadQueue[t] # None =>
       /\ lockCond[t] \in {"Wakeup", "NotRunning"}
       /\ \E c \in Callers : /\ callerPc[c] = "handshake" /\ at[c] = t
                             /\ runJob[c] = threadQueue[t]

\* The condition of a worker's lock tells where in its loop the worker is.
WorkerAtCondition == \A w \in Threads :
  /\ workerPc[w] \in {"new", "starting"} => lockCond[w] = "Starting"
  /\ workerPc[w] \in {"loop", "sleep", "exit"} => lockCond[w] \in {"Sleeping", "Wakeup"}
  /\ workerPc[w] = "woken" => lockCond[w] = "Wakeup"
  /\ workerPc[w] \in {"call", "executing", "finish"} => lockCond[w] \in {"Awake", "RunningJob"}
  /\ workerPc[w] \in {"exiting", "dead"} => lockCond[w] = "NotRunning"

\* The caller of a slot with a worker in it has counted a worker, or is about
\* to count this one: it will not take the fallback.
Joins(c, w) ==
  \/ callerPc[c] = "handshake" /\ at[c] = w
  \/ /\ callerPc[c] \in {"start", "startLive", "startControl", "handshake",
                        "handshaken", "join"}
     /\ startedJobThreads[c] > 0

WorkersJoined ==
  /\ \A w \in Threads : currentJob[w] # None <=> workerPc[w] \in {"call", "executing"}
  /\ \A w \in Threads : workArgument[w] # None <=> workerPc[w] = "executing"
  /\ \A w \in Threads : currentJob[w] # None =>
       \E c \in Callers : /\ runJob[c] = currentJob[w] /\ Joins(c, w)
                          /\ workArgument[w] \in {c, None}

IInv ==
  /\ TypeOK
  /\ LiveCount
  /\ ActiveCount
  /\ ConditionCount
  /\ SlotOwned
  /\ Handshaking
  /\ WorkerAtCondition
  /\ WorkersJoined

-------------------------------------------------------------------------------
\* What each kind of thread leaves alone.

\* A caller's step leaves the pool, the workers, the reapers and the counts of
\* active threads alone.
LEMMA CallerFrame ==
  ASSUME NEW c \in Callers, CallerNext(c)
  PROVE  UNCHANGED <<poolVars, workerVars, reaperVars, activeThreadsCount>>
BY DEF CallerNext, CallInline, CallPool, CallerProgress, SlotRound, SlotRoundLive, SlotSkip,
       SlotAcquire, RunInline, InlineDone, Return, StartRound, StartRoundLive,
       StartRoundControl, StartEnd, StartWorker,
       SkipWorker, Handshake, Handshaken, FallbackDone, FallbackLock, FallbackRaise,
       JoinCompleted, Reset, JobLock, CallerStep, jobVars, lockVars, poolVars,
       workerVars, reaperVars

\* A worker's step leaves the callers, the reapers, who owns a job slot and for
\* whom alone.
LEMMA WorkerFrame ==
  ASSUME NEW w \in Threads, WorkerNext(w)
  PROVE  UNCHANGED <<threadPoolControl, callerVars, reaperVars, jobOwner, jobArgument>>
BY DEF WorkerNext, Boot, Ready, LoopTest, Wake, TakeJob, Execute, LeaveJob,
       Resleep, Exit, Exited, WorkerStep, jobVars, lockVars, poolVars,
       callerVars, reaperVars

\* A reaper's step leaves the locks, the jobs and the threads alone.
LEMMA ReaperFrame ==
  ASSUME NEW r \in Reapers, ReaperNext(r)
  PROVE  UNCHANGED <<liveThreads, lockVars, jobVars, workerVars, callerVars>>
BY DEF ReaperNext, ReapBegin, ReapRound, WakeThread, ReapEnd, poolVars

-------------------------------------------------------------------------------
\* The two counters count what they should.

\* A set of threads is finite and has at most ThreadCount members.
LEMMA ThreadsFinite ==
  ASSUME NEW S \in SUBSET Threads
  PROVE  /\ IsFiniteSet(S)
         /\ Cardinality(S) \in 0 .. ThreadCount
<1>1. ThreadCount \in Nat /\ ThreadCount - 1 \in Int
  BY ThreadPoolAssumption
<1>2. IsFiniteSet(Threads) /\ Cardinality(Threads) = ThreadCount
  BY <1>1, FS_Interval DEF Threads
<1>3. IsFiniteSet(S) /\ Cardinality(S) <= Cardinality(Threads)
  BY <1>2, FS_Subset
<1>. QED  BY <1>1, <1>2, <1>3, FS_CardinalityType

\* One thread more or less changes a count by one.
LEMMA Counting ==
  ASSUME NEW S \in SUBSET Threads, NEW w \in Threads
  PROVE  /\ w \notin S => Cardinality(S \cup {w}) = Cardinality(S) + 1
         /\ w \in S => Cardinality(S \ {w}) = Cardinality(S) - 1
<1>1. IsFiniteSet(S)
  BY ThreadsFinite
<1>. QED  BY <1>1, FS_AddElement, FS_RemoveElement

\* A step keeps the count of live threads.
LEMMA LiveCountStep ==
  ASSUME TypeOK, LiveCount, [Next]_vars
  PROVE  LiveCount'
<1>. Running \in SUBSET Threads
  BY DEF Running
<1>1. ASSUME NEW w \in Threads, Boot(w)
      PROVE  LiveCount'
  <2>1. Running' = Running \cup {w} /\ w \notin Running
    BY <1>1 DEF Boot, WorkerStep, Running, TypeOK
  <2>. QED  BY <1>1, <2>1, Counting DEF Boot, LiveCount
<1>2. ASSUME NEW w \in Threads, Exited(w)
      PROVE  LiveCount'
  <2>1. Running' = Running \ {w} /\ w \in Running
    BY <1>2 DEF Exited, WorkerStep, Running, TypeOK
  <2>. QED  BY <1>2, <2>1, Counting DEF Exited, LiveCount
<1>3. ASSUME NEW w \in Threads, WorkerNext(w), ~Boot(w), ~Exited(w)
      PROVE  LiveCount'
  <2>1. Running' = Running /\ UNCHANGED liveThreads
    BY <1>3 DEF WorkerNext, Ready, LoopTest, Wake, TakeJob, Execute, LeaveJob,
                Resleep, Exit, WorkerStep, Running, TypeOK, poolVars
  <2>. QED  BY <2>1 DEF LiveCount
<1>4. CASE UNCHANGED <<liveThreads, workerVars>>
  BY <1>4 DEF LiveCount, Running, workerVars
<1>. QED  BY <1>1, <1>2, <1>3, <1>4, CallerFrame, ReaperFrame DEF Next, poolVars, vars

\* A step keeps the count of active threads.
LEMMA ActiveCountStep ==
  ASSUME TypeOK, ActiveCount, WorkersJoined, [Next]_vars
  PROVE  ActiveCount'
<1>. \A j : Members(j) \in SUBSET Threads
  BY DEF Members
<1>1. ASSUME NEW w \in Threads, TakeJob(w)
      PROVE  ActiveCount'
  <2>1. currentJob[w] = None
    BY <1>1 DEF TakeJob, WorkersJoined, TypeOK
  <2>2. CASE UNCHANGED <<currentJob, activeThreadsCount>>
    BY <2>2 DEF ActiveCount, Members
  <2>3. ASSUME NEW j \in Threads,
               currentJob' = [currentJob EXCEPT ![w] = j],
               activeThreadsCount' = [activeThreadsCount EXCEPT ![j] = @ + 1]
        PROVE  ActiveCount'
    <3>1. Members(j)' = Members(j) \cup {w} /\ w \notin Members(j)
      BY <2>1, <2>3, ThreadPoolAssumption DEF Members, TypeOK, Threads
    <3>2. ASSUME NEW i \in Threads, i # j
          PROVE  Members(i)' = Members(i)
      BY <2>1, <2>3, <3>2, ThreadPoolAssumption DEF Members, TypeOK, Threads
    <3>3. Cardinality(Members(j))' = Cardinality(Members(j)) + 1
      BY <3>1, Counting
    <3>4. /\ activeThreadsCount'[j] = activeThreadsCount[j] + 1
          /\ \A i \in Threads : i # j => activeThreadsCount'[i] = activeThreadsCount[i]
      BY <2>3 DEF TypeOK
    <3>. QED  BY <3>2, <3>3, <3>4 DEF ActiveCount
  <2>. QED  BY <1>1, <2>2, <2>3 DEF TakeJob, TypeOK
<1>2. ASSUME NEW w \in Threads, LeaveJob(w)
      PROVE  ActiveCount'
  <2>. currentJob[w] \in Threads
    BY <1>2 DEF LeaveJob, WorkerStep, WorkersJoined, TypeOK
  <2>1. PICK j \in Threads :
        /\ j = currentJob[w]
        /\ currentJob' = [currentJob EXCEPT ![w] = None]
        /\ activeThreadsCount' = [activeThreadsCount EXCEPT ![j] = @ - 1]
    BY <1>2 DEF LeaveJob
  <2>2. Members(j)' = Members(j) \ {w} /\ w \in Members(j)
    BY <2>1, ThreadPoolAssumption DEF Members, TypeOK, Threads
  <2>3. ASSUME NEW i \in Threads, i # j
        PROVE  Members(i)' = Members(i)
    BY <2>1, <2>3, ThreadPoolAssumption DEF Members, TypeOK, Threads
  <2>4. Cardinality(Members(j))' = Cardinality(Members(j)) - 1
    BY <2>2, Counting
  <2>5. /\ activeThreadsCount'[j] = activeThreadsCount[j] - 1
        /\ \A i \in Threads : i # j => activeThreadsCount'[i] = activeThreadsCount[i]
    BY <2>1 DEF TypeOK
  <2>. QED  BY <2>1, <2>3, <2>4, <2>5 DEF ActiveCount
<1>3. ASSUME NEW w \in Threads, WorkerNext(w), ~TakeJob(w), ~LeaveJob(w)
      PROVE  UNCHANGED <<activeThreadsCount, currentJob>>
  BY <1>3 DEF WorkerNext, Boot, Ready, LoopTest, Wake, Execute, Resleep, Exit,
              Exited, jobVars
<1>4. CASE UNCHANGED <<activeThreadsCount, currentJob>>
  BY <1>4 DEF ActiveCount, Members
<1>. QED  BY <1>1, <1>2, <1>3, <1>4, CallerFrame, ReaperFrame
          DEF Next, vars, jobVars, workerVars

-------------------------------------------------------------------------------
\* The inductive invariant, part by part.

\* A step keeps the type invariant.
LEMMA TypeOKStep ==
  ASSUME TypeOK, Handshaking, WorkersJoined, LiveCount', ActiveCount', [Next]_vars
  PROVE  TypeOK'
<1>. ThreadCount \in Nat \ {0}
  BY ThreadPoolAssumption
<1>1. liveThreads' \in 0 .. ThreadCount
  BY ThreadsFinite DEF LiveCount, Running
<1>2. ASSUME NEW w \in Threads, WorkerNext(w)
      PROVE  TypeOK'
  <2>1. activeThreadsCount' \in [Threads -> 0 .. ThreadCount]
    <3>1. activeThreadsCount' \in [Threads -> Int]
      BY <1>2 DEF WorkerNext, Boot, Ready, LoopTest, Wake, TakeJob, Execute,
                  LeaveJob, Resleep, Exit, Exited, TypeOK, jobVars
    <3>2. \A j \in Threads : activeThreadsCount'[j] \in 0 .. ThreadCount
      BY ThreadsFinite DEF ActiveCount, Members
    <3>. QED  BY <3>1, <3>2
  <2>2. /\ workerPc' \in [Threads -> WorkerPcs]
        /\ jobCond' \in [Threads -> JobConditions]
    BY <1>2 DEF WorkerNext, Boot, Ready, LoopTest, Wake, TakeJob, Execute,
                LeaveJob, Resleep, Exit, Exited, WorkerStep, TypeOK, WorkerPcs,
                JobConditions, jobVars
  <2>3. /\ lockOwner' \in [Threads -> Threads \cup {None}]
        /\ lockCond' \in [Threads -> ThreadConditions]
        /\ threadQueue' \in [Threads -> Threads \cup {None}]
    BY <1>2 DEF WorkerNext, Boot, Ready, LoopTest, Wake, TakeJob, Execute,
                LeaveJob, Resleep, Exit, Exited, TypeOK, ThreadConditions, lockVars
  <2>4. currentJob' \in [Threads -> Threads \cup {None}]
    BY <1>2 DEF WorkerNext, Boot, Ready, LoopTest, Wake, TakeJob, Execute,
                LeaveJob, Resleep, Exit, Exited, TypeOK
  <2>5. workArgument' \in [Threads -> Callers \cup {None}]
    <3>1. Execute(w) => currentJob[w] \in Threads
      BY DEF Execute, WorkerStep, WorkersJoined, TypeOK
    <3>. QED
      BY <1>2, <3>1 DEF WorkerNext, Boot, Ready, LoopTest, Wake, TakeJob,
                  Execute, LeaveJob, Resleep, Exit, Exited, TypeOK
  <2>. QED
    BY <1>1, <1>2, <2>1, <2>2, <2>3, <2>4, <2>5, WorkerFrame
       DEF TypeOK, callerVars, reaperVars
<1>3. ASSUME NEW c \in Callers, CallerNext(c)
      PROVE  TypeOK'
  <2>1. callerPc' \in [Callers -> CallerPcs]
    BY <1>3 DEF CallerNext, CallInline, CallPool, CallerProgress, SlotRound,
                SlotRoundLive, SlotSkip, SlotAcquire, RunInline, InlineDone, Return,
                StartRound, StartRoundLive, StartRoundControl, StartEnd,
                StartWorker, SkipWorker, Handshake, Handshaken, FallbackDone, FallbackLock,
                FallbackRaise, JoinCompleted, Reset, JobLock, CallerStep, TypeOK,
                CallerPcs
  <2>2. at' \in [Callers -> 0 .. ThreadCount]
    <3>1. Handshaken(c) => at[c] < ThreadCount
      BY DEF Handshaken, Handshaking, Threads
    <3>2. \/ UNCHANGED at
          \/ \E v \in 0 .. ThreadCount : at' = [at EXCEPT ![c] = v]
      BY <1>3, <3>1, SMTT(30)
         DEF CallerNext, CallInline, CallPool, CallerProgress, SlotRound,
             SlotRoundLive, SlotSkip,
             SlotAcquire, RunInline, InlineDone, Return, StartRound, StartRoundLive,
             StartRoundControl, StartEnd, StartWorker,
             SkipWorker, Handshake, Handshaken, FallbackDone, FallbackLock, FallbackRaise,
             JoinCompleted, Reset, JobLock, TypeOK
    <3>. QED  BY <3>2 DEF TypeOK
  <2>3. /\ runJob' \in [Callers -> Threads \cup {None}]
        /\ startedJobThreads' \in [Callers -> Nat]
    <3>1. SlotAcquire(c) => at[c] \in Threads
      BY DEF SlotAcquire, TypeOK, Threads
    <3>2. \/ UNCHANGED runJob
          \/ \E j \in Threads \cup {None} : runJob' = [runJob EXCEPT ![c] = j]
      BY <1>3, <3>1 DEF CallerNext, CallInline, CallPool, CallerProgress, SlotRound,
                        SlotRoundLive, SlotSkip, SlotAcquire, RunInline, InlineDone,
                        Return, StartRound, StartRoundLive, StartRoundControl, StartEnd,
                  StartWorker, SkipWorker, Handshake, Handshaken, FallbackDone,
                  FallbackLock,
                  FallbackRaise, JoinCompleted, Reset, JobLock
    <3>3. \/ UNCHANGED startedJobThreads
          \/ \E n \in Nat : startedJobThreads' = [startedJobThreads EXCEPT ![c] = n]
      BY <1>3 DEF CallerNext, CallInline, CallPool, CallerProgress, SlotRound,
                  SlotRoundLive, SlotSkip, SlotAcquire, RunInline, InlineDone, Return,
                  StartRound, StartRoundLive, StartRoundControl, StartEnd,
                  StartWorker, SkipWorker, Handshake, Handshaken, FallbackDone,
                  FallbackLock,
                  FallbackRaise, JoinCompleted, Reset, JobLock, TypeOK
    <3>. QED  BY <3>2, <3>3 DEF TypeOK
  <2>4. /\ lockCond' \in [Threads -> ThreadConditions]
        /\ threadQueue' \in [Threads -> Threads \cup {None}]
        /\ UNCHANGED lockOwner
    BY <1>3 DEF CallerNext, CallInline, CallPool, CallerProgress, SlotRound,
                SlotRoundLive, SlotSkip, SlotAcquire, RunInline, InlineDone, Return,
                StartRound, StartRoundLive, StartRoundControl, StartEnd,
                StartWorker, SkipWorker, Handshake, Handshaken, FallbackDone, FallbackLock,
                FallbackRaise, JoinCompleted, Reset, JobLock, TypeOK, lockVars,
                ThreadConditions
  <2>5. /\ jobOwner' \in [Threads -> Callers \cup {None}]
        /\ jobCond' \in [Threads -> JobConditions]
        /\ jobArgument' \in [Threads -> Callers \cup {None}]
    BY <1>3 DEF CallerNext, CallInline, CallPool, CallerProgress, SlotRound,
                SlotRoundLive, SlotSkip, SlotAcquire, RunInline, InlineDone, Return,
                StartRound, StartRoundLive, StartRoundControl, StartEnd,
                StartWorker, SkipWorker, Handshake, Handshaken, FallbackDone, FallbackLock,
                FallbackRaise, JoinCompleted, Reset, JobLock, TypeOK, jobVars,
                JobConditions
  <2>. QED
    BY <1>3, <2>1, <2>2, <2>3, <2>4, <2>5, CallerFrame
       DEF TypeOK, poolVars, workerVars, reaperVars
<1>4. ASSUME NEW r \in Reapers, ReaperNext(r)
      PROVE  TypeOK'
  <2>1. /\ threadPoolControl' \in {0, RKThreadPoolStop}
        /\ reaperPc' \in [Reapers -> {"idle", "reaping", "reaped"}]
        /\ reapAt' \in [Reapers -> 0 .. ThreadCount]
    BY <1>4 DEF ReaperNext, ReapBegin, ReapRound, WakeThread, ReapEnd, TypeOK,
                RKThreadPoolStop, ControlAfterReap, poolVars
  <2>. QED
    BY <1>4, <2>1, ReaperFrame DEF TypeOK, lockVars, jobVars, workerVars, callerVars
<1>5. CASE UNCHANGED vars
  BY <1>5 DEF TypeOK, vars, poolVars, lockVars, jobVars, workerVars, callerVars,
              reaperVars
<1>. QED  BY <1>2, <1>3, <1>4, <1>5 DEF Next

\* A caller that does not count on workers has none in its slot.
LEMMA NobodyJoined ==
  ASSUME TypeOK, ActiveCount, SlotOwned, WorkersJoined,
         NEW c \in Callers, runJob[c] \in Threads,
         \A w \in Threads : ~Joins(c, w)
  PROVE  activeThreadsCount[runJob[c]] = 0
<1>1. \A w \in Threads : currentJob[w] # runJob[c]
  BY ThreadPoolAssumption DEF WorkersJoined, SlotOwned, TypeOK, Threads
<1>2. Members(runJob[c]) = {}
  BY <1>1 DEF Members
<1>. QED  BY <1>2, FS_EmptySet DEF ActiveCount

\* A step keeps a slot's condition in agreement with its workers.
LEMMA ConditionCountStep ==
  ASSUME TypeOK, ActiveCount, ConditionCount, SlotOwned, WorkersJoined, [Next]_vars
  PROVE  ConditionCount'
<1>1. ASSUME NEW c \in Callers, SlotAcquire(c)
      PROVE  ConditionCount'
  BY <1>1 DEF SlotAcquire, ConditionCount, TypeOK, Threads
<1>2. ASSUME NEW c \in Callers, Reset(c)
      PROVE  ConditionCount'
  <2>1. runJob[c] \in Threads
    BY <1>2 DEF Reset, CallerStep, SlotOwned, InJob, TypeOK
  <2>2. activeThreadsCount[runJob[c]] = 0
    BY <1>2, <2>1, NobodyJoined DEF Reset, CallerStep, Joins
  <2>. QED  BY <1>2, <2>1, <2>2 DEF Reset, ConditionCount, TypeOK
<1>3. ASSUME NEW c \in Callers, CallerNext(c), ~SlotAcquire(c), ~Reset(c)
      PROVE  UNCHANGED <<jobCond, activeThreadsCount>>
  BY <1>3 DEF CallerNext, CallInline, CallPool, CallerProgress, SlotRound,
              SlotRoundLive, SlotSkip, RunInline, InlineDone, Return, StartRound,
              StartRoundLive, StartRoundControl, StartEnd, StartWorker,
              SkipWorker, Handshake, Handshaken, FallbackDone, FallbackLock, FallbackRaise,
              JoinCompleted, JobLock, jobVars
<1>4. ASSUME NEW w \in Threads, TakeJob(w)
      PROVE  ConditionCount'
  BY <1>4, ThreadPoolAssumption DEF TakeJob, ConditionCount, TypeOK, JobConditions
<1>5. ASSUME NEW w \in Threads, LeaveJob(w)
      PROVE  ConditionCount'
  <2>1. currentJob[w] \in Threads
    BY <1>5 DEF LeaveJob, WorkerStep, WorkersJoined, TypeOK
  <2>2. activeThreadsCount[currentJob[w]] # 0
    <3>1. w \in Members(currentJob[w])
      BY DEF Members
    <3>2. IsFiniteSet(Members(currentJob[w]))
      BY ThreadsFinite DEF Members
    <3>. QED  BY <2>1, <3>1, <3>2, FS_EmptySet DEF ActiveCount
  <2>. QED
    BY <1>5, <2>1, <2>2, ThreadPoolAssumption, SMTT(30)
       DEF LeaveJob, ConditionCount, TypeOK, JobConditions
<1>6. ASSUME NEW w \in Threads, WorkerNext(w), ~TakeJob(w), ~LeaveJob(w)
      PROVE  UNCHANGED <<jobCond, activeThreadsCount>>
  BY <1>6 DEF WorkerNext, Boot, Ready, LoopTest, Wake, Execute, Resleep, Exit,
              Exited, jobVars
<1>7. CASE UNCHANGED <<jobCond, activeThreadsCount>>
  BY <1>7 DEF ConditionCount
<1>. QED  BY <1>1, <1>2, <1>3, <1>4, <1>5, <1>6, <1>7, ReaperFrame
          DEF Next, vars, jobVars

\* A step keeps every slot in use with the caller it is for.
LEMMA SlotOwnedStep ==
  ASSUME TypeOK, SlotOwned, WorkersJoined, [Next]_vars
  PROVE  SlotOwned'
<1>1. ASSUME NEW c \in Callers, SlotAcquire(c)
      PROVE  SlotOwned'
  BY <1>1, ThreadPoolAssumption
     DEF SlotAcquire, CallerStep, SlotOwned, InJob, TypeOK, Threads
<1>2. ASSUME NEW c \in Callers, Reset(c)
      PROVE  SlotOwned'
  BY <1>2, ThreadPoolAssumption DEF Reset, CallerStep, SlotOwned, InJob, TypeOK
<1>3. ASSUME NEW c \in Callers, CallerNext(c), ~SlotAcquire(c), ~Reset(c)
      PROVE  SlotOwned'
  <2>1. /\ UNCHANGED <<runJob, jobCond, jobArgument>>
        /\ \A d \in Callers : callerPc'[d] \in InJob \cup {"raised"}
                                <=> callerPc[d] \in InJob \cup {"raised"}
    BY <1>3 DEF CallerNext, CallInline, CallPool, CallerProgress, SlotRound,
                SlotRoundLive, SlotSkip, RunInline, InlineDone, Return, StartRound,
                StartRoundLive, StartRoundControl, StartEnd, StartWorker,
                SkipWorker, Handshake, Handshaken, FallbackDone, FallbackLock,
                FallbackRaise,
                JoinCompleted, JobLock, CallerStep, jobVars, TypeOK, InJob
  <2>. QED  BY <2>1 DEF SlotOwned
<1>4. ASSUME NEW w \in Threads, WorkerNext(w)
      PROVE  SlotOwned'
  <2>1. \A j \in Threads : jobCond'[j] = jobCond[j]
             \/ (jobCond[j] # "Available" /\ jobCond'[j] # "Available")
             \/ (LeaveJob(w) /\ j = currentJob[w] /\ jobCond'[j] # "Available")
    BY <1>4 DEF WorkerNext, Boot, Ready, LoopTest, Wake, TakeJob, Execute,
                LeaveJob, Resleep, Exit, Exited, jobVars, TypeOK
  <2>2. LeaveJob(w) => jobCond[currentJob[w]] # "Available"
    BY DEF LeaveJob, WorkerStep, WorkersJoined, SlotOwned, TypeOK
  <2>. QED  BY <1>4, <2>1, <2>2, WorkerFrame DEF SlotOwned, callerVars, TypeOK
<1>5. CASE UNCHANGED <<jobVars, callerVars>>
  BY <1>5 DEF SlotOwned, jobVars, callerVars
<1>. QED  BY <1>1, <1>2, <1>3, <1>4, <1>5, ReaperFrame DEF Next, vars

\* A step keeps a handshake between one caller and its worker.
LEMMA HandshakingStep ==
  ASSUME TypeOK, Handshaking, WorkerAtCondition, [Next]_vars
  PROVE  Handshaking'
<1>1. ASSUME NEW c \in Callers, StartWorker(c)
      PROVE  Handshaking'
  <2>1. at[c] \in Threads /\ lockCond[at[c]] = "Sleeping"
    BY <1>1, ThreadPoolAssumption DEF StartWorker, LockFree, TypeOK, Threads
  <2>2. /\ callerPc[c] = "start" /\ callerPc' = [callerPc EXCEPT ![c] = "handshake"]
        /\ lockCond' = [lockCond EXCEPT ![at[c]] = "Wakeup"]
        /\ threadQueue' = [threadQueue EXCEPT ![at[c]] = runJob[c]]
        /\ UNCHANGED <<at, runJob>>
    BY <1>1 DEF StartWorker, CallerStep
  <2>. QED  BY <2>1, <2>2 DEF Handshaking, TypeOK
<1>2. ASSUME NEW c \in Callers, Handshake(c)
      PROVE  Handshaking'
  <2>1. at[c] \in Threads /\ threadQueue[at[c]] = None
    BY <1>2 DEF Handshake, CallerStep, LockFree, Handshaking
  <2>2. \A d \in Callers :
          /\ callerPc'[d] = "handshake" <=> callerPc[d] = "handshake" /\ d # c
          /\ callerPc'[d] = "handshaken" <=> callerPc[d] = "handshaken" \/ d = c
    BY <1>2 DEF Handshake, CallerStep, TypeOK
  <2>3. /\ UNCHANGED <<threadQueue, runJob, at>>
        /\ lockCond' = [lockCond EXCEPT ![at[c]] = "RunningJob"]
        /\ callerPc[c] = "handshake"
    BY <1>2 DEF Handshake, CallerStep
  <2>. QED  BY <2>1, <2>2, <2>3 DEF Handshaking, TypeOK
<1>3. ASSUME NEW c \in Callers, CallerNext(c), ~StartWorker(c), ~Handshake(c)
      PROVE  Handshaking'
  <2>1. /\ UNCHANGED <<lockCond, threadQueue>>
        /\ \A d \in Callers :
             /\ callerPc'[d] = "handshake" <=> callerPc[d] = "handshake"
             /\ callerPc'[d] = "handshaken" => callerPc[d] = "handshaken" /\ at'[d] = at[d]
             /\ callerPc[d] = "handshake" => at'[d] = at[d] /\ runJob'[d] = runJob[d]
    BY <1>3 DEF CallerNext, CallInline, CallPool, CallerProgress, SlotRound,
                SlotRoundLive, SlotSkip, SlotAcquire, RunInline, InlineDone, Return,
                StartRound, StartRoundLive, StartRoundControl, StartEnd,
                SkipWorker, Handshaken, FallbackDone, FallbackLock, FallbackRaise,
                JoinCompleted, Reset, JobLock, CallerStep, lockVars, TypeOK
  <2>. QED  BY <2>1 DEF Handshaking
<1>4. ASSUME NEW w \in Threads, WorkerNext(w)
      PROVE  Handshaking'
  <2>1. UNCHANGED <<callerPc, at, runJob>>
    BY <1>4, WorkerFrame DEF callerVars
  <2>2. CASE TakeJob(w)
    BY <2>1, <2>2 DEF TakeJob, Handshaking, WorkerAtCondition, TypeOK
  <2>3. CASE Ready(w) \/ Resleep(w) \/ Exit(w)
    BY <2>1, <2>3 DEF Ready, Resleep, Exit, LockFree, Handshaking, TypeOK
  <2>4. CASE ~TakeJob(w) /\ ~Ready(w) /\ ~Resleep(w) /\ ~Exit(w)
    <3>1. UNCHANGED <<lockCond, threadQueue>>
      BY <1>4, <2>4 DEF WorkerNext, Boot, LoopTest, Wake, Execute, LeaveJob,
                        Exited, lockVars
    <3>. QED  BY <2>1, <3>1 DEF Handshaking
  <2>. QED  BY <2>2, <2>3, <2>4
<1>5. CASE UNCHANGED <<lockVars, callerVars>>
  BY <1>5 DEF Handshaking, lockVars, callerVars
<1>. QED  BY <1>1, <1>2, <1>3, <1>4, <1>5, ReaperFrame DEF Next, vars

\* A step keeps every worker where the condition of its lock says.
LEMMA WorkerAtConditionStep ==
  ASSUME TypeOK, Handshaking, WorkerAtCondition, [Next]_vars
  PROVE  WorkerAtCondition'
<1>1. ASSUME NEW w \in Threads, WorkerNext(w)
      PROVE  WorkerAtCondition'
  BY <1>1 DEF WorkerNext, WorkerStep, LockFree, Boot, Ready, LoopTest, Wake, TakeJob,
              Execute,
              LeaveJob, Resleep, Exit, Exited, lockVars, TypeOK, WorkerAtCondition
<1>2. ASSUME NEW c \in Callers, CallerNext(c)
      PROVE  WorkerAtCondition'
  <2>1. UNCHANGED workerPc
    BY <1>2, CallerFrame DEF workerVars
  <2>2. CASE StartWorker(c) \/ Handshake(c)
    <3>1. at[c] \in Threads
      BY <2>2, ThreadPoolAssumption
         DEF StartWorker, Handshake, CallerStep, Handshaking, TypeOK, Threads
    <3>2. \/ /\ lockCond[at[c]] = "Sleeping"
             /\ lockCond' = [lockCond EXCEPT ![at[c]] = "Wakeup"]
          \/ /\ lockCond[at[c]] = "Awake"
             /\ lockCond' = [lockCond EXCEPT ![at[c]] = "RunningJob"]
      BY <2>2 DEF StartWorker, Handshake, LockFree
    <3>. QED  BY <2>1, <3>1, <3>2 DEF WorkerAtCondition, TypeOK, WorkerPcs
  <2>3. CASE ~StartWorker(c) /\ ~Handshake(c)
    <3>1. UNCHANGED lockCond
      BY <1>2, <2>3 DEF CallerNext, CallInline, CallPool, CallerProgress, SlotRound,
                        SlotRoundLive, SlotSkip, SlotAcquire, RunInline, InlineDone,
                        Return, StartRound, StartRoundLive, StartRoundControl,
                        SkipWorker, Handshaken, FallbackDone, FallbackLock,
                        FallbackRaise, JoinCompleted, Reset, JobLock, lockVars
    <3>. QED  BY <2>1, <3>1 DEF WorkerAtCondition
  <2>. QED  BY <2>2, <2>3
<1>3. CASE UNCHANGED <<lockVars, workerVars>>
  BY <1>3 DEF WorkerAtCondition, lockVars, workerVars
<1>. QED  BY <1>1, <1>2, <1>3, ReaperFrame DEF Next, vars

\* A step keeps every worker in a job of a caller that waits for it.
LEMMA WorkersJoinedStep ==
  ASSUME TypeOK, ActiveCount, ConditionCount, SlotOwned, Handshaking,
         WorkersJoined, [Next]_vars
  PROVE  WorkersJoined'
<1>1. ASSUME NEW w \in Threads, TakeJob(w)
      PROVE  WorkersJoined'
  <2>1. currentJob[w] = None /\ workArgument[w] = None
    BY <1>1 DEF TakeJob, WorkersJoined, TypeOK
  <2>2. UNCHANGED <<callerVars, workArgument>>
    BY <1>1 DEF TakeJob
  <2>3. CASE ~(threadQueue[w] # None /\ jobCond[threadQueue[w]] = "Executing")
    <3>1. /\ workerPc[w] = "woken" /\ workerPc' = [workerPc EXCEPT ![w] = "finish"]
          /\ UNCHANGED currentJob
      BY <1>1, <2>3 DEF TakeJob
    <3>. QED  BY <2>2, <3>1 DEF WorkersJoined, Joins, callerVars, TypeOK
  <2>4. CASE threadQueue[w] # None /\ jobCond[threadQueue[w]] = "Executing"
    <3>1. /\ threadQueue[w] # None
          /\ currentJob' = [currentJob EXCEPT ![w] = threadQueue[w]]
          /\ workerPc' = [workerPc EXCEPT ![w] = "call"]
      BY <1>1, <2>4 DEF TakeJob
    <3>2. \E c \in Callers : /\ runJob[c] = threadQueue[w]
                            /\ callerPc[c] = "handshake" /\ at[c] = w
      BY <3>1 DEF Handshaking
    <3>. QED
      BY <2>1, <2>2, <3>1, <3>2 DEF WorkersJoined, Joins, callerVars, TypeOK
  <2>. QED  BY <2>3, <2>4
<1>2. ASSUME NEW w \in Threads, Execute(w)
      PROVE  WorkersJoined'
  <2>1. PICK c \in Callers : /\ runJob[c] = currentJob[w] /\ Joins(c, w)
                             /\ currentJob[w] # None
    BY <1>2 DEF Execute, WorkerStep, WorkersJoined
  <2>2. workArgument' = [workArgument EXCEPT ![w] = c]
    BY <1>2, <2>1 DEF Execute, SlotOwned
  <2>. QED
    BY <1>2, <2>1, <2>2, ThreadPoolAssumption
       DEF Execute, WorkerStep, WorkersJoined, Joins, TypeOK, callerVars
<1>3. ASSUME NEW w \in Threads, LeaveJob(w)
      PROVE  WorkersJoined'
  BY <1>3 DEF LeaveJob, WorkerStep, WorkersJoined, Joins, TypeOK, callerVars
<1>4. ASSUME NEW w \in Threads, WorkerNext(w), ~TakeJob(w), ~Execute(w), ~LeaveJob(w)
      PROVE  WorkersJoined'
  <2>1. /\ UNCHANGED <<currentJob, workArgument, callerVars>>
        /\ \A v \in Threads :
             /\ workerPc'[v] = "call" <=> workerPc[v] = "call"
             /\ workerPc'[v] = "executing" <=> workerPc[v] = "executing"
    BY <1>4, WorkerFrame
       DEF WorkerNext, Boot, Ready, LoopTest, Wake, Resleep, Exit, Exited,
           WorkerStep, TypeOK
  <2>. QED  BY <2>1 DEF WorkersJoined, Joins, callerVars
<1>5. ASSUME NEW c \in Callers, CallerNext(c)
      PROVE  WorkersJoined'
  <2>1. UNCHANGED workerVars
    BY <1>5, CallerFrame
  <2>2. ASSUME NEW w \in Threads, currentJob[w] = runJob[c], currentJob[w] # None,
               Joins(c, w)
        PROVE  runJob'[c] = runJob[c] /\ Joins(c, w)'
    <3>1. ~JoinCompleted(c)
      <4>1. runJob[c] \in Threads /\ w \in Members(runJob[c])
        BY <2>2 DEF Members, TypeOK
      <4>2. activeThreadsCount[runJob[c]] # 0
        BY <4>1, ThreadsFinite, FS_EmptySet DEF ActiveCount, Members
      <4>. QED  BY <4>1, <4>2 DEF JoinCompleted, ConditionCount
    <3>. QED
      BY <1>5, <2>2, <3>1
         DEF Joins, CallerNext, CallInline, CallPool, CallerProgress, SlotRound,
             SlotRoundLive, SlotSkip, SlotAcquire, RunInline, InlineDone, Return,
             StartRound, StartRoundLive, StartRoundControl, StartEnd,
             StartWorker, SkipWorker, Handshake, Handshaken, FallbackDone, FallbackLock,
             FallbackRaise, Reset, JobLock, CallerStep, TypeOK
  <2>3. ASSUME NEW d \in Callers, d # c, NEW w \in Threads
        PROVE  runJob'[d] = runJob[d] /\ (Joins(d, w) => Joins(d, w)')
    BY <1>5, <2>3
       DEF Joins, CallerNext, CallInline, CallPool, CallerProgress, SlotRound,
           SlotRoundLive, SlotSkip, SlotAcquire, RunInline, InlineDone, Return,
           StartRound, StartRoundLive, StartRoundControl, StartEnd,
           StartWorker, SkipWorker, Handshake, Handshaken, FallbackDone, FallbackLock,
           FallbackRaise, JoinCompleted, Reset, JobLock, CallerStep, TypeOK
  <2>4. ASSUME NEW w \in Threads, currentJob[w] # None
        PROVE  \E d \in Callers : /\ runJob'[d] = currentJob[w] /\ Joins(d, w)'
                                  /\ workArgument[w] \in {d, None}
    <3>1. PICK d \in Callers : /\ runJob[d] = currentJob[w] /\ Joins(d, w)
                               /\ workArgument[w] \in {d, None}
      BY <2>4 DEF WorkersJoined
    <3>2. runJob'[d] = runJob[d] /\ Joins(d, w)'
      BY <2>2, <2>3, <2>4, <3>1
    <3>. QED  BY <3>1, <3>2
  <2>. QED  BY <2>1, <2>4 DEF WorkersJoined, workerVars
<1>6. CASE UNCHANGED <<workerVars, callerVars>>
  BY <1>6 DEF WorkersJoined, Joins, workerVars, callerVars
<1>. QED  BY <1>1, <1>2, <1>3, <1>4, <1>5, <1>6, ReaperFrame DEF Next, vars

\* The invariant holds at the start: no worker runs and no slot is claimed.
LEMMA InitIInv == Init => IInv
<1>. SUFFICES ASSUME Init
              PROVE  IInv
  OBVIOUS
<1>. ThreadCount \in Nat \ {0} /\ None \notin Callers /\ None \notin Threads
  BY ThreadPoolAssumption DEF Threads
<1>1. TypeOK
  BY DEF Init, TypeOK, RKThreadPoolStop, ThreadConditions, JobConditions,
         WorkerPcs, CallerPcs
<1>2. Running = {} /\ \A j \in Threads : Members(j) = {}
  BY DEF Init, Running, Members
<1>3. LiveCount /\ ActiveCount
  BY <1>2, FS_EmptySet DEF Init, LiveCount, ActiveCount
<1>4. ConditionCount /\ SlotOwned /\ Handshaking /\ WorkersJoined
  BY DEF Init, ConditionCount, SlotOwned, Handshaking, WorkersJoined, InJob
<1>5. WorkerAtCondition
  BY DEF Init, WorkerAtCondition
<1>. QED  BY <1>1, <1>3, <1>4, <1>5 DEF IInv

\* Every step of the pool preserves the invariant.
LEMMA NextIInv == IInv /\ [Next]_vars => IInv'
<1>. SUFFICES ASSUME IInv, [Next]_vars
              PROVE  IInv'
  OBVIOUS
<1>1. LiveCount' /\ ActiveCount'
  BY LiveCountStep, ActiveCountStep DEF IInv
<1>2. TypeOK'
  BY <1>1, TypeOKStep DEF IInv
<1>3. ConditionCount' /\ SlotOwned'
  BY ConditionCountStep, SlotOwnedStep DEF IInv
<1>4. Handshaking' /\ WorkerAtCondition' /\ WorkersJoined'
  BY HandshakingStep, WorkerAtConditionStep, WorkersJoinedStep DEF IInv
<1>. QED  BY <1>1, <1>2, <1>3, <1>4 DEF IInv

\* The invariant holds in every reachable state of a pool of any size.
LEMMA Invariance == Spec => []IInv
BY InitIInv, NextIInv, PTL DEF Spec

\* The variables of RKThreadPool.h and the locals of its two methods keep
\* their types; in particular no counter leaves 0 to threadCount.
THEOREM TypeCorrect == Spec => []TypeOK
<1>1. IInv => TypeOK
  BY DEF IInv
<1>. QED  BY Invariance, <1>1, PTL

\* No worker works on, or is about to read, an argument whose caller has
\* returned (threadFunction:argument: waits for Completed, line 286).
THEOREM ArgumentsLive == Spec => []ArgumentLifetime
<1>1. IInv => ArgumentLifetime
  <2>. SUFFICES ASSUME IInv, NEW w \in Threads, workerPc[w] \in {"call", "executing"}
                PROVE  \E c \in Callers :
                         /\ callerPc[c] \in InJob /\ runJob[c] = currentJob[w]
                         /\ jobArgument[currentJob[w]] = c
                         /\ workerPc[w] = "executing" => workArgument[w] = c
    BY DEF ArgumentLifetime
  <2>1. currentJob[w] # None /\ (workerPc[w] = "executing" => workArgument[w] # None)
    BY DEF IInv, WorkersJoined
  <2>2. PICK c \in Callers : /\ runJob[c] = currentJob[w] /\ Joins(c, w)
                             /\ workArgument[w] \in {c, None}
    BY <2>1 DEF IInv, WorkersJoined
  <2>3. callerPc[c] \in InJob
    BY <2>2 DEF Joins, InJob
  <2>4. jobArgument[currentJob[w]] = c
    BY <2>1, <2>2 DEF IInv, SlotOwned
  <2>. QED  BY <2>1, <2>2, <2>3, <2>4
<1>. QED  BY Invariance, <1>1, PTL

\* The counter of a slot is exact, and a slot is Completed only when nobody is
\* left in it (workerThreadStart:, lines 342 and 352 to 354).
THEOREM JobsAccounted == Spec => []JobAccounting
<1>1. IInv => JobAccounting
  BY DEF IInv, ActiveCount, ConditionCount, Members, JobAccounting
<1>. QED  BY Invariance, <1>1, PTL

\* The NSParameterAsserts of lines 247, 250, 251, 289 and 351 never fire, threads
\* being reaped or not.
THEOREM AssertionsNeverFire == Spec => []AssertionsHold
<1>1. IInv => AssertionsHold
  <2>. SUFFICES ASSUME IInv
                PROVE  AssertionsHold
    OBVIOUS
  <2>1. \A j \in Threads : (jobOwner[j] = None /\ jobCond[j] = "Available") =>
          activeThreadsCount[j] = 0 /\ jobArgument[j] = None
    BY DEF IInv, ConditionCount, SlotOwned
  <2>2. ASSUME NEW w \in Threads, workerPc[w] = "executing"
        PROVE  jobCond[currentJob[w]] \in {"Executing", "Finishing"}
    <3>1. currentJob[w] \in Threads /\ w \in Members(currentJob[w])
      BY <2>2 DEF IInv, WorkersJoined, TypeOK, Members
    <3>2. activeThreadsCount[currentJob[w]] # 0
      BY <3>1, ThreadsFinite, FS_EmptySet DEF IInv, ActiveCount, Members
    <3>. QED  BY <3>1, <3>2 DEF IInv, ConditionCount, TypeOK, JobConditions
  <2>3. ASSUME NEW c \in Callers, callerPc[c] = "reset"
        PROVE  activeThreadsCount[runJob[c]] = 0
    <3>1. runJob[c] \in Threads
      BY <2>3 DEF IInv, SlotOwned, InJob, TypeOK
    <3>2. \A w \in Threads : ~Joins(c, w)
      BY <2>3 DEF Joins
    <3>. QED  BY <3>1, <3>2, NobodyJoined DEF IInv
  <2>. QED  BY <2>1, <2>2, <2>3 DEF AssertionsHold
<1>. QED  BY Invariance, <1>1, PTL

-------------------------------------------------------------------------------
\* Without reapThreads the pool is never stopped, so no worker exits and no
\* caller is sent to the fallback.  A caller that has started no worker finds its
\* slot Executing: only a worker it joins can change that.
NobodyStops ==
  /\ threadPoolControl = 0
  /\ \A w \in Threads : workerPc[w] \notin {"exit", "exiting", "dead"}
  /\ \A c \in Callers :
       /\ callerPc[c] \notin {"fallback", "fallbackLock", "raised"}
       /\ callerPc[c] \in InJob \cup {"slot", "slotLive"} => liveThreads # 0
       /\ callerPc[c] \in {"start", "startLive", "startControl"} /\ startedJobThreads[c] = 0 =>
            jobCond[runJob[c]] = "Executing"
       /\ callerPc[c] \in {"handshaken", "join", "reset"} => startedJobThreads[c] > 0

\* A step of a caller keeps that up.
LEMMA CallerNobodyStops ==
  ASSUME IInv, NobodyStops, NEW c \in Callers, CallerNext(c)
  PROVE  NobodyStops'
<1>. USE DEF IInv, NobodyStops
<1>0. UNCHANGED <<threadPoolControl, liveThreads, workerPc>> /\ ~Stopping
  BY CallerFrame DEF poolVars, workerVars, Stopping, RKThreadPoolStop
<1>1. CASE SlotAcquire(c)
  <2>1. /\ callerPc[c] = "slot" /\ callerPc' = [callerPc EXCEPT ![c] = "start"]
        /\ at[c] \in Threads /\ runJob' = [runJob EXCEPT ![c] = at[c]]
        /\ jobCond' = [jobCond EXCEPT ![at[c]] = "Executing"] /\ UNCHANGED startedJobThreads
    BY <1>1, ThreadPoolAssumption DEF SlotAcquire, CallerStep, TypeOK, Threads
  <2>2. \A d \in Callers : jobCond[runJob[d]] = "Executing" /\ callerPc[d] \in {"start", "startLive", "startControl"}
          => jobCond'[runJob[d]] = "Executing"
    BY <2>1 DEF TypeOK
  <2>3. jobCond'[runJob'[c]] = "Executing" /\ callerPc'[c] = "start"
    BY <2>1 DEF TypeOK
  <2>4. \A d \in Callers : d # c => callerPc'[d] = callerPc[d] /\ runJob'[d] = runJob[d]
    BY <2>1 DEF TypeOK
  <2>. QED BY <1>0, <2>1, <2>2, <2>3, <2>4 DEF InJob
<1>2. CASE Reset(c)
  BY <1>0, <1>2 DEF Reset, CallerStep, TypeOK, InJob, SlotOwned
<1>3. CASE Handshake(c) \/ Handshaken(c)
  BY <1>0, <1>3 DEF Handshake, Handshaken, CallerStep, TypeOK, InJob, jobVars
<1>4. CASE StartRound(c) \/ StartRoundLive(c) \/ StartRoundControl(c)
  BY <1>0, <1>4 DEF StartRound, StartRoundLive, StartRoundControl, StartEnd, CallerStep,
                    TypeOK, InJob, jobVars
<1>5. CASE SlotRound(c) \/ SlotRoundLive(c)
  BY <1>0, <1>5 DEF SlotRound, SlotRoundLive, CallerStep, TypeOK, InJob, jobVars
<1>6. CASE CallInline(c) \/ CallPool(c) \/ SlotSkip(c) \/ RunInline(c) \/ InlineDone(c) \/ Return(c)
  BY <1>0, <1>6 DEF CallInline, CallPool, SlotSkip, RunInline, InlineDone, Return,
                    CallerStep,
                    TypeOK, InJob, jobVars
<1>7. CASE StartWorker(c) \/ SkipWorker(c) \/ FallbackDone(c) \/ FallbackLock(c)
           \/ FallbackRaise(c) \/ JoinCompleted(c)
  BY <1>0, <1>7 DEF StartWorker, SkipWorker, FallbackDone, FallbackLock, FallbackRaise,
                    JoinCompleted, JobLock, CallerStep, TypeOK, InJob, jobVars
<1>. QED BY <1>1, <1>2, <1>3, <1>4, <1>5, <1>6, <1>7 DEF CallerNext, CallerProgress

\* So does a step of a worker: the one that leaves a slot is joined by its caller.
LEMMA WorkerNobodyStops ==
  ASSUME IInv, NobodyStops, NEW w \in Threads, WorkerNext(w)
  PROVE  NobodyStops'
<1>. USE DEF IInv, NobodyStops
<1>1. UNCHANGED <<threadPoolControl, callerPc, runJob, startedJobThreads>> /\ ~Stopping
  BY WorkerFrame DEF callerVars, Stopping, RKThreadPoolStop
<1>2. /\ \A v \in Threads : workerPc'[v] \notin {"exit", "exiting", "dead"}
      /\ liveThreads # 0 => liveThreads' # 0
  BY <1>1 DEF WorkerNext, WorkerStep, Boot, Ready, LoopTest, Wake, TakeJob, Execute,
              LeaveJob,
              Resleep, Exit, Exited, TypeOK, poolVars
<1>3. ASSUME NEW c \in Callers, startedJobThreads[c] = 0,
             callerPc[c] \in {"start", "startLive", "startControl"}
      PROVE  jobCond'[runJob[c]] = "Executing"
  <2>1. CASE LeaveJob(w)
    <3>1. currentJob[w] # runJob[c]
      <4>1. SUFFICES ASSUME currentJob[w] = runJob[c] PROVE FALSE
        OBVIOUS
      <4>2. PICK d \in Callers : runJob[d] = currentJob[w] /\ Joins(d, w) /\ currentJob[w] # None
        BY <2>1 DEF LeaveJob, WorkerStep, WorkersJoined
      <4>3. d = c
        BY <4>1, <4>2 DEF SlotOwned
      <4>. QED BY <1>3, <4>2, <4>3 DEF Joins
    <3>. QED BY <1>3, <2>1, <3>1 DEF LeaveJob, TypeOK
  <2>2. CASE ~LeaveJob(w)
    BY <1>3, <2>2 DEF WorkerNext, Boot, Ready, LoopTest, Wake, TakeJob, Execute,
                      Resleep, Exit,
                      Exited, jobVars
  <2>. QED BY <2>1, <2>2
<1>. QED BY <1>1, <1>2, <1>3

\* Every step keeps it up, since a pool without reapers takes no step of one.
LEMMA NobodyStopsStep ==
  ASSUME Reapers = {}
  PROVE  /\ Init => NobodyStops
         /\ IInv /\ NobodyStops /\ [Next]_vars => NobodyStops'
<1>1. Init => NobodyStops
  BY DEF Init, NobodyStops, InJob
<1>2. ASSUME IInv, NobodyStops, [Next]_vars
      PROVE  NobodyStops'
  <2>1. CASE UNCHANGED vars
    BY <1>2, <2>1 DEF vars, poolVars, workerVars, callerVars, jobVars, NobodyStops
  <2>. QED BY <1>2, <2>1, CallerNobodyStops, WorkerNobodyStops DEF Next
<1>. QED BY <1>1, <1>2

\* In a pool whose threads nobody reaps, a caller that claims a slot has live
\* threads (NSParameterAssert(liveThreads > 0), RKThreadPool.m:253) and one that
\* gives it back has started a worker (startedJobThreads > 0, line 288).
THEOREM UnreapedAssertions == ASSUME Reapers = {} PROVE Spec => []AssertionsUnreaped
<1>1. IInv /\ NobodyStops => AssertionsUnreaped
  BY DEF IInv, TypeOK, NobodyStops, AssertionsUnreaped
<1>. QED BY <1>1, NobodyStopsStep, Invariance, PTL DEF Spec

\* A handshake (lines 263 to 266 and 334 to 346) is between one caller and one
\* worker, the slot in that worker's queue is that caller's, and the worker will
\* answer unless it has left because threads are reaped (line 336).
THEOREM Handshakes == Spec => []HandshakeInv
<1>1. ASSUME IInv, Reapers = {} => NobodyStops
      PROVE  HandshakeInv
  <2>1. ASSUME NEW c \in Callers, callerPc[c] = "handshake"
        PROVE  WillAnswer(at[c])
    <3>1. at[c] \in Threads /\ lockCond[at[c]] \in {"Wakeup", "Awake", "NotRunning"}
      BY <1>1, <2>1 DEF IInv, Handshaking
    <3>2. workerPc[at[c]] \in WorkerPcs
      BY <1>1, <3>1 DEF IInv, TypeOK
    <3>3. \/ lockCond[at[c]] = "Wakeup" /\ workerPc[at[c]] \in {"loop", "sleep", "woken", "exit"}
          \/ lockCond[at[c]] = "Awake" /\ workerPc[at[c]] \in {"call", "executing", "finish"}
          \/ workerPc[at[c]] \in {"exiting", "dead"}
      BY <1>1, <3>1, <3>2 DEF IInv, WorkerAtCondition, WorkerPcs
    <3>4. Reapers = {} => workerPc[at[c]] \notin {"exit", "exiting", "dead"}
      BY <1>1, <3>1 DEF NobodyStops
    <3>. QED  BY <3>3, <3>4 DEF WillAnswer
  <2>. QED  BY <1>1, <2>1 DEF IInv, Handshaking, HandshakeInv
<1>2. CASE Reapers = {}
  <2>1. IInv /\ NobodyStops => HandshakeInv
    BY <1>1
  <2>. QED BY <1>2, <2>1, NobodyStopsStep, Invariance, PTL DEF Spec
<1>3. CASE Reapers # {}
  <2>1. IInv => HandshakeInv
    BY <1>1, <1>3
  <2>. QED BY <2>1, Invariance, PTL
<1>. QED BY <1>2, <1>3

-------------------------------------------------------------------------------
\* The pool implements ParallelCall.

\* No caller is a thread, and None is neither.
LEMMA Disjoint == Callers \cap Threads = {} /\ None \notin Callers /\ None \notin Threads
BY ThreadPoolAssumption DEF Threads

\* Nobody executes the function of a caller that has no slot, or has no worker
\* in its slot.
LEMMA NobodyExecutes ==
  ASSUME IInv, NEW c \in Callers, \A w \in Threads : ~Joins(c, w)
  PROVE  \A w \in Threads : workArgument[w] # c
BY Disjoint DEF IInv, WorkersJoined

\* Executing of workers and of callers, and how to change it at one place.
LEMMA ExecutingValues ==
  /\ \A w \in Threads : Executing[w] = workArgument[w]
  /\ \A c \in Callers : Executing[c] =
       IF callerPc[c] \in {"executing", "fallback"} THEN c ELSE None
  /\ \A w \in Threads : Executing'[w] = workArgument'[w]
  /\ \A c \in Callers : Executing'[c] =
       IF callerPc'[c] \in {"executing", "fallback"} THEN c ELSE None
BY Disjoint DEF Executing

\* What is executed changes at one place.
LEMMA ExecutingChange ==
  ASSUME NEW e \in Threads \cup Callers, NEW v,
         \A x \in Threads \cup Callers :
           Executing'[x] = IF x = e THEN v ELSE Executing[x]
  PROVE  Executing' = [Executing EXCEPT ![e] = v]
<1>. DEFINE Changed == [x \in Threads \cup Callers |-> IF x = e THEN v ELSE Executing[x]]
<1>1. Executing' = [x \in Threads \cup Callers |-> Executing'[x]]
  BY DEF Executing
<1>2. [Executing EXCEPT ![e] = v] = Changed
  BY DEF Executing
<1>3. [x \in Threads \cup Callers |-> Executing'[x]] = Changed
  OBVIOUS
<1>. QED  BY <1>1, <1>2, <1>3

\* A caller's step is one of the abstract call, or is not seen.
LEMMA CallerImplements ==
  ASSUME IInv, NEW c \in Callers, CallerNext(c)
  PROVE  [Promise!Next]_(Promise!vars)
<1>. USE DEF IInv
<1>0. UNCHANGED workArgument
  BY CallerFrame DEF workerVars
<1>1. CASE CallInline(c) \/ CallPool(c)
  <2>1. Calling' = Calling \cup {c} /\ c \notin Calling
    BY <1>1 DEF CallInline, CallPool, CallerStep, Calling, TypeOK
  <2>2. Ran' = Ran
    BY <1>1 DEF CallInline, CallPool, CallerStep, Ran, InJob, TypeOK, jobVars
  <2>3. Executing' = Executing
    BY <1>0, <1>1 DEF CallInline, CallPool, CallerStep, Executing, TypeOK
  <2>. QED  BY <2>1, <2>2, <2>3 DEF Promise!Next, Promise!Call
<1>. DEFINE Round == StartRound(c) \/ StartRoundLive(c) \/ StartRoundControl(c)
<1>2. CASE RunInline(c) \/ (Round /\ callerPc'[c] = "fallback")
  <2>1. /\ callerPc' = [callerPc EXCEPT ![c] = IF RunInline(c) THEN "executing" ELSE "fallback"]
        /\ IF RunInline(c) THEN callerPc[c] = "inline"
                           ELSE callerPc[c] \in {"start", "startLive", "startControl"}
        /\ UNCHANGED <<jobCond, runJob>>
    BY <1>2 DEF RunInline, StartRound, StartRoundLive, StartRoundControl, CallerStep,
                TypeOK, jobVars
  <2>2. Calling' = Calling /\ c \in Calling
    BY <2>1 DEF Calling, TypeOK
  <2>3. Ran' = Ran
    BY <2>1 DEF Ran, InJob, TypeOK
  <2>4. Executing' = [Executing EXCEPT ![c] = c] /\ Executing[c] = None
    <3>1. \A x \in Threads \cup Callers : Executing'[x] = IF x = c THEN c ELSE Executing[x]
      BY <1>0, <2>1, ExecutingValues, Disjoint DEF TypeOK
    <3>. QED  BY <2>1, <3>1, ExecutingChange, ExecutingValues
  <2>. QED  BY <2>2, <2>3, <2>4 DEF Promise!Next, Promise!Begin
<1>3. CASE InlineDone(c) \/ FallbackDone(c)
  <2>1. /\ callerPc' = [callerPc EXCEPT ![c] = IF InlineDone(c) THEN "return" ELSE "fallbackLock"]
        /\ callerPc[c] = IF InlineDone(c) THEN "executing" ELSE "fallback"
        /\ UNCHANGED <<jobCond, runJob>>
    BY <1>3 DEF InlineDone, FallbackDone, CallerStep, TypeOK, jobVars
  <2>2. Calling' = Calling
    BY <2>1 DEF Calling, TypeOK
  <2>3. Ran' = Ran \cup {c}
    BY <2>1 DEF Ran, InJob, TypeOK
  <2>4. Executing' = [Executing EXCEPT ![c] = None] /\ Executing[c] = c
    <3>1. \A x \in Threads \cup Callers : Executing'[x] = IF x = c THEN None ELSE Executing[x]
      BY <1>0, <2>1, ExecutingValues, Disjoint DEF TypeOK
    <3>. QED  BY <2>1, <3>1, ExecutingChange, ExecutingValues
  <2>. QED  BY <2>2, <2>3, <2>4, Disjoint DEF Promise!Next, Promise!End
<1>4. CASE Return(c) \/ FallbackRaise(c)
  <2>1. /\ callerPc' = [callerPc EXCEPT ![c] = IF Return(c) THEN "idle" ELSE "raised"]
        /\ callerPc[c] = IF Return(c) THEN "return" ELSE "fallbackLock"
        /\ UNCHANGED <<jobCond, runJob>>
    BY <1>4 DEF Return, FallbackRaise, CallerStep, TypeOK, jobVars
  <2>2. Calling' = Calling \ {c} /\ c \in Calling
    BY <2>1 DEF Calling, TypeOK
  <2>3. Ran' = Ran \ {c} /\ c \in Ran
    BY <2>1 DEF Ran, InJob, TypeOK
  <2>4. Executing' = Executing
    BY <1>0, <2>1 DEF Executing, TypeOK
  <2>5. \A e \in Threads \cup Callers : Executing[e] # c
    <3>1. \A w \in Threads : workArgument[w] # c
      BY <2>1, NobodyExecutes DEF Joins
    <3>. QED  BY <2>1, <3>1, Disjoint DEF Executing
  <2>. QED  BY <2>2, <2>3, <2>4, <2>5 DEF Promise!Next, Promise!Return
<1>5. CASE SlotAcquire(c) \/ Reset(c)
  <2>1. Calling' = Calling /\ Executing' = Executing
    BY <1>0, <1>5 DEF SlotAcquire, Reset, CallerStep, Calling, Executing, TypeOK
  <2>2. \A d \in Callers : d # c =>
          /\ callerPc'[d] = callerPc[d] /\ runJob'[d] = runJob[d]
          /\ callerPc[d] \in InJob => jobCond'[runJob[d]] = jobCond[runJob[d]]
    <3>1. /\ \A d \in Callers : d # c => callerPc'[d] = callerPc[d] /\ runJob'[d] = runJob[d]
          /\ \E j \in Threads :
               /\ \A i \in Threads : i # j => jobCond'[i] = jobCond[i]
               /\ jobCond[j] = "Available" \/ runJob[c] = j
      <4>1. CASE SlotAcquire(c)
        BY <4>1, ThreadPoolAssumption DEF SlotAcquire, CallerStep, TypeOK, Threads
      <4>2. CASE Reset(c)
        BY <4>2 DEF Reset, CallerStep, SlotOwned, InJob, TypeOK
      <4>. QED  BY <1>5, <4>1, <4>2
    <3>2. \A d \in Callers : d # c /\ callerPc[d] \in InJob =>
            /\ runJob[d] \in Threads /\ jobCond[runJob[d]] # "Available"
            /\ runJob[d] # runJob[c]
      BY Disjoint DEF SlotOwned, TypeOK
    <3>. QED  BY <3>1, <3>2
  <2>3. c \in Ran' <=> c \in Ran
    BY <1>5, ThreadPoolAssumption
       DEF SlotAcquire, Reset, CallerStep, Ran, InJob, TypeOK, Threads
  <2>. QED  BY <2>1, <2>2, <2>3 DEF Promise!vars, Ran
<1>6. CASE \/ SlotRound(c) \/ SlotRoundLive(c) \/ SlotSkip(c) \/ StartWorker(c)
           \/ SkipWorker(c) \/ Handshake(c) \/ Handshaken(c) \/ FallbackLock(c)
           \/ JoinCompleted(c) \/ (Round /\ callerPc'[c] # "fallback")
  <2>. DEFINE Starting == {"start", "startLive", "startControl", "handshake", "handshaken"}
  <2>1. /\ UNCHANGED <<jobCond, runJob>>
        /\ \A d \in Callers : d # c => callerPc'[d] = callerPc[d]
        /\ \/ callerPc'[c] = callerPc[c]
           \/ /\ callerPc[c] \in {"slot", "slotLive"}
              /\ callerPc'[c] \in {"slot", "slotLive", "inline"}
           \/ callerPc[c] \in Starting /\ callerPc'[c] \in Starting \cup {"join"}
           \/ callerPc[c] = "fallbackLock" /\ callerPc'[c] = "reset"
           \/ /\ callerPc[c] = "join" /\ callerPc'[c] = "reset"
              /\ jobCond[runJob[c]] = "Completed"
    BY <1>6 DEF SlotRound, SlotRoundLive, SlotSkip, StartRound, StartRoundLive,
                StartRoundControl, StartEnd, StartWorker, SkipWorker,
                Handshake, Handshaken, FallbackLock, JoinCompleted, JobLock, CallerStep,
                TypeOK, jobVars
  <2>2. Calling' = Calling /\ Executing' = Executing
    BY <1>0, <2>1 DEF Calling, Executing, TypeOK
  <2>3. Ran' = Ran
    BY <2>1 DEF Ran, InJob, TypeOK
  <2>. QED  BY <2>2, <2>3 DEF Promise!vars
<1>. QED  BY <1>1, <1>2, <1>3, <1>4, <1>5, <1>6 DEF CallerNext, CallerProgress

\* A worker's step is one of the abstract call, or is not seen.
LEMMA WorkerImplements ==
  ASSUME IInv, NEW w \in Threads, WorkerNext(w)
  PROVE  [Promise!Next]_(Promise!vars)
<1>. USE DEF IInv
<1>0. UNCHANGED callerVars
  BY WorkerFrame
<1>1. Calling' = Calling
  BY <1>0 DEF Calling, callerVars
<1>2. CASE Execute(w)
  <2>1. PICK c \in Callers : /\ runJob[c] = currentJob[w] /\ Joins(c, w)
                             /\ currentJob[w] # None /\ workArgument[w] = None
    BY <1>2 DEF Execute, WorkerStep, WorkersJoined
  <2>2. workArgument' = [workArgument EXCEPT ![w] = c]
    BY <1>2, <2>1 DEF Execute, SlotOwned
  <2>3. Executing' = [Executing EXCEPT ![w] = c] /\ Executing[w] = None
    <3>1. \A x \in Threads \cup Callers : Executing'[x] = IF x = w THEN c ELSE Executing[x]
      BY <1>0, <2>2, ExecutingValues, Disjoint DEF callerVars, TypeOK
    <3>. QED  BY <2>1, <3>1, ExecutingChange, ExecutingValues
  <2>4. c \in Calling
    BY <2>1 DEF Calling, Joins
  <2>5. Ran' = Ran
    BY <1>0, <1>2 DEF Execute, Ran, callerVars, jobVars
  <2>. QED  BY <1>1, <2>3, <2>4, <2>5 DEF Promise!Next, Promise!Begin
<1>3. CASE LeaveJob(w)
  <2>1. PICK c \in Callers : /\ runJob[c] = currentJob[w] /\ Joins(c, w)
                             /\ currentJob[w] \in Threads /\ workArgument[w] = c
    BY <1>3 DEF LeaveJob, WorkerStep, WorkersJoined, TypeOK
  <2>2. Executing' = [Executing EXCEPT ![w] = None] /\ Executing[w] = c
    <3>1. workArgument' = [workArgument EXCEPT ![w] = None]
      BY <1>3 DEF LeaveJob
    <3>2. \A x \in Threads \cup Callers : Executing'[x] = IF x = w THEN None ELSE Executing[x]
      BY <1>0, <3>1, ExecutingValues, Disjoint DEF callerVars, TypeOK
    <3>. QED  BY <2>1, <3>2, ExecutingChange, ExecutingValues
  <2>3. Ran' = Ran \cup {c}
    <3>1. /\ jobCond'[currentJob[w]] \in {"Finishing", "Completed"}
          /\ \A j \in Threads : j # currentJob[w] => jobCond'[j] = jobCond[j]
      BY <1>3, <2>1 DEF LeaveJob, TypeOK
    <3>2. \A d \in Callers : callerPc[d] \in InJob /\ d # c =>
            runJob[d] \in Threads /\ runJob[d] # currentJob[w]
      BY <2>1, Disjoint DEF SlotOwned, TypeOK
    <3>3. callerPc[c] \in InJob
      BY <2>1 DEF Joins, InJob
    <3>. QED  BY <1>0, <2>1, <3>1, <3>2, <3>3 DEF Ran, callerVars
  <2>. QED  BY <1>1, <2>2, <2>3, Disjoint DEF Promise!Next, Promise!End
<1>4. CASE ~Execute(w) /\ ~LeaveJob(w)
  <2>1. UNCHANGED <<workArgument, jobCond>>
    BY <1>4 DEF WorkerNext, Boot, Ready, LoopTest, Wake, TakeJob, Resleep, Exit,
                Exited, jobVars
  <2>. QED  BY <1>0, <1>1, <2>1 DEF Ran, Executing, callerVars, Promise!vars
<1>. QED  BY <1>2, <1>3, <1>4

\* Whatever the size of the pool, and whoever reaps it meanwhile: each call of
\* threadFunction:argument: returns only after its function has been executed
\* to its end on its argument, and when no thread executes it any more.
THEOREM Implements == Spec => ImplementsParallelCall
<1>1. Init => Promise!Init
  BY DEF Init, Promise!Init, Calling, Ran, Executing, InJob
<1>2. IInv /\ [Next]_vars => [Promise!Next]_(Promise!vars)
  <2>. SUFFICES ASSUME IInv, [Next]_vars
                PROVE  [Promise!Next]_(Promise!vars)
    OBVIOUS
  <2>1. CASE UNCHANGED <<jobVars, workerVars, callerVars>>
    BY <2>1 DEF Calling, Ran, Executing, Promise!vars, jobVars, workerVars, callerVars
  <2>. QED
    BY <2>1, CallerImplements, WorkerImplements, ReaperFrame DEF Next, vars
<1>. QED  BY <1>1, <1>2, Invariance, PTL DEF Spec, ImplementsParallelCall, Promise!Spec
===============================================================================
