----------------------- MODULE RKDefaultThreadPoolProofs -----------------------
(*****************************************************************************)
(* The default thread pool, for every finite set of threads, every set of    *)
(* addresses and every number of processors.  A program is multithreaded     *)
(* from one moment on (Phase), and of the pools that are the default pool    *)
(* after it only the one of that moment, the old one, has no threads and is  *)
(* taken away (Replacing).  Its reference and those of the others have       *)
(* each an owner (Exact).  That argument needs every pool to be made; what   *)
(* is left of it when one is not, with more than one processor, is Kept.     *)
(*****************************************************************************)
EXTENDS DefaultPoolReferences, FiniteSetTheorems, TLAPS

\* What a thread knows of the program is true, and only a multithreaded program
\* has pools with threads, or takes one away.  A call has made no pool before init.
Phase ==
  /\ \A t \in Threads : pc[t] # "idle" =>
       cocoaIsMultiThreaded[t] = isMultiThreaded /\ (t = Main \/ isMultiThreaded)
  /\ threadPoolIsMultiThreaded = 1 => isMultiThreaded
  /\ \A p \in Pools : threadCount[p] # 0 => threadPoolIsMultiThreaded = 1
  /\ \A t \in Threads : pc[t] \in {"swap", "reap"} => isMultiThreaded /\ currentPool[t] # NULL
  /\ \A t \in Threads : pc[t] \in {"test", "swap", "reap", "prepare", "init"} => tempPool[t] = NULL

\* The thread that takes the old pool away, until there is a new one.
HasTakenAway(t, old) ==
  \/ pc[t] = "reap" /\ currentPool[t] = old
  \/ pc[t] \in {"prepare", "init", "publish"} /\ autoreleased[t][old] > 0

\* The default pool is the old one, until a thread takes it away; then NULL,
\* while that thread still has it; and then another one for good.
Replacing(old) ==
  /\ \A t \in Threads : pc[t] \in {"swap", "reap"} => currentPool[t] = old
  /\ \A t \in Threads : pc[t] = "reap" => threadCount[old] = 0 /\ Default # old
  /\ \A t, u \in Threads : pc[t] = "reap" /\ pc[u] = "reap" => t = u
  /\ threadPoolIsMultiThreaded = 0 =>
       /\ Default \in {old, NULL}
       /\ \A t \in Threads : pc[t] \in {"idle", "test", "swap", "reap", "prepare"}
       /\ \A t \in Threads : pc[t] = "test" => currentPool[t] \in {old, NULL}
  /\ Default = old /\ old # NULL =>
       /\ threadCount[old] = 0 /\ threadPoolIsMultiThreaded = 0
       /\ \A t \in Threads : pc[t] \in {"idle", "test", "swap"}
       /\ \A t \in Threads : pc[t] = "test" => currentPool[t] = old
  /\ Default = NULL =>
       /\ \A t \in Threads : pc[t] \notin {"retain", "reread"}
       /\ \A t \in Threads : pc[t] = "publish" => tempPool[t] # old
       /\ old # NULL => \E t \in Threads : HasTakenAway(t, old)

\* A pool that is gone has no owner and an owner for every reference, if not.
\* A pool is published, and the default pool retained, while the thread that
\* made it has it in its autorelease pool.
Exact ==
  /\ \A p \in Pools :
       IF retainCount[p] = 0 THEN Pending(p) = 0 /\ Reaping(p) = 0 /\ p # Default
       ELSE retainCount[p] = Accounted(p) + (IF p = Default /\ ~WillRetain THEN 1 ELSE 0)
  /\ \A t \in Threads : pc[t] = "publish" => tempPool[t] # NULL /\ autoreleased[t][tempPool[t]] > 0
  /\ \A t \in Threads : pc[t] = "retain" => Default # NULL /\ autoreleased[t][Default] > 0
  /\ \A t, u \in Threads : pc[t] = "retain" /\ pc[u] = "retain" => t = u
  /\ \A t \in Threads : pc[t] = "reread" => Default # NULL
  /\ \A t \in Threads : pc[t] = "using" => currentPool[t] # NULL

AllMade == Exact /\ (isMultiThreaded => \E old \in Pools \cup {NULL} : Replacing(old))

\* The default pool is retained, or the only thread is about to retain it.
DefaultKept ==
  /\ Reaping(Default) = 0
  /\ \/ retainCount[Default] > Pending(Default)
     \/ ~isMultiThreaded /\ pc[Main] = "retain" /\ autoreleased[Main][Default] > 0

\* The threads of a pool keep it.  One without threads has been made while the
\* program had a single one, and has its owners.
Kept ==
  /\ \A p \in Pools :
       retainCount[p] >= Pending(p) + (IF threadCount[p] # 0 THEN threadCount[p] ELSE Reaping(p))
  /\ Default # NULL /\ threadCount[Default] = 0 => DefaultKept
  /\ isMultiThreaded => \A t \in Threads :
       pc[t] = "publish" => tempPool[t] = NULL \/ threadCount[tempPool[t]] # 0
  /\ ~isMultiThreaded /\ pc[Main] = "publish" /\ tempPool[Main] # NULL =>
       autoreleased[Main][tempPool[Main]] > 0

IInv ==
  /\ TypeOK
  /\ Phase
  /\ ~allocationFailed => AllMade
  /\ Processors > 1 => Kept

-------------------------------------------------------------------------------
\* There are n pairs of one thing and a number from 1 to n.
LEMMA RowOfTokens ==
  ASSUME NEW t, NEW n \in Nat
  PROVE  IsFiniteSet({t} \X (1..n)) /\ Cardinality({t} \X (1..n)) = n
<1>1. IsFiniteSet(1..n)
  BY FS_Interval
<1>2. Cardinality(1..n) = IF 1 > n THEN 0 ELSE n - 1 + 1
  BY FS_Interval
<1>3. Cardinality(1..n) = n
  BY <1>2
<1>4. IsFiniteSet({t}) /\ Cardinality({t}) = 1
  BY FS_Singleton
<1>5. Cardinality({t} \X (1..n)) = Cardinality({t}) * Cardinality(1..n)
  BY <1>1, <1>4, FS_Product
<1>6. IsFiniteSet({t} \X (1..n))
  BY <1>1, <1>4, FS_Product
<1>7. 1 * n = n
  OBVIOUS
<1>. QED BY <1>3, <1>4, <1>5, <1>6, <1>7

\* The tokens of a finite function are finite: Total(a) is a number.
LEMMA TokensFinite ==
  ASSUME NEW T, IsFiniteSet(T), NEW a \in [T -> Nat]
  PROVE  IsFiniteSet(Tokens(a)) /\ Total(a) \in Nat
<1>. DEFINE f == [t \in T |-> {t} \X (1..a[t])]
            S == {{t} \X (1..a[t]) : t \in T}
<1>1. f \in Surjection(T, S)
  BY DEF Surjection
<1>2. IsFiniteSet(S)
  BY <1>1, FS_Surjection
<1>3. \A R \in S : IsFiniteSet(R)
  <2>. TAKE R \in S
  <2>1. PICK t \in T : R = {t} \X (1..a[t])
    OBVIOUS
  <2>2. a[t] \in Nat
    OBVIOUS
  <2>. QED BY <2>1, <2>2, RowOfTokens
<1>4. Tokens(a) = UNION S
  BY DEF Tokens
<1>. HIDE DEF f, S
<1>5. IsFiniteSet(Tokens(a))
  BY <1>2, <1>3, <1>4, FS_UNION
<1>. QED BY <1>5, FS_CardinalityType DEF Total

\* Two functions that differ at t have totals that differ by as much.
LEMMA TotalChanges ==
  ASSUME NEW T, IsFiniteSet(T), NEW a \in [T -> Nat], NEW b \in [T -> Nat], NEW t \in T,
         \A u \in T \ {t} : a[u] = b[u]
  PROVE  Total(a) - a[t] = Total(b) - b[t] /\ Total(a) >= a[t]
<1>. DEFINE Others == UNION {{u} \X (1..a[u]) : u \in T \ {t}}
            Of(n) == {t} \X (1..n)
<1>1. /\ Tokens(a) = Others \cup Of(a[t])
      /\ Tokens(b) = Others \cup Of(b[t])
  BY DEF Tokens
<1>2. \A n \in Nat : Others \cap Of(n) = {}
  OBVIOUS
<1>3. \A n \in Nat : IsFiniteSet(Of(n)) /\ Cardinality(Of(n)) = n
  BY RowOfTokens
<1>. HIDE DEF Others, Of
<1>4. IsFiniteSet(Others) /\ Cardinality(Others) \in Nat
  <2>1. IsFiniteSet(Tokens(a))
    BY TokensFinite
  <2>2. Others \in SUBSET Tokens(a)
    BY <1>1
  <2>3. IsFiniteSet(Others)
    BY <2>1, <2>2, FS_Subset
  <2>. QED BY <2>3, FS_CardinalityType
<1>5. ASSUME NEW n \in Nat
      PROVE  Cardinality(Others \cup Of(n)) = Cardinality(Others) + n
  <2>1. Cardinality(Others \cup Of(n))
          = Cardinality(Others) + Cardinality(Of(n)) - Cardinality(Others \cap Of(n))
    BY <1>3, <1>4, FS_Union
  <2>2. Cardinality(Others \cap Of(n)) = 0
    BY <1>2, FS_EmptySet
  <2>. QED BY <1>3, <1>4, <2>1, <2>2
<1>6. Total(a) = Cardinality(Others) + a[t] /\ Total(b) = Cardinality(Others) + b[t]
  BY <1>1, <1>5 DEF Total
<1>. QED BY <1>4, <1>6

\* A total is none if every number is none.
LEMMA TotalOfNone ==
  ASSUME NEW T, NEW a \in [T -> Nat], \A t \in T : a[t] = 0
  PROVE  Total(a) = 0
<1>1. Tokens(a) = {}
  BY DEF Tokens
<1>. QED BY <1>1, FS_EmptySet DEF Total
-------------------------------------------------------------------------------
\* Of p, one autorelease pool holds no more releases than all of them.
LEMMA ReleasesCount ==
  ASSUME NEW A \in [Threads -> [Pools -> Nat]], NEW p \in Pools, NEW t \in Threads
  PROVE  /\ Total([u \in Threads |-> A[u][p]]) \in Nat
         /\ A[t][p] \in Nat /\ A[t][p] <= Total([u \in Threads |-> A[u][p]])
<1>. DEFINE a == [u \in Threads |-> A[u][p]]
<1>1. a \in [Threads -> Nat] /\ a[t] = A[t][p]
  OBVIOUS
<1>. HIDE DEF a
<1>2. Total(a) \in Nat
  BY <1>1, TokensFinite, ThreadsAssumption
<1>3. Total(a) >= a[t]
  BY <1>1, TotalChanges, ThreadsAssumption
<1>. QED BY <1>1, <1>2, <1>3 DEF a

\* So it is with the autorelease pools as they are.
LEMMA PendingCounts ==
  ASSUME TypeOK, NEW p \in Pools
  PROVE  /\ Pending(p) \in Nat
         /\ \A t \in Threads : autoreleased[t][p] \in Nat /\ autoreleased[t][p] <= Pending(p)
BY ReleasesCount, ThreadsAssumption DEF TypeOK, Pending

\* What one thread's autorelease pool gains or loses of q, Pending(q) does.
LEMMA PendingChanges ==
  ASSUME TypeOK, NEW t \in Threads, NEW q \in Pools,
         autoreleased' \in [Threads -> [Pools -> Nat]],
         \A u \in Threads \ {t} : autoreleased'[u] = autoreleased[u]
  PROVE  Pending(q)' = Pending(q) + autoreleased'[t][q] - autoreleased[t][q]
<1>. DEFINE a == [u \in Threads |-> autoreleased[u][q]]
            b == [u \in Threads |-> autoreleased'[u][q]]
<1>1. a \in [Threads -> Nat] /\ b \in [Threads -> Nat]
  BY DEF TypeOK
<1>2. \A u \in Threads \ {t} : a[u] = b[u]
  OBVIOUS
<1>3. Pending(q) = Total(a) /\ Pending(q)' = Total(b)
  BY DEF Pending
<1>4. a[t] = autoreleased[t][q] /\ b[t] = autoreleased'[t][q]
  OBVIOUS
<1>. HIDE DEF a, b
<1>5. Total(a) - a[t] = Total(b) - b[t]
  BY <1>1, <1>2, TotalChanges, ThreadsAssumption
<1>6. Total(a) \in Nat /\ Total(b) \in Nat
  BY <1>1, TokensFinite, ThreadsAssumption
<1>7. a[t] \in Nat /\ b[t] \in Nat
  BY <1>1
<1>. QED BY <1>3, <1>4, <1>5, <1>6, <1>7

\* Autorelease adds its releases, of that pool to that thread's.
LEMMA PendingAdds ==
  ASSUME TypeOK, NEW t \in Threads, NEW p \in Pools, NEW n \in Nat, Autorelease(t, p, n)
  PROVE  /\ autoreleased' \in [Threads -> [Pools -> Nat]]
         /\ \A u \in Threads, q \in Pools :
              autoreleased'[u][q] = autoreleased[u][q] + (IF u = t /\ q = p THEN n ELSE 0)
         /\ \A q \in Pools : Pending(q)' = Pending(q) + (IF q = p THEN n ELSE 0)
<1>1. /\ autoreleased' \in [Threads -> [Pools -> Nat]]
      /\ \A u \in Threads, q \in Pools :
           autoreleased'[u][q] = autoreleased[u][q] + (IF u = t /\ q = p THEN n ELSE 0)
      /\ \A u \in Threads \ {t} : autoreleased'[u] = autoreleased[u]
  BY DEF TypeOK, Autorelease
<1>2. ASSUME NEW q \in Pools
      PROVE  Pending(q)' = Pending(q) + (IF q = p THEN n ELSE 0)
  <2>1. Pending(q)' = Pending(q) + autoreleased'[t][q] - autoreleased[t][q]
    BY <1>1, PendingChanges
  <2>2. Pending(q) \in Nat /\ autoreleased[t][q] \in Nat
    BY PendingCounts
  <2>. QED BY <1>1, <2>1, <2>2
<1>. QED BY <1>1, <1>2

\* t is reaping q.
Reaps(t, q) == pc[t] = "reap" /\ currentPool[t] = q

\* There are as many that reap q as Reaping(q) says.
LEMMA ReapingCounts ==
  ASSUME NEW q
  PROVE  Reaping(q) \in Nat /\ (Reaping(q) = 0 <=> \A t \in Threads : ~Reaps(t, q))
<1>. DEFINE S == {t \in Threads : Reaps(t, q)}
<1>1. Reaping(q) = Cardinality(S)
  BY DEF Reaping, Reaps
<1>2. IsFiniteSet(S)
  <2>1. S \in SUBSET Threads
    OBVIOUS
  <2>. QED BY <2>1, FS_Subset, ThreadsAssumption
<1>3. S = {} <=> \A t \in Threads : ~Reaps(t, q)
  OBVIOUS
<1>. HIDE DEF S
<1>. QED BY <1>1, <1>2, <1>3, FS_CardinalityType, FS_EmptySet

\* A step of one thread changes the number by what it does itself.
LEMMA ReapingChanges ==
  ASSUME NEW t \in Threads, NEW q,
         \A u \in Threads \ {t} : pc'[u] = pc[u] /\ currentPool'[u] = currentPool[u]
  PROVE  Reaping(q)' = Reaping(q) + (IF Reaps(t, q)' THEN 1 ELSE 0) - (IF Reaps(t, q) THEN 1 ELSE 0)
<1>. DEFINE S == {u \in Threads : Reaps(u, q)}
            R == {u \in Threads : Reaps(u, q)'}
            Rest == {u \in Threads \ {t} : Reaps(u, q)}
<1>1. Reaping(q) = Cardinality(S) /\ Reaping(q)' = Cardinality(R)
  BY DEF Reaping, Reaps
<1>2. IsFiniteSet(Rest) /\ Cardinality(Rest) \in Nat
  <2>1. Rest \in SUBSET Threads
    OBVIOUS
  <2>. QED BY <2>1, FS_Subset, FS_CardinalityType, ThreadsAssumption
<1>3. S = IF Reaps(t, q) THEN Rest \cup {t} ELSE Rest
  OBVIOUS
<1>4. R = IF Reaps(t, q)' THEN Rest \cup {t} ELSE Rest
  BY DEF Reaps
<1>5. t \notin Rest
  OBVIOUS
<1>. HIDE DEF S, R, Rest
<1>6. Cardinality(Rest \cup {t}) = Cardinality(Rest) + 1
  BY <1>2, <1>5, FS_AddElement
<1>. QED BY <1>1, <1>2, <1>3, <1>4, <1>6
-------------------------------------------------------------------------------
\* At first there is one thread, and no pool.
LEMMA InitIInv == Init => IInv
<1>. USE ThreadsAssumption, ProcessorsAssumption, NullAssumption
<1>. SUFFICES ASSUME Init
              PROVE  IInv
  OBVIOUS
<1>1. TypeOK
  <2>1. autoreleased \in [Threads -> [Pools -> Nat]]
    BY DEF Init
  <2>2. retainCount \in [Pools -> Int] /\ threadCount \in [Pools -> {0, Processors}]
    BY DEF Init
  <2>. QED BY <2>1, <2>2 DEF Init, TypeOK, Steps
<1>2. Phase
  BY DEF Init, Phase
<1>3. \A p \in Pools : Pending(p) = 0
  <2>. TAKE p \in Pools
  <2>. DEFINE a == [t \in Threads |-> autoreleased[t][p]]
  <2>1. a \in [Threads -> Nat] /\ \A t \in Threads : a[t] = 0
    BY DEF Init
  <2>. HIDE DEF a
  <2>2. Total(a) = 0
    BY <2>1, TotalOfNone
  <2>. QED BY <2>2 DEF Pending, a
<1>4. \A p \in Pools : Reaping(p) = 0
  BY ReapingCounts DEF Init, Reaps
<1>5. AllMade
  BY <1>3, <1>4 DEF Init, AllMade, Exact, Default
<1>6. Kept
  BY <1>3, <1>4 DEF Init, Kept, Default
<1>. QED BY <1>1, <1>2, <1>5, <1>6 DEF IInv

\* Every step keeps the types.
LEMMA NextType == TypeOK /\ Phase /\ [Next]_vars => TypeOK'
<1>. USE ThreadsAssumption, ProcessorsAssumption, NullAssumption
<1>. SUFFICES ASSUME TypeOK, Phase, [Next]_vars
              PROVE  TypeOK'
  OBVIOUS
<1>. USE DEF TypeOK, Steps, statics, objects, locals, Goto, Hold
<1>1. CASE DetachThreads
  BY <1>1 DEF DetachThreads
<1>2. ASSUME NEW t \in Threads, Call(t)
      PROVE  TypeOK'
  BY <1>2 DEF Call
<1>3. ASSUME NEW t \in Threads, Test(t)
      PROVE  TypeOK'
  BY <1>3 DEF Test
<1>4. ASSUME NEW t \in Threads, SwapOut(t)
      PROVE  TypeOK'
  BY <1>4 DEF SwapOut, CompareAndSwap
<1>5. ASSUME NEW t \in Threads, Reap(t)
      PROVE  TypeOK'
  <2>1. currentPool[t] \in Pools
    BY <1>5 DEF Reap, Phase
  <2>2. autoreleased' \in [Threads -> [Pools -> Nat]]
    BY <1>5, <2>1, PendingAdds DEF Reap
  <2>. QED BY <1>5, <2>2 DEF Reap
<1>6. ASSUME NEW t \in Threads, Prepare(t)
      PROVE  TypeOK'
  BY <1>6 DEF Prepare, Flag
<1>7. ASSUME NEW t \in Threads, InitPool(t)
      PROVE  TypeOK'
  <2>1. PICK p \in Pools :
          /\ tempPool' = [tempPool EXCEPT ![t] = p]
          /\ LET workers == IF ~cocoaIsMultiThreaded[t] \/ Processors = 1 \/ ~isMultiThreaded
                            THEN 0 ELSE Processors
             IN  /\ threadCount' = [threadCount EXCEPT ![p] = workers]
                 /\ retainCount' = [retainCount EXCEPT ![p] = 2 + workers]
          /\ Autorelease(t, p, 2)
    BY <1>7 DEF InitPool
  <2>2. autoreleased' \in [Threads -> [Pools -> Nat]]
    BY <2>1, PendingAdds
  <2>3. threadCount' \in [Pools -> {0, Processors}] /\ retainCount' \in [Pools -> Int]
    BY <2>1
  <2>. QED BY <1>7, <2>1, <2>2, <2>3 DEF InitPool, Flag
<1>8. ASSUME NEW t \in Threads, InitPoolFails(t)
      PROVE  TypeOK'
  BY <1>8 DEF InitPoolFails
<1>9. ASSUME NEW t \in Threads, Publish(t)
      PROVE  TypeOK'
  BY <1>9 DEF Publish, CompareAndSwap
<1>10. ASSUME NEW t \in Threads, Retain(t)
       PROVE  TypeOK'
  BY <1>10 DEF Retain
<1>11. ASSUME NEW t \in Threads, Reread(t)
       PROVE  TypeOK'
  BY <1>11 DEF Reread
<1>12. ASSUME NEW t \in Threads, Finish(t)
       PROVE  TypeOK'
  BY <1>12 DEF Finish
<1>13. ASSUME NEW t \in Threads, Drain(t)
       PROVE  TypeOK'
  BY <1>13 DEF Drain
<1>14. CASE UNCHANGED vars
  BY <1>14 DEF vars
<1>. QED
  BY <1>1, <1>2, <1>3, <1>4, <1>5, <1>6, <1>7, <1>8, <1>9, <1>10, <1>11, <1>12, <1>13, <1>14
     DEF Next, DefaultThreadPool

\* Every step keeps the phase of the program.
LEMMA NextPhase == TypeOK /\ Phase /\ [Next]_vars => Phase'
<1>. USE ThreadsAssumption, ProcessorsAssumption, NullAssumption
<1>. SUFFICES ASSUME TypeOK, Phase, [Next]_vars
              PROVE  Phase'
  OBVIOUS
<1>. USE DEF TypeOK, Steps, Phase, statics, objects, locals, Goto, Hold
<1>1. CASE DetachThreads
  BY <1>1 DEF DetachThreads
<1>2. ASSUME NEW t \in Threads, Call(t)
      PROVE  Phase'
  BY <1>2 DEF Call
<1>3. ASSUME NEW t \in Threads, Test(t)
      PROVE  Phase'
  BY <1>3 DEF Test, MustReplace
<1>4. ASSUME NEW t \in Threads, SwapOut(t)
      PROVE  Phase'
  BY <1>4 DEF SwapOut, CompareAndSwap
<1>5. ASSUME NEW t \in Threads, Reap(t)
      PROVE  Phase'
  BY <1>5 DEF Reap
<1>6. ASSUME NEW t \in Threads, Prepare(t)
      PROVE  Phase'
  BY <1>6 DEF Prepare, Flag
<1>7. ASSUME NEW t \in Threads, InitPool(t)
      PROVE  Phase'
  BY <1>7 DEF InitPool, Flag
<1>8. ASSUME NEW t \in Threads, InitPoolFails(t)
      PROVE  Phase'
  BY <1>8 DEF InitPoolFails
<1>9. ASSUME NEW t \in Threads, Publish(t)
      PROVE  Phase'
  BY <1>9 DEF Publish, CompareAndSwap
<1>10. ASSUME NEW t \in Threads, Retain(t)
       PROVE  Phase'
  BY <1>10 DEF Retain
<1>11. ASSUME NEW t \in Threads, Reread(t)
       PROVE  Phase'
  BY <1>11 DEF Reread
<1>12. ASSUME NEW t \in Threads, Finish(t)
       PROVE  Phase'
  BY <1>12 DEF Finish
<1>13. ASSUME NEW t \in Threads, Drain(t)
       PROVE  Phase'
  BY <1>13 DEF Drain
<1>14. CASE UNCHANGED vars
  BY <1>14 DEF vars
<1>. QED
  BY <1>1, <1>2, <1>3, <1>4, <1>5, <1>6, <1>7, <1>8, <1>9, <1>10, <1>11, <1>12, <1>13, <1>14
     DEF Next, DefaultThreadPool
-------------------------------------------------------------------------------
\* What InitPool makes: a pool at an unused address, with its references, and
\* with threads only if the program is multithreaded.
LEMMA PoolMade ==
  ASSUME TypeOK, Phase, NEW t \in Threads, InitPool(t)
  PROVE  \E p \in Pools :
           /\ retainCount[p] = 0
           /\ tempPool' = [tempPool EXCEPT ![t] = p]
           /\ threadCount' = [threadCount EXCEPT ![p] =
                                IF isMultiThreaded /\ Processors # 1 THEN Processors ELSE 0]
           /\ retainCount' = [retainCount EXCEPT ![p] = 2 + threadCount'[p]]
           /\ Autorelease(t, p, 2)
<1>1. cocoaIsMultiThreaded[t] = isMultiThreaded
  BY DEF InitPool, Phase
<1>2. PICK p \in Pools :
        /\ retainCount[p] = 0
        /\ tempPool' = [tempPool EXCEPT ![t] = p]
        /\ LET workers == IF ~cocoaIsMultiThreaded[t] \/ Processors = 1 \/ ~isMultiThreaded
                          THEN 0 ELSE Processors
           IN  /\ threadCount' = [threadCount EXCEPT ![p] = workers]
               /\ retainCount' = [retainCount EXCEPT ![p] = 2 + workers]
        /\ Autorelease(t, p, 2)
  BY DEF InitPool
<1>. DEFINE workers == IF isMultiThreaded /\ Processors # 1 THEN Processors ELSE 0
<1>3. workers = IF ~cocoaIsMultiThreaded[t] \/ Processors = 1 \/ ~isMultiThreaded
                THEN 0 ELSE Processors
  BY <1>1 DEF TypeOK
<1>. HIDE DEF workers
<1>4. /\ threadCount' = [threadCount EXCEPT ![p] = workers]
      /\ retainCount' = [retainCount EXCEPT ![p] = 2 + workers]
  BY <1>2, <1>3
<1>5. threadCount'[p] = workers
  BY <1>4 DEF TypeOK
<1>. QED BY <1>2, <1>4, <1>5 DEF workers

\* A step of t that leaves the pools alone, and neither starts nor ends to reap
\* one, changes no count.
LEMMA CountsStay ==
  ASSUME NEW t \in Threads, UNCHANGED autoreleased,
         \A u \in Threads \ {t} : pc'[u] = pc[u] /\ currentPool'[u] = currentPool[u],
         pc[t] # "reap", pc'[t] # "reap", NEW q
  PROVE  Pending(q)' = Pending(q) /\ Reaping(q)' = Reaping(q)
<1>1. ~Reaps(t, q) /\ ~Reaps(t, q)'
  BY DEF Reaps
<1>2. Reaping(q)' = Reaping(q)
  BY <1>1, ReapingChanges, ReapingCounts
<1>. QED BY <1>2 DEF Pending

\* With several processors the default pool is kept whether pools can be made or not.
LEMMA NextKept == TypeOK /\ Phase /\ Processors > 1 /\ Kept /\ [Next]_vars => Kept'
<1>. USE ThreadsAssumption, ProcessorsAssumption, NullAssumption
<1>. SUFFICES ASSUME TypeOK, Phase, Processors > 1, Kept, [Next]_vars
              PROVE  Kept'
  OBVIOUS
<1>. USE DEF Default
<1>0. /\ \A q \in Pools : Pending(q) \in Nat /\ Reaping(q) \in Nat
      /\ \A q \in Pools, t \in Threads :
           autoreleased[t][q] \in Nat /\ autoreleased[t][q] <= Pending(q)
  BY PendingCounts, ReapingCounts
\* The steps that change no pool and no count.
<1>1. ASSUME NEW t \in Threads, UNCHANGED <<objects, isMultiThreaded, defaultThreadPoolSingleton>>,
             \A u \in Threads \ {t} : pc'[u] = pc[u] /\ currentPool'[u] = currentPool[u]
                                      /\ tempPool'[u] = tempPool[u],
             pc[t] \notin {"reap", "retain"}, pc'[t] # "reap",
             pc'[t] = "publish" => tempPool'[t] = NULL
      PROVE  Kept'
  <2>1. \A q : Pending(q)' = Pending(q) /\ Reaping(q)' = Reaping(q)
    BY <1>1, CountsStay DEF objects
  <2>. QED BY <1>1, <2>1 DEF Kept, DefaultKept, objects
<1>2. CASE DetachThreads
  <2>1. \A q : Pending(q)' = Pending(q) /\ Reaping(q)' = Reaping(q)
    BY <1>2 DEF DetachThreads, objects, locals, Pending, Reaping
  <2>2. \A t \in Threads : pc[t] # "publish"
    BY <1>2 DEF DetachThreads, Phase
  <2>. QED BY <1>2, <2>1, <2>2 DEF DetachThreads, objects, locals, Kept, DefaultKept
<1>3. ASSUME NEW t \in Threads,
             Call(t) \/ Test(t) \/ Prepare(t) \/ InitPoolFails(t) \/ Reread(t) \/ Finish(t)
      PROVE  Kept'
  <2>1. /\ UNCHANGED <<objects, isMultiThreaded, defaultThreadPoolSingleton>>
        /\ \A u \in Threads \ {t} : pc'[u] = pc[u] /\ currentPool'[u] = currentPool[u]
                                    /\ tempPool'[u] = tempPool[u]
        /\ pc[t] \notin {"reap", "retain"} /\ pc'[t] # "reap"
    BY <1>3 DEF Call, Test, Prepare, InitPoolFails, Reread, Finish, statics, Goto, Hold, TypeOK
  <2>2. pc'[t] = "publish" => tempPool'[t] = NULL
    BY <1>3 DEF Call, Test, Prepare, InitPoolFails, Reread, Finish, statics, Goto, Hold, TypeOK, Phase
  <2>. QED BY <1>1, <2>1, <2>2
<1>4. ASSUME NEW t \in Threads, SwapOut(t)
      PROVE  Kept'
  <2>1. isMultiThreaded /\ currentPool[t] \in Pools
    BY <1>4 DEF SwapOut, Phase, TypeOK
  <2>2. CASE Default = currentPool[t]
    <3>1. /\ pc' = [pc EXCEPT ![t] = "reap"] /\ currentPool' = [currentPool EXCEPT ![t] = @]
          /\ UNCHANGED <<objects, isMultiThreaded, tempPool>> /\ Default' = NULL
      BY <1>4, <2>1, <2>2 DEF SwapOut, CompareAndSwap, Goto, Hold, TypeOK
    <3>2. \A q : Pending(q)' = Pending(q)
      BY <3>1 DEF objects, Pending
    <3>3. \A q : Reaping(q)' = Reaping(q) + (IF q = currentPool[t] THEN 1 ELSE 0)
      <4>. TAKE q
      <4>1. ~Reaps(t, q) /\ (Reaps(t, q)' <=> q = currentPool[t])
        BY <1>4, <3>1 DEF SwapOut, Reaps, TypeOK
      <4>2. \A u \in Threads \ {t} : pc'[u] = pc[u] /\ currentPool'[u] = currentPool[u]
        BY <3>1 DEF TypeOK
      <4>. QED BY <4>1, <4>2, ReapingChanges, ReapingCounts
    <3>4. threadCount[Default] = 0 => DefaultKept
      BY <2>1, <2>2 DEF Kept
    <3>5. \A u \in Threads : pc'[u] = "publish" => pc[u] = "publish"
      BY <3>1 DEF TypeOK
    <3>. QED BY <1>0, <2>1, <2>2, <3>1, <3>2, <3>3, <3>4, <3>5
             DEF Kept, DefaultKept, objects, TypeOK
  <2>3. CASE Default # currentPool[t]
    <3>1. /\ UNCHANGED <<objects, isMultiThreaded, defaultThreadPoolSingleton, tempPool>>
          /\ pc' = [pc EXCEPT ![t] = "prepare"] /\ currentPool' = [currentPool EXCEPT ![t] = NULL]
          /\ pc[t] = "swap"
      BY <1>4, <2>3 DEF SwapOut, CompareAndSwap, Goto, Hold
    <3>. QED BY <1>1, <3>1 DEF TypeOK
  <2>. QED BY <2>2, <2>3
<1>5. ASSUME NEW t \in Threads, Reap(t)
      PROVE  Kept'
  <2>1. isMultiThreaded /\ currentPool[t] \in Pools /\ threadCount[currentPool[t]] = 0
    BY <1>5 DEF Reap, Phase, TypeOK
  <2>2. /\ pc' = [pc EXCEPT ![t] = "prepare"] /\ currentPool' = [currentPool EXCEPT ![t] = NULL]
        /\ UNCHANGED <<statics, retainCount, threadCount, tempPool>>
        /\ Autorelease(t, currentPool[t], 1)
    BY <1>5 DEF Reap, Goto, Hold
  <2>3. \A q \in Pools : Pending(q)' = Pending(q) + (IF q = currentPool[t] THEN 1 ELSE 0)
    BY <2>1, <2>2, PendingAdds
  <2>4. \A q \in Pools : Reaping(q)' = Reaping(q) - (IF q = currentPool[t] THEN 1 ELSE 0)
    <3>. TAKE q \in Pools
    <3>1. ~Reaps(t, q)' /\ (Reaps(t, q) <=> q = currentPool[t])
      BY <1>5, <2>2 DEF Reap, Reaps, TypeOK
    <3>2. \A u \in Threads \ {t} : pc'[u] = pc[u] /\ currentPool'[u] = currentPool[u]
      BY <2>2 DEF TypeOK
    <3>. QED BY <3>1, <3>2, ReapingChanges, ReapingCounts
  <2>5. Default # NULL /\ threadCount[Default] = 0 => Default # currentPool[t]
    BY <1>5, ReapingCounts DEF Kept, DefaultKept, Reap, Reaps
  <2>6. \A u \in Threads : pc'[u] = "publish" => pc[u] = "publish"
    BY <2>2 DEF TypeOK
  <2>7. \A q \in Pools :
          retainCount'[q] >= Pending(q)' + (IF threadCount'[q] # 0 THEN threadCount'[q] ELSE Reaping(q)')
    <3>. TAKE q \in Pools
    <3>1. retainCount[q] >= Pending(q) + (IF threadCount[q] # 0 THEN threadCount[q] ELSE Reaping(q))
      BY DEF Kept
    <3>. QED BY <1>0, <2>1, <2>2, <2>3, <2>4, <3>1 DEF TypeOK
  <2>8. Default # NULL /\ threadCount[Default] = 0 => DefaultKept'
    <3>. SUFFICES ASSUME Default # NULL, threadCount[Default] = 0
                  PROVE  DefaultKept'
      OBVIOUS
    <3>1. Default \in Pools /\ DefaultKept /\ Default' = Default
      BY <2>2 DEF Kept, TypeOK, statics
    <3>2. Reaping(Default)' = Reaping(Default) /\ Pending(Default)' = Pending(Default)
      BY <1>0, <2>3, <2>4, <2>5, <3>1
    <3>3. pc[Main] = "retain" => pc'[Main] = "retain"
      BY <1>5, <2>2 DEF Reap, TypeOK
    <3>4. autoreleased'[Main][Default] >= autoreleased[Main][Default]
      BY <1>0, <2>1, <2>2, <3>1, PendingAdds
    <3>5. isMultiThreaded' = isMultiThreaded /\ retainCount' = retainCount
      BY <2>2 DEF statics
    <3>. QED BY <1>0, <2>1, <3>1, <3>2, <3>3, <3>4, <3>5 DEF DefaultKept
  <2>. QED BY <2>1, <2>2, <2>6, <2>7, <2>8 DEF Kept, statics
<1>6. ASSUME NEW t \in Threads, InitPool(t)
      PROVE  Kept'
  <2>1. PICK p \in Pools :
          /\ retainCount[p] = 0
          /\ tempPool' = [tempPool EXCEPT ![t] = p]
          /\ threadCount' = [threadCount EXCEPT ![p] =
                               IF isMultiThreaded /\ Processors # 1 THEN Processors ELSE 0]
          /\ retainCount' = [retainCount EXCEPT ![p] = 2 + threadCount'[p]]
          /\ Autorelease(t, p, 2)
    BY <1>6, PoolMade
  <2>2. /\ pc[t] = "init" /\ pc' = [pc EXCEPT ![t] = "publish"]
        /\ UNCHANGED <<isMultiThreaded, defaultThreadPoolSingleton, currentPool>>
    BY <1>6 DEF InitPool, Goto
  <2>3. /\ \A q \in Pools : Pending(q)' = Pending(q) + (IF q = p THEN 2 ELSE 0)
        /\ \A u \in Threads, q \in Pools :
             autoreleased'[u][q] = autoreleased[u][q] + (IF u = t /\ q = p THEN 2 ELSE 0)
    BY <2>1, PendingAdds
  <2>4. \A q : Reaping(q)' = Reaping(q)
    <3>. TAKE q
    <3>1. ~Reaps(t, q) /\ ~Reaps(t, q)'
      BY <2>2 DEF Reaps, TypeOK
    <3>2. \A u \in Threads \ {t} : pc'[u] = pc[u] /\ currentPool'[u] = currentPool[u]
      BY <2>2 DEF TypeOK
    <3>. QED BY <3>1, <3>2, ReapingChanges, ReapingCounts
  <2>5. Pending(p) = 0 /\ p # Default
    <3>1. retainCount[p] >= Pending(p) + (IF threadCount[p] # 0 THEN threadCount[p] ELSE Reaping(p))
      BY DEF Kept
    <3>2. Pending(p) = 0 /\ threadCount[p] = 0
      <4>1. threadCount[p] \in Nat /\ Pending(p) \in Nat /\ Reaping(p) \in Nat
        BY <1>0 DEF TypeOK
      <4>. QED BY <2>1, <3>1, <4>1
    <3>3. ASSUME p = Default
          PROVE  FALSE
      <4>1. DefaultKept
        BY <3>2, <3>3 DEF Kept
      <4>2. Pending(p) = 0 /\ autoreleased[Main][p] <= 0 /\ autoreleased[Main][p] \in Nat
        BY <1>0, <3>2
      <4>. QED BY <2>1, <3>3, <4>1, <4>2 DEF DefaultKept
    <3>. QED BY <3>2, <3>3
  <2>6. ~isMultiThreaded => Reaping(p) = 0 /\ t = Main
    BY <2>2, ReapingCounts DEF Phase, Reaps
  <2>7. \A q \in Pools :
          retainCount'[q] >= Pending(q)' + (IF threadCount'[q] # 0 THEN threadCount'[q] ELSE Reaping(q)')
    <3>. TAKE q \in Pools
    <3>1. CASE q = p
      BY <1>0, <2>1, <2>3, <2>4, <2>5, <2>6, <3>1 DEF TypeOK
    <3>2. CASE q # p
      BY <1>0, <2>1, <2>3, <2>4, <3>2 DEF Kept, TypeOK
    <3>. QED BY <3>1, <3>2
  <2>8. Default # NULL /\ threadCount'[Default] = 0 => DefaultKept'
    <3>1. Default # NULL /\ threadCount'[Default] = 0 => threadCount[Default] = 0
      BY <2>1, <2>5 DEF TypeOK
    <3>2. Default # NULL => /\ retainCount'[Default] = retainCount[Default]
                            /\ Pending(Default)' = Pending(Default)
      <4>1. Default' = Default
        BY <2>2
      <4>. QED BY <1>0, <2>1, <2>3, <2>5, <4>1 DEF TypeOK
    <3>3. pc[Main] = "retain" => pc'[Main] = "retain" /\ t # Main
      BY <2>2 DEF TypeOK
    <3>4. Default # NULL /\ t # Main => autoreleased'[Main][Default] = autoreleased[Main][Default]
      BY <2>3, <1>0 DEF TypeOK
    <3>. QED BY <2>2, <2>4, <3>1, <3>2, <3>3, <3>4 DEF Kept, DefaultKept
  <2>9. isMultiThreaded => \A u \in Threads :
          pc'[u] = "publish" => tempPool'[u] = NULL \/ threadCount'[tempPool'[u]] # 0
    <3>1. isMultiThreaded => threadCount'[p] # 0
      BY <2>1 DEF TypeOK
    <3>. QED BY <2>1, <2>2, <3>1 DEF Kept, TypeOK
  <2>10. ~isMultiThreaded => tempPool'[Main] = p /\ autoreleased'[Main][p] > 0
    BY <1>0, <2>1, <2>3, <2>6 DEF TypeOK
  <2>. QED BY <2>2, <2>7, <2>8, <2>9, <2>10 DEF Kept
<1>7. ASSUME NEW t \in Threads, Publish(t)
      PROVE  Kept'
  <2>1. CASE Default # NULL
    <3>1. /\ UNCHANGED <<objects, isMultiThreaded, defaultThreadPoolSingleton, currentPool, tempPool>>
          /\ pc[t] = "publish" /\ pc' = [pc EXCEPT ![t] = "reread"]
      BY <1>7, <2>1 DEF Publish, CompareAndSwap, Goto
    <3>. QED BY <1>1, <3>1 DEF TypeOK
  <2>2. CASE Default = NULL
    <3>1. /\ UNCHANGED <<objects, isMultiThreaded, currentPool, tempPool>>
          /\ pc[t] = "publish" /\ pc' = [pc EXCEPT ![t] = "retain"] /\ Default' = tempPool[t]
      BY <1>7, <2>2 DEF Publish, CompareAndSwap, Goto
    <3>2. \A q : Pending(q)' = Pending(q) /\ Reaping(q)' = Reaping(q)
      <4>1. \A u \in Threads \ {t} : pc'[u] = pc[u] /\ currentPool'[u] = currentPool[u]
        BY <3>1 DEF TypeOK
      <4>2. pc'[t] # "reap" /\ pc[t] # "reap"
        BY <3>1 DEF TypeOK
      <4>. QED BY <3>1, <4>1, <4>2, CountsStay DEF objects
    <3>3. tempPool[t] # NULL /\ threadCount[tempPool[t]] = 0 =>
            /\ ~isMultiThreaded /\ t = Main /\ autoreleased[Main][tempPool[t]] > 0
            /\ Reaping(tempPool[t]) = 0
      BY <3>1, ReapingCounts DEF Kept, Phase, Reaps
    <3>4. \A u \in Threads : pc'[u] = "publish" => pc[u] = "publish"
      BY <3>1 DEF TypeOK
    <3>. QED BY <3>1, <3>2, <3>3, <3>4 DEF Kept, DefaultKept, objects, TypeOK
  <2>. QED BY <2>1, <2>2
<1>8. ASSUME NEW t \in Threads, Retain(t)
      PROVE  Kept'
  <2>1. /\ UNCHANGED <<statics, threadCount, autoreleased, currentPool, tempPool>>
        /\ pc[t] = "retain" /\ pc' = [pc EXCEPT ![t] = "reread"]
    BY <1>8 DEF Retain, Goto
  <2>2. \A q : Pending(q)' = Pending(q) /\ Reaping(q)' = Reaping(q)
    <3>1. \A u \in Threads \ {t} : pc'[u] = pc[u] /\ currentPool'[u] = currentPool[u]
      BY <2>1 DEF TypeOK
    <3>2. pc'[t] # "reap" /\ pc[t] # "reap"
      BY <2>1 DEF TypeOK
    <3>. QED BY <2>1, <3>1, <3>2, CountsStay
  <2>3. \A q \in Pools : retainCount'[q] = retainCount[q] + (IF q = Default THEN 1 ELSE 0)
    BY <1>8 DEF Retain, TypeOK
  <2>4. \A u \in Threads : pc'[u] = "publish" => pc[u] = "publish"
    BY <2>1 DEF TypeOK
  <2>5. \A q \in Pools :
          retainCount'[q] >= Pending(q)' + (IF threadCount'[q] # 0 THEN threadCount'[q] ELSE Reaping(q)')
    <3>. TAKE q \in Pools
    <3>1. retainCount[q] >= Pending(q) + (IF threadCount[q] # 0 THEN threadCount[q] ELSE Reaping(q))
      BY DEF Kept
    <3>. QED BY <1>0, <2>1, <2>2, <2>3, <3>1 DEF TypeOK
  <2>6. Default # NULL /\ threadCount[Default] = 0 => DefaultKept'
    <3>. SUFFICES ASSUME Default # NULL, threadCount[Default] = 0
                  PROVE  DefaultKept'
      OBVIOUS
    <3>1. Default \in Pools /\ retainCount[Default] >= Pending(Default) /\ Reaping(Default) = 0
      BY <1>0 DEF Kept, DefaultKept, TypeOK
    <3>2. retainCount'[Default] > Pending(Default)
      BY <1>0, <2>3, <3>1 DEF TypeOK
    <3>. QED BY <2>1, <2>2, <3>1, <3>2 DEF DefaultKept, statics
  <2>. QED BY <2>1, <2>4, <2>5, <2>6 DEF Kept, statics
<1>9. ASSUME NEW t \in Threads, Drain(t)
      PROVE  Kept'
  <2>1. /\ UNCHANGED <<statics, threadCount, locals>> /\ pc[t] = "idle"
        /\ retainCount' = [q \in Pools |-> retainCount[q] - autoreleased[t][q]]
        /\ autoreleased' = [autoreleased EXCEPT ![t] = [q \in Pools |-> 0]]
    BY <1>9 DEF Drain
  <2>2. \A q \in Pools : Pending(q)' = Pending(q) - autoreleased[t][q]
    <3>. TAKE q \in Pools
    <3>1. /\ autoreleased' \in [Threads -> [Pools -> Nat]] /\ autoreleased'[t][q] = 0
          /\ \A u \in Threads \ {t} : autoreleased'[u] = autoreleased[u]
      BY <2>1 DEF TypeOK
    <3>. QED BY <1>0, <3>1, PendingChanges
  <2>3. \A q : Reaping(q)' = Reaping(q)
    BY <2>1 DEF Reaping, locals
  <2>4. pc[Main] # "idle" => autoreleased'[Main] = autoreleased[Main]
    BY <2>1 DEF TypeOK
  <2>5. \A q \in Pools :
          retainCount'[q] >= Pending(q)' + (IF threadCount'[q] # 0 THEN threadCount'[q] ELSE Reaping(q)')
    <3>. TAKE q \in Pools
    <3>1. retainCount[q] >= Pending(q) + (IF threadCount[q] # 0 THEN threadCount[q] ELSE Reaping(q))
      BY DEF Kept
    <3>. QED BY <1>0, <2>1, <2>2, <2>3, <3>1 DEF TypeOK
  <2>6. Default # NULL /\ threadCount[Default] = 0 => DefaultKept'
    <3>. SUFFICES ASSUME Default # NULL, threadCount[Default] = 0
                  PROVE  DefaultKept'
      OBVIOUS
    <3>1. Default \in Pools /\ DefaultKept
      BY DEF Kept, TypeOK
    <3>2. Default' = Default /\ isMultiThreaded' = isMultiThreaded /\ pc' = pc
      BY <2>1 DEF statics, locals
    <3>3. retainCount[Default] > Pending(Default) => retainCount'[Default] > Pending(Default)'
      BY <1>0, <2>1, <2>2, <3>1, <3>2 DEF TypeOK
    <3>4. Reaping(Default)' = Reaping(Default) /\ Pending(Default)' \in Nat
      BY <1>0, <2>2, <2>3, <3>1, <3>2
    <3>. QED BY <2>3, <2>4, <3>1, <3>2, <3>3, <3>4 DEF DefaultKept
  <2>. QED BY <2>1, <2>4, <2>5, <2>6 DEF Kept, statics, locals
<1>10. CASE UNCHANGED vars
  BY <1>10 DEF vars, statics, objects, locals, Kept, DefaultKept, Pending, Reaping
<1>. QED
  BY <1>2, <1>3, <1>4, <1>5, <1>6, <1>7, <1>8, <1>9, <1>10 DEF Next, DefaultThreadPool
\* A pool that someone owns is there.
LEMMA OwnedIsThere ==
  ASSUME TypeOK, Exact, NEW p \in Pools,
         p = Default \/ \E t \in Threads : Reaps(t, p) \/ autoreleased[t][p] > 0
  PROVE  retainCount[p] # 0
<1>1. /\ Pending(p) \in Nat
      /\ \A t \in Threads : autoreleased[t][p] \in Nat /\ autoreleased[t][p] <= Pending(p)
  BY PendingCounts
<1>. SUFFICES ASSUME retainCount[p] = 0
              PROVE  FALSE
  OBVIOUS
<1>2. Pending(p) = 0 /\ Reaping(p) = 0 /\ p # Default
  BY DEF Exact
<1>3. \A t \in Threads : ~Reaps(t, p)
  BY <1>2, ReapingCounts
<1>. QED BY <1>1, <1>2, <1>3

\* If every pool could be made, the old pool is replaced once.
LEMMA NextReplacing ==
  ASSUME TypeOK, Phase, Exact, isMultiThreaded,
         NEW old \in Pools \cup {NULL}, Replacing(old), [Next]_vars, ~allocationFailed'
  PROVE  Replacing(old)'
<1>. USE ThreadsAssumption, NullAssumption DEF Default
<1>1. ~DetachThreads
  BY DEF DetachThreads
<1>2. ASSUME NEW t \in Threads, Call(t)
      PROVE  Replacing(old)'
  BY <1>2 DEF Call, Replacing, HasTakenAway, TypeOK, statics, objects, Goto, Hold
<1>3. ASSUME NEW t \in Threads, Test(t)
      PROVE  Replacing(old)'
  <2>1. cocoaIsMultiThreaded[t]
    BY <1>3 DEF Test, Phase
  <2>2. pc'[t] = "swap" => currentPool[t] = old
    BY <1>3 DEF Test, Replacing, MustReplace, TypeOK, Goto
  <2>3. pc'[t] = IF MustReplace(t) THEN "swap"
                 ELSE IF currentPool[t] = NULL THEN "prepare" ELSE "using"
    BY <1>3 DEF Test, TypeOK, Goto
  <2>4. threadPoolIsMultiThreaded = 0 => pc'[t] # "using"
    BY <2>1, <2>3 DEF MustReplace
  <2>. QED BY <1>3, <2>1, <2>2, <2>3, <2>4
           DEF Test, MustReplace, Replacing, HasTakenAway, TypeOK, statics, objects, Goto
<1>4. ASSUME NEW t \in Threads, SwapOut(t)
      PROVE  Replacing(old)'
  <2>1. currentPool[t] = old /\ old # NULL /\ old \in Pools
    BY <1>4 DEF SwapOut, Replacing, Phase
  <2>2. CASE Default = old
    <3>1. /\ pc' = [pc EXCEPT ![t] = "reap"] /\ currentPool' = [currentPool EXCEPT ![t] = old]
          /\ UNCHANGED <<objects, threadPoolIsMultiThreaded, tempPool>> /\ Default' = NULL
      BY <1>4, <2>1, <2>2 DEF SwapOut, CompareAndSwap, Goto, Hold, TypeOK
    <3>2. HasTakenAway(t, old)'
      BY <3>1 DEF HasTakenAway, TypeOK
    <3>. QED BY <2>1, <2>2, <3>1, <3>2 DEF Replacing, TypeOK, objects
  <2>3. CASE Default # old
    <3>1. /\ pc' = [pc EXCEPT ![t] = "prepare"] /\ currentPool' = [currentPool EXCEPT ![t] = NULL]
          /\ UNCHANGED <<objects, threadPoolIsMultiThreaded, tempPool, defaultThreadPoolSingleton>>
          /\ pc[t] = "swap"
      BY <1>4, <2>1, <2>3 DEF SwapOut, CompareAndSwap, Goto, Hold
    <3>2. \A u \in Threads : HasTakenAway(u, old) => HasTakenAway(u, old)'
      BY <3>1 DEF HasTakenAway, TypeOK, objects
    <3>. QED BY <2>1, <2>3, <3>1, <3>2 DEF Replacing, TypeOK, objects
  <2>. QED BY <2>2, <2>3
<1>5. ASSUME NEW t \in Threads, Reap(t)
      PROVE  Replacing(old)'
  <2>1. currentPool[t] = old /\ old # NULL /\ old \in Pools
    BY <1>5 DEF Reap, Replacing, Phase
  <2>2. /\ pc' = [pc EXCEPT ![t] = "prepare"] /\ currentPool' = [currentPool EXCEPT ![t] = NULL]
        /\ UNCHANGED <<statics, retainCount, threadCount, tempPool>>
        /\ Autorelease(t, old, 1) /\ pc[t] = "reap"
    BY <1>5, <2>1 DEF Reap, Goto, Hold
  <2>3. autoreleased'[t][old] > 0
    BY <2>1, <2>2, PendingAdds, PendingCounts
  <2>4. HasTakenAway(t, old)'
    BY <2>2, <2>3 DEF HasTakenAway, TypeOK
  <2>. QED BY <2>1, <2>2, <2>4 DEF Replacing, TypeOK, statics
<1>6. ASSUME NEW t \in Threads, Prepare(t)
      PROVE  Replacing(old)'
  <2>1. threadPoolIsMultiThreaded' = 1
    BY <1>6 DEF Prepare, Phase, Flag
  <2>2. /\ pc[t] = "prepare" /\ pc' = [pc EXCEPT ![t] = "init"]
        /\ UNCHANGED <<defaultThreadPoolSingleton, objects, currentPool, tempPool>>
    BY <1>6 DEF Prepare, Goto
  <2>3. \A u \in Threads : HasTakenAway(u, old) => HasTakenAway(u, old)'
    BY <2>2 DEF HasTakenAway, TypeOK, objects
  <2>. QED BY <2>1, <2>2, <2>3 DEF Replacing, TypeOK, objects
<1>7. ASSUME NEW t \in Threads, InitPool(t)
      PROVE  Replacing(old)'
  <2>1. PICK p \in Pools :
          /\ retainCount[p] = 0
          /\ tempPool' = [tempPool EXCEPT ![t] = p]
          /\ threadCount' = [threadCount EXCEPT ![p] =
                               IF isMultiThreaded /\ Processors # 1 THEN Processors ELSE 0]
          /\ retainCount' = [retainCount EXCEPT ![p] = 2 + threadCount'[p]]
          /\ Autorelease(t, p, 2)
    BY <1>7, PoolMade
  <2>2. /\ pc[t] = "init" /\ pc' = [pc EXCEPT ![t] = "publish"]
        /\ UNCHANGED <<defaultThreadPoolSingleton, currentPool>>
        /\ threadPoolIsMultiThreaded' = 1
    BY <1>7 DEF InitPool, Goto, Flag
  <2>3. \A u \in Threads, q \in Pools : autoreleased'[u][q] >= autoreleased[u][q]
    BY <2>1, PendingAdds, PendingCounts
  <2>4. old \in Pools => \A u \in Threads : HasTakenAway(u, old) => HasTakenAway(u, old)'
    <3>. SUFFICES ASSUME old \in Pools, NEW u \in Threads, HasTakenAway(u, old)
                  PROVE  HasTakenAway(u, old)'
      OBVIOUS
    <3>1. autoreleased[u][old] \in Nat /\ autoreleased'[u][old] >= autoreleased[u][old]
      BY <2>3, PendingCounts
    <3>2. autoreleased'[u][old] \in Int
      BY <2>1, PendingAdds
    <3>3. autoreleased[u][old] > 0 => autoreleased'[u][old] > 0
      BY <3>1, <3>2
    <3>. QED BY <2>2, <3>3 DEF HasTakenAway, TypeOK
  <2>5. old \in Pools /\ (\E u \in Threads : HasTakenAway(u, old)) => p # old
    BY <2>1, OwnedIsThere DEF HasTakenAway, Reaps
  <2>6. \A u \in Threads : pc'[u] = "reap" => threadCount'[old] = 0
    <3>. SUFFICES ASSUME NEW u \in Threads, pc'[u] = "reap"
                  PROVE  threadCount'[old] = 0
      OBVIOUS
    <3>1. pc[u] = "reap"
      BY <2>2 DEF TypeOK
    <3>2. currentPool[u] = old /\ old \in Pools
      BY <3>1 DEF Replacing, Phase
    <3>3. p # old
      BY <2>5, <3>1, <3>2 DEF HasTakenAway
    <3>. QED BY <2>1, <3>1, <3>2, <3>3 DEF Replacing, TypeOK
  <2>7. Default # old \/ old = NULL
    BY <2>2 DEF Replacing
  <2>8. Default = NULL => p # old
    BY <2>5 DEF Replacing
  <2>. QED BY <2>1, <2>2, <2>4, <2>6, <2>7, <2>8 DEF Replacing, TypeOK
<1>8. ~(\E t \in Threads : InitPoolFails(t))
  BY DEF InitPoolFails
<1>9. ASSUME NEW t \in Threads, Publish(t)
      PROVE  Replacing(old)'
  <2>1. /\ UNCHANGED <<objects, threadPoolIsMultiThreaded, currentPool, tempPool>>
        /\ pc[t] = "publish" /\ allocationFailed' = allocationFailed
    BY <1>9 DEF Publish
  <2>2. tempPool[t] # NULL /\ (Default = NULL => tempPool[t] # old)
    BY <2>1 DEF Exact, Replacing
  <2>3. threadPoolIsMultiThreaded # 0 /\ (Default # old \/ old = NULL)
    BY <2>1 DEF Replacing
  <2>4. CASE Default = NULL
    <3>1. pc' = [pc EXCEPT ![t] = "retain"] /\ Default' = tempPool[t]
      BY <1>9, <2>4 DEF Publish, CompareAndSwap, Goto
    <3>. QED BY <2>1, <2>2, <2>3, <2>4, <3>1 DEF Replacing, TypeOK, objects
  <2>5. CASE Default # NULL
    <3>1. pc' = [pc EXCEPT ![t] = "reread"] /\ Default' = Default
      BY <1>9, <2>5 DEF Publish, CompareAndSwap, Goto
    <3>. QED BY <2>1, <2>3, <2>5, <3>1 DEF Replacing, TypeOK, objects
  <2>. QED BY <2>4, <2>5
<1>10. ASSUME NEW t \in Threads, Retain(t)
       PROVE  Replacing(old)'
  <2>1. /\ UNCHANGED <<statics, threadCount, autoreleased, currentPool, tempPool>>
        /\ pc[t] = "retain" /\ pc' = [pc EXCEPT ![t] = "reread"]
    BY <1>10 DEF Retain, Goto
  <2>. QED BY <2>1 DEF Replacing, TypeOK, statics
<1>11. ASSUME NEW t \in Threads, Reread(t)
       PROVE  Replacing(old)'
  <2>1. Default # NULL /\ Default' = Default
    BY <1>11 DEF Reread, Exact, statics
  <2>. QED BY <1>11, <2>1 DEF Reread, Replacing, TypeOK, statics, objects, Goto, Hold
<1>12. ASSUME NEW t \in Threads, Finish(t)
       PROVE  Replacing(old)'
  <2>1. \A u \in Threads : HasTakenAway(u, old) => HasTakenAway(u, old)'
    BY <1>12 DEF Finish, HasTakenAway, TypeOK, objects, Goto, Hold
  <2>. QED BY <1>12, <2>1 DEF Finish, Replacing, TypeOK, statics, objects, Goto, Hold
<1>13. ASSUME NEW t \in Threads, Drain(t)
       PROVE  Replacing(old)'
  <2>1. \A u \in Threads : HasTakenAway(u, old) => HasTakenAway(u, old)'
    BY <1>13 DEF Drain, HasTakenAway, TypeOK, locals
  <2>. QED BY <1>13, <2>1 DEF Drain, Replacing, TypeOK, statics, locals
<1>14. CASE UNCHANGED vars
  BY <1>14 DEF vars, statics, objects, locals, Replacing, HasTakenAway
<1>. QED
  BY <1>1, <1>2, <1>3, <1>4, <1>5, <1>6, <1>7, <1>8, <1>9, <1>10, <1>11, <1>12, <1>13, <1>14
     DEF Next, DefaultThreadPool
\* If every pool could be made, every reference has an owner.
LEMMA NextExact ==
  ASSUME TypeOK, Phase, Exact, NEW old \in Pools \cup {NULL},
         isMultiThreaded => Replacing(old), [Next]_vars, ~allocationFailed'
  PROVE  Exact'
<1>. USE ThreadsAssumption, NullAssumption DEF Default
<1>. DEFINE Owed(q) == IF q = Default /\ ~WillRetain THEN 1 ELSE 0
            Counted(q) == IF retainCount[q] = 0
                          THEN Pending(q) = 0 /\ Reaping(q) = 0 /\ q # Default
                          ELSE retainCount[q] = Pending(q) + threadCount[q] + Reaping(q) + Owed(q)
            Locals == /\ \A t \in Threads : pc[t] = "publish" =>
                           tempPool[t] # NULL /\ autoreleased[t][tempPool[t]] > 0
                      /\ \A t \in Threads : pc[t] = "retain" =>
                           Default # NULL /\ autoreleased[t][Default] > 0
                      /\ \A t, u \in Threads : pc[t] = "retain" /\ pc[u] = "retain" => t = u
                      /\ \A t \in Threads : pc[t] = "reread" => Default # NULL
                      /\ \A t \in Threads : pc[t] = "using" => currentPool[t] # NULL
<1>0. /\ \A q \in Pools : Pending(q) \in Nat /\ Reaping(q) \in Nat /\ threadCount[q] \in Nat
      /\ \A q \in Pools, t \in Threads :
           autoreleased[t][q] \in Nat /\ autoreleased[t][q] <= Pending(q)
  BY PendingCounts, ReapingCounts, ProcessorsAssumption DEF TypeOK
<1>a. (\A q \in Pools : Counted(q)) /\ Locals
  BY DEF Exact, Accounted
<1>b. (\A q \in Pools : Counted(q)') /\ Locals' => Exact'
  BY DEF Exact, Accounted
<1>. HIDE DEF Counted, Locals, Owed
\* The steps that change no pool, no count, and not who is about to retain.
<1>1. ASSUME NEW t \in Threads, UNCHANGED <<objects, defaultThreadPoolSingleton>>,
             \A u \in Threads \ {t} : pc'[u] = pc[u] /\ currentPool'[u] = currentPool[u]
                                      /\ tempPool'[u] = tempPool[u],
             pc[t] \notin {"reap", "retain"}, pc'[t] \notin {"reap", "retain", "publish"},
             pc'[t] = "reread" => Default # NULL,
             pc'[t] = "using" => currentPool'[t] # NULL
      PROVE  Exact'
  <2>1. \A q : Pending(q)' = Pending(q) /\ Reaping(q)' = Reaping(q)
    BY <1>1, CountsStay DEF objects
  <2>2. WillRetain' <=> WillRetain
    BY <1>1 DEF WillRetain
  <2>3. \A q \in Pools : Counted(q)'
    BY <1>a, <1>1, <2>1, <2>2 DEF Counted, Owed, objects
  <2>4. Locals'
    BY <1>a, <1>1 DEF Locals, objects
  <2>. QED BY <1>b, <2>3, <2>4
<1>2. CASE DetachThreads
  BY <1>2 DEF DetachThreads, objects, locals, Exact, Accounted, Pending, Reaping, WillRetain
<1>3. ASSUME NEW t \in Threads,
             Call(t) \/ Test(t) \/ Prepare(t) \/ Reread(t) \/ Finish(t)
      PROVE  Exact'
  <2>1. /\ UNCHANGED <<objects, defaultThreadPoolSingleton>>
        /\ \A u \in Threads \ {t} : pc'[u] = pc[u] /\ currentPool'[u] = currentPool[u]
                                    /\ tempPool'[u] = tempPool[u]
        /\ pc[t] \notin {"reap", "retain"} /\ pc'[t] \notin {"reap", "retain", "publish", "reread"}
    BY <1>3 DEF Call, Test, Prepare, Reread, Finish, statics, Goto, Hold, TypeOK
  <2>2. pc'[t] = "using" => currentPool'[t] # NULL
    BY <1>3 DEF Call, Test, Prepare, Reread, Finish, MustReplace, Goto, Hold, TypeOK, Exact
  <2>. QED BY <1>1, <2>1, <2>2
<1>4. ASSUME NEW t \in Threads, SwapOut(t)
      PROVE  Exact'
  <2>1. currentPool[t] = old /\ old \in Pools /\ pc[t] = "swap" /\ Replacing(old)
    BY <1>4 DEF SwapOut, Replacing, Phase
  <2>2. CASE Default = old
    <3>1. /\ pc' = [pc EXCEPT ![t] = "reap"] /\ currentPool' = [currentPool EXCEPT ![t] = old]
          /\ UNCHANGED <<objects, tempPool>> /\ Default' = NULL
      BY <1>4, <2>1, <2>2 DEF SwapOut, CompareAndSwap, Goto, Hold, TypeOK
    <3>2. \A u \in Threads : pc[u] \in {"idle", "test", "swap"}
      BY <2>1, <2>2 DEF Replacing
    <3>3. \A u \in Threads : pc'[u] \in {"idle", "test", "swap", "reap"}
      BY <3>1, <3>2 DEF TypeOK
    <3>4. \A q : Pending(q)' = Pending(q)
      BY <3>1 DEF objects, Pending
    <3>5. \A q : Reaping(q)' = Reaping(q) + (IF q = old THEN 1 ELSE 0)
      <4>. TAKE q
      <4>1. ~Reaps(t, q) /\ (Reaps(t, q)' <=> q = old)
        BY <2>1, <3>1 DEF Reaps, TypeOK
      <4>2. \A u \in Threads \ {t} : pc'[u] = pc[u] /\ currentPool'[u] = currentPool[u]
        BY <3>1 DEF TypeOK
      <4>. QED BY <4>1, <4>2, ReapingChanges, ReapingCounts
    <3>6. ~WillRetain /\ ~WillRetain'
      BY <3>2, <3>3 DEF WillRetain
    <3>7. \A q \in Pools : Counted(q)'
      BY <1>0, <1>a, <2>2, <3>1, <3>4, <3>5, <3>6 DEF Counted, Owed, objects
    <3>8. Locals'
      BY <3>3 DEF Locals
    <3>. QED BY <1>b, <3>7, <3>8
  <2>3. CASE Default # old
    <3>1. /\ pc' = [pc EXCEPT ![t] = "prepare"] /\ currentPool' = [currentPool EXCEPT ![t] = NULL]
          /\ UNCHANGED <<objects, tempPool, defaultThreadPoolSingleton>>
      BY <1>4, <2>1, <2>3 DEF SwapOut, CompareAndSwap, Goto, Hold
    <3>. QED BY <1>1, <2>1, <3>1 DEF TypeOK
  <2>. QED BY <2>2, <2>3
<1>5. ASSUME NEW t \in Threads, Reap(t)
      PROVE  Exact'
  <2>1. currentPool[t] = old /\ old \in Pools /\ pc[t] = "reap"
    BY <1>5 DEF Reap, Replacing, Phase
  <2>2. /\ pc' = [pc EXCEPT ![t] = "prepare"] /\ currentPool' = [currentPool EXCEPT ![t] = NULL]
        /\ UNCHANGED <<statics, retainCount, threadCount, tempPool>>
        /\ Autorelease(t, old, 1)
    BY <1>5, <2>1 DEF Reap, Goto, Hold
  <2>3. /\ \A q \in Pools : Pending(q)' = Pending(q) + (IF q = old THEN 1 ELSE 0)
        /\ \A u \in Threads, q \in Pools :
             autoreleased'[u][q] = autoreleased[u][q] + (IF u = t /\ q = old THEN 1 ELSE 0)
    BY <2>1, <2>2, PendingAdds
  <2>4. \A q : Reaping(q)' = Reaping(q) - (IF q = old THEN 1 ELSE 0)
    <3>. TAKE q
    <3>1. ~Reaps(t, q)' /\ (Reaps(t, q) <=> q = old)
      BY <2>1, <2>2 DEF Reaps, TypeOK
    <3>2. \A u \in Threads \ {t} : pc'[u] = pc[u] /\ currentPool'[u] = currentPool[u]
      BY <2>2 DEF TypeOK
    <3>. QED BY <3>1, <3>2, ReapingChanges, ReapingCounts
  <2>5. retainCount[old] # 0
    BY <2>1, OwnedIsThere DEF Reaps
  <2>6. WillRetain' <=> WillRetain
    BY <2>1, <2>2 DEF WillRetain, TypeOK
  <2>7. \A q \in Pools : Counted(q)'
    BY <1>0, <1>a, <2>2, <2>3, <2>4, <2>5, <2>6 DEF Counted, Owed, statics
  <2>8. \A u \in Threads, q \in Pools : autoreleased[u][q] > 0 => autoreleased'[u][q] > 0
    BY <1>0, <2>3
  <2>9. Locals'
    BY <1>a, <2>1, <2>2, <2>8 DEF Locals, TypeOK, statics
  <2>. QED BY <1>b, <2>7, <2>9
<1>6. ASSUME NEW t \in Threads, InitPool(t)
      PROVE  Exact'
  <2>1. PICK p \in Pools :
          /\ retainCount[p] = 0
          /\ tempPool' = [tempPool EXCEPT ![t] = p]
          /\ threadCount' = [threadCount EXCEPT ![p] =
                               IF isMultiThreaded /\ Processors # 1 THEN Processors ELSE 0]
          /\ retainCount' = [retainCount EXCEPT ![p] = 2 + threadCount'[p]]
          /\ Autorelease(t, p, 2)
    BY <1>6, PoolMade
  <2>2. /\ pc[t] = "init" /\ pc' = [pc EXCEPT ![t] = "publish"]
        /\ UNCHANGED <<defaultThreadPoolSingleton, currentPool>>
    BY <1>6 DEF InitPool, Goto
  <2>3. /\ \A q \in Pools : Pending(q)' = Pending(q) + (IF q = p THEN 2 ELSE 0)
        /\ \A u \in Threads, q \in Pools :
             autoreleased'[u][q] = autoreleased[u][q] + (IF u = t /\ q = p THEN 2 ELSE 0)
    BY <2>1, PendingAdds
  <2>4. \A q : Reaping(q)' = Reaping(q)
    <3>. TAKE q
    <3>1. ~Reaps(t, q) /\ ~Reaps(t, q)'
      BY <2>2 DEF Reaps, TypeOK
    <3>2. \A u \in Threads \ {t} : pc'[u] = pc[u] /\ currentPool'[u] = currentPool[u]
      BY <2>2 DEF TypeOK
    <3>. QED BY <3>1, <3>2, ReapingChanges, ReapingCounts
  <2>5. WillRetain' <=> WillRetain
    BY <2>2 DEF WillRetain, TypeOK
  <2>6. ASSUME NEW q \in Pools
        PROVE  Counted(q)'
    <3>1. CASE q = p
      <4>1. Pending(p) = 0 /\ Reaping(p) = 0 /\ p # Default
        BY <1>a, <2>1 DEF Counted
      <4>2. retainCount'[p] = 2 + threadCount'[p] /\ threadCount'[p] \in Nat
        BY <2>1, ProcessorsAssumption DEF TypeOK
      <4>. QED BY <2>2, <2>3, <2>4, <3>1, <4>1, <4>2 DEF Counted, Owed
    <3>2. CASE q # p
      <4>1. retainCount'[q] = retainCount[q] /\ threadCount'[q] = threadCount[q]
        BY <2>1, <3>2 DEF TypeOK
      <4>. QED BY <1>0, <1>a, <2>2, <2>3, <2>4, <2>5, <3>2, <4>1 DEF Counted, Owed
    <3>. QED BY <3>1, <3>2
  <2>7. \A u \in Threads, q \in Pools : autoreleased[u][q] > 0 => autoreleased'[u][q] > 0
    BY <1>0, <2>3
  <2>8. tempPool'[t] = p /\ autoreleased'[t][p] > 0
    BY <1>0, <2>1, <2>3 DEF TypeOK
  <2>9. Locals'
    BY <1>a, <2>1, <2>2, <2>7, <2>8 DEF Locals, TypeOK
  <2>. QED BY <1>b, <2>6, <2>9
<1>7. ~(\E t \in Threads : InitPoolFails(t))
  BY DEF InitPoolFails
<1>8. ASSUME NEW t \in Threads, Publish(t)
      PROVE  Exact'
  <2>1. UNCHANGED <<objects, currentPool, tempPool>> /\ pc[t] = "publish"
    BY <1>8 DEF Publish
  <2>2. CASE Default = NULL
    <3>1. pc' = [pc EXCEPT ![t] = "retain"] /\ Default' = tempPool[t]
      BY <1>8, <2>2 DEF Publish, CompareAndSwap, Goto
    <3>2. tempPool[t] \in Pools /\ autoreleased[t][tempPool[t]] > 0 /\ retainCount[tempPool[t]] # 0
      BY <1>a, <2>1, OwnedIsThere DEF Locals, TypeOK
    <3>3. \A q : Pending(q)' = Pending(q) /\ Reaping(q)' = Reaping(q)
      <4>1. \A u \in Threads \ {t} : pc'[u] = pc[u] /\ currentPool'[u] = currentPool[u]
        BY <2>1, <3>1 DEF TypeOK
      <4>2. pc'[t] # "reap" /\ pc[t] # "reap"
        BY <2>1, <3>1 DEF TypeOK
      <4>. QED BY <2>1, <4>1, <4>2, CountsStay DEF objects
    <3>4. WillRetain'
      BY <3>1 DEF WillRetain, TypeOK
    <3>5. \A q \in Pools : Counted(q)'
      BY <1>0, <1>a, <2>1, <2>2, <3>1, <3>2, <3>3, <3>4 DEF Counted, Owed, objects
    <3>6. Locals'
      BY <1>a, <2>1, <2>2, <3>1, <3>2 DEF Locals, TypeOK, objects
    <3>. QED BY <1>b, <3>5, <3>6
  <2>3. CASE Default # NULL
    <3>1. pc' = [pc EXCEPT ![t] = "reread"] /\ Default' = Default
      BY <1>8, <2>3 DEF Publish, CompareAndSwap, Goto
    <3>. QED BY <1>1, <2>1, <2>3, <3>1 DEF TypeOK
  <2>. QED BY <2>2, <2>3
<1>9. ASSUME NEW t \in Threads, Retain(t)
      PROVE  Exact'
  <2>1. /\ UNCHANGED <<statics, threadCount, autoreleased, currentPool, tempPool>>
        /\ pc[t] = "retain" /\ pc' = [pc EXCEPT ![t] = "reread"]
    BY <1>9 DEF Retain, Goto
  <2>2. Default \in Pools /\ \A u \in Threads : pc[u] = "retain" => u = t
    BY <1>a, <2>1 DEF Locals, TypeOK
  <2>3. \A q : Pending(q)' = Pending(q) /\ Reaping(q)' = Reaping(q)
    <3>1. \A u \in Threads \ {t} : pc'[u] = pc[u] /\ currentPool'[u] = currentPool[u]
      BY <2>1 DEF TypeOK
    <3>2. pc'[t] # "reap" /\ pc[t] # "reap"
      BY <2>1 DEF TypeOK
    <3>. QED BY <2>1, <3>1, <3>2, CountsStay
  <2>4. WillRetain /\ ~WillRetain'
    BY <2>1, <2>2 DEF WillRetain, TypeOK
  <2>5. \A q \in Pools : retainCount'[q] = retainCount[q] + (IF q = Default THEN 1 ELSE 0)
    BY <1>9 DEF Retain, TypeOK
  <2>6. ASSUME NEW q \in Pools
        PROVE  Counted(q)'
    <3>1. Default' = Default /\ threadCount' = threadCount
      BY <2>1 DEF statics
    <3>2. q = Default => retainCount[q] # 0
      BY OwnedIsThere
    <3>3. Counted(q) /\ retainCount'[q] = retainCount[q] + (IF q = Default THEN 1 ELSE 0)
      BY <1>a, <2>5
    <3>. QED BY <1>0, <2>3, <2>4, <3>1, <3>2, <3>3 DEF Counted, Owed
  <2>7. Locals'
    BY <1>a, <2>1, <2>2 DEF Locals, TypeOK, statics
  <2>. QED BY <1>b, <2>6, <2>7
<1>10. ASSUME NEW t \in Threads, Drain(t)
       PROVE  Exact'
  <2>1. /\ UNCHANGED <<statics, threadCount, locals>> /\ pc[t] = "idle"
        /\ retainCount' = [q \in Pools |-> retainCount[q] - autoreleased[t][q]]
        /\ autoreleased' = [autoreleased EXCEPT ![t] = [q \in Pools |-> 0]]
    BY <1>10 DEF Drain
  <2>2. /\ autoreleased' \in [Threads -> [Pools -> Nat]]
        /\ \A u \in Threads \ {t} : autoreleased'[u] = autoreleased[u]
        /\ \A q \in Pools : autoreleased'[t][q] = 0
    BY <2>1 DEF TypeOK
  <2>3. \A q \in Pools : Pending(q)' = Pending(q) - autoreleased[t][q]
    BY <1>0, <2>2, PendingChanges
  <2>4. \A q : Reaping(q)' = Reaping(q)
    BY <2>1 DEF Reaping, locals
  <2>5. /\ Default' = Default /\ pc' = pc /\ tempPool' = tempPool /\ currentPool' = currentPool
        /\ (WillRetain' <=> WillRetain)
    BY <2>1 DEF statics, locals, WillRetain
  <2>6. Locals'
    BY <1>a, <2>1, <2>2, <2>5 DEF Locals
  <2>7. ASSUME NEW q \in Pools
        PROVE  Counted(q)'
    <3>1. Counted(q) /\ retainCount'[q] = retainCount[q] - autoreleased[t][q]
      BY <1>a, <2>1
    <3>2. WillRetain /\ q = Default => Pending(q)' > 0
      <4>. SUFFICES ASSUME NEW u \in Threads, pc[u] = "retain", q = Default
                    PROVE  Pending(q)' > 0
        BY DEF WillRetain
      <4>1. autoreleased'[u][q] > 0
        BY <1>a, <2>1, <2>2 DEF Locals
      <4>2. Pending(q)' \in Nat /\ autoreleased'[u][q] \in Nat /\ autoreleased'[u][q] <= Pending(q)'
        BY <2>2, ReleasesCount DEF Pending
      <4>. QED BY <4>1, <4>2
    <3>3. /\ Pending(q) \in Nat /\ Reaping(q) \in Nat /\ threadCount[q] \in Nat
          /\ autoreleased[t][q] \in Nat /\ autoreleased[t][q] <= Pending(q)
          /\ retainCount[q] \in Int
      BY <1>0 DEF TypeOK
    <3>4. /\ Pending(q)' = Pending(q) - autoreleased[t][q] /\ Reaping(q)' = Reaping(q)
          /\ threadCount'[q] = threadCount[q] /\ Owed(q)' = Owed(q)
      BY <2>1, <2>3, <2>4, <2>5 DEF Owed
    <3>5. Owed(q) = IF q = Default /\ ~WillRetain THEN 1 ELSE 0
      BY DEF Owed
    <3>6. CASE retainCount[q] = 0
      <4>1. Pending(q) = 0 /\ Reaping(q) = 0 /\ q # Default
        BY <3>1, <3>6 DEF Counted
      <4>2. autoreleased[t][q] = 0
        BY <3>3, <4>1
      <4>3. retainCount'[q] = 0 /\ Pending(q)' = 0 /\ Reaping(q)' = 0
        BY <3>1, <3>4, <3>6, <4>1, <4>2
      <4>. QED BY <2>5, <4>1, <4>3 DEF Counted
    <3>7. CASE retainCount[q] # 0
      <4>1. retainCount[q] = Pending(q) + threadCount[q] + Reaping(q) + Owed(q)
        BY <3>1, <3>7 DEF Counted
      <4>2. retainCount'[q] = Pending(q)' + threadCount[q] + Reaping(q) + Owed(q)
        BY <3>1, <3>3, <3>4, <3>5, <4>1
      <4>3. retainCount'[q] = 0 => Pending(q)' = 0 /\ Reaping(q) = 0 /\ Owed(q) = 0
        <5>1. Owed(q) \in Nat
          BY <3>5
        <5>2. Pending(q)' \in Nat
          BY <3>3, <3>4
        <5>. DEFINE pending == Pending(q)'
                    threads == threadCount[q]
                    reaping == Reaping(q)
                    owed == Owed(q)
        <5>3. /\ pending \in Nat /\ threads \in Nat /\ reaping \in Nat /\ owed \in Nat
              /\ retainCount'[q] = pending + threads + reaping + owed
          BY <3>3, <4>2, <5>1, <5>2
        <5>. HIDE DEF pending, threads, reaping, owed
        <5>4. retainCount'[q] = 0 => pending = 0 /\ reaping = 0 /\ owed = 0
          BY <5>3
        <5>. QED BY <5>4 DEF pending, reaping, owed
      <4>4. retainCount'[q] = 0 => q # Default
        BY <3>2, <3>5, <4>3
      <4>. QED BY <2>5, <3>4, <4>2, <4>3, <4>4 DEF Counted
    <3>. QED BY <3>6, <3>7
  <2>. QED BY <1>b, <2>6, <2>7
<1>11. CASE UNCHANGED vars
  BY <1>11 DEF vars, statics, objects, locals, Exact, Accounted, Pending, Reaping, WillRetain
<1>. QED
  BY <1>2, <1>3, <1>4, <1>5, <1>6, <1>7, <1>8, <1>9, <1>10, <1>11 DEF Next, DefaultThreadPool
-------------------------------------------------------------------------------
\* The step of the inductive invariant.
LEMMA NextIInv == IInv /\ [Next]_vars => IInv'
<1>. SUFFICES ASSUME IInv, [Next]_vars
              PROVE  IInv'
  OBVIOUS
<1>1. TypeOK /\ Phase /\ TypeOK' /\ Phase'
  BY NextType, NextPhase DEF IInv
<1>2. Processors > 1 => Kept'
  BY NextKept DEF IInv
<1>3. ASSUME ~allocationFailed'
      PROVE  AllMade'
  <2>1. ~allocationFailed
    BY <1>3 DEF Next, DefaultThreadPool, DetachThreads, Call, Test, SwapOut, Reap, Prepare,
                InitPool, InitPoolFails, Publish, Retain, Reread, Finish, Drain, vars
  <2>2. Exact /\ (isMultiThreaded => \E old \in Pools \cup {NULL} : Replacing(old))
    BY <2>1 DEF IInv, AllMade
  <2>3. PICK old \in Pools \cup {NULL} : isMultiThreaded => Replacing(old)
    BY <2>2
  <2>4. Exact'
    BY <1>1, <1>3, <2>2, <2>3, NextExact
  <2>5. CASE isMultiThreaded
    BY <1>1, <1>3, <2>2, <2>3, <2>4, <2>5, NextReplacing DEF AllMade
  <2>6. CASE DetachThreads
    <3>1. \A t \in Threads : pc'[t] = "idle"
      BY <1>1, <2>6 DEF DetachThreads, Phase, locals
    <3>2. threadPoolIsMultiThreaded' = 0 /\ Default' \in Pools \cup {NULL}
      BY <1>1, <2>6 DEF DetachThreads, Phase, TypeOK, Default
    <3>3. Default' # NULL => threadCount'[Default'] = 0
      BY <1>1, <3>2 DEF Phase, TypeOK
    <3>4. Replacing(Default)'
      BY <3>1, <3>2, <3>3 DEF Replacing
    <3>. QED BY <2>4, <3>2, <3>4 DEF AllMade
  <2>7. CASE ~isMultiThreaded /\ ~DetachThreads
    <3>1. ~isMultiThreaded'
      BY <2>7 DEF Next, DefaultThreadPool, Call, Test, SwapOut, Reap, Prepare, InitPool,
                  InitPoolFails, Publish, Retain, Reread, Finish, Drain, vars, statics
    <3>. QED BY <2>4, <3>1 DEF AllMade
  <2>. QED BY <2>5, <2>6, <2>7
<1>. QED BY <1>1, <1>2, <1>3 DEF IInv

\* The strengthening of all that follows is invariant.
LEMMA Invariance == Spec => []IInv
BY InitIInv, NextIInv, PTL DEF Spec

-------------------------------------------------------------------------------
\* Every variable of defaultThreadPool holds a value of its type.
THEOREM TypeCorrect == Spec => []TypeOK
BY Invariance, PTL DEF IInv

\* No pool that has threads, and no pool that is still the default pool, is
\* reaped, and none by two threads, whatever the threads that race to replace it.
THEOREM ReapsTheOldPool == Spec => []ReapedHasNoThreads
<1>1. IInv => ReapedHasNoThreads
  BY DEF IInv, Phase, AllMade, Replacing, ReapedHasNoThreads
<1>. QED BY <1>1, Invariance, PTL

\* The pool with threads that has become the default pool is it for ever: of the
\* threads that compare and swap, none has the pool it was when it was NULL or
\* without threads.
THEOREM DefaultPoolWithThreadsStays == Spec => DefaultPoolStays
<1>1. IInv /\ [Next]_vars => [HasThreads(Default) /\ ~allocationFailed => Default' = Default]_vars
  <2>. SUFFICES ASSUME IInv, Next, HasThreads(Default), ~allocationFailed
                PROVE  Default' = Default
    OBVIOUS
  <2>1. \A t \in Threads : pc[t] = "swap" => isMultiThreaded
    BY DEF IInv, Phase
  <2>2. PICK old \in Pools \cup {NULL} : isMultiThreaded => Replacing(old)
    BY DEF IInv, AllMade
  <2>3. ASSUME NEW t \in Threads, SwapOut(t)
        PROVE  Default' = Default
    <3>1. isMultiThreaded /\ pc[t] = "swap"
      BY <2>1, <2>3 DEF SwapOut
    <3>2. currentPool[t] # Default
      BY <2>2, <3>1 DEF Replacing, HasThreads
    <3>. QED BY <2>3, <3>2 DEF SwapOut, CompareAndSwap, Default
  <2>4. ASSUME NEW t \in Threads, Publish(t)
        PROVE  Default' = Default
    BY <2>4 DEF Publish, CompareAndSwap, HasThreads, Default
  <2>. QED BY <2>3, <2>4 DEF Next, DefaultThreadPool, DetachThreads, Call, Test, Reap, Prepare,
              InitPool, InitPoolFails, Retain, Reread, Finish, Drain, statics, Default
<1>. QED BY <1>1, Invariance, PTL DEF Spec, DefaultPoolStays

\* The count of every pool that is there is the number of its owners.
THEOREM OwnersCounted == Spec => []ReferencesExact
<1>1. IInv => ReferencesExact
  BY DEF IInv, AllMade, Exact, ReferencesExact
<1>. QED BY <1>1, Invariance, PTL

\* The default pool is not deallocated, and every caller is given a pool.
THEOREM DefaultPoolIsAlive == Spec => []DefaultPoolAlive
<1>1. IInv => DefaultPoolAlive
  <2>. SUFFICES ASSUME IInv
                PROVE  DefaultPoolAlive
    OBVIOUS
  <2>1. TypeOK /\ ProcessorsAssumption
    BY ProcessorsAssumption DEF IInv
  <2>2. ASSUME Default # NULL, Processors > 1
        PROVE  retainCount[Default] > 0
    <3>1. Default \in Pools /\ Kept
      BY <2>1, <2>2 DEF IInv, TypeOK, Default
    <3>2. /\ Pending(Default) \in Nat /\ Reaping(Default) \in Nat
          /\ autoreleased[Main][Default] <= Pending(Default) /\ autoreleased[Main][Default] \in Nat
          /\ retainCount[Default] \in Int /\ threadCount[Default] \in Nat
      BY <2>1, <3>1, PendingCounts, ReapingCounts, ThreadsAssumption, ProcessorsAssumption DEF TypeOK
    <3>3. retainCount[Default] >= Pending(Default)
            + (IF threadCount[Default] # 0 THEN threadCount[Default] ELSE Reaping(Default))
      BY <3>1 DEF Kept
    <3>4. threadCount[Default] = 0 => DefaultKept
      BY <2>2, <3>1 DEF Kept
    <3>. QED BY <3>2, <3>3, <3>4 DEF DefaultKept
  <2>3. ASSUME Default # NULL, ~allocationFailed
        PROVE  retainCount[Default] > 0
    <3>1. Default \in Pools /\ Exact
      BY <2>1, <2>3 DEF IInv, AllMade, TypeOK, Default
    <3>2. Pending(Default) \in Nat /\ Reaping(Default) \in Nat /\ threadCount[Default] \in Nat
      BY <2>1, <3>1, PendingCounts, ReapingCounts, ProcessorsAssumption DEF TypeOK
    <3>3. retainCount[Default] # 0
      BY <2>1, <3>1, OwnedIsThere
    <3>. QED BY <3>1, <3>2, <3>3 DEF Exact, Accounted
  <2>4. \A t \in Threads : pc[t] = "using" /\ ~allocationFailed => currentPool[t] # NULL
    BY DEF IInv, AllMade, Exact
  <2>5. Processors > 1 \/ ~(allocationFailed => Processors > 1) \/ ~allocationFailed
    OBVIOUS
  <2>. QED BY <2>2, <2>3, <2>4, <2>5 DEF DefaultPoolAlive
<1>. QED BY <1>1, Invariance, PTL

===============================================================================
