------------------------- MODULE SortedRegexMatchProofs -------------------------
(***************************************************************************)
(* What threadMatchEntryFunction guarantees for every number of threads    *)
(* and of regexes.  A position of the list is in the hands of at most one  *)
(* thread (Claims).  While there is no answer, a regex that would be       *)
(* stored is in the hands of the thread that claimed it (Unanswered); the  *)
(* thread that finished the evaluation holds none, and each of the others  *)
(* can have taken one such regex with it.                                  *)
(***************************************************************************)
EXTENDS SortedRegexMatch, FunctionTheorems, FiniteSetTheorems, TLAPS

ToStore == Stored(matches, LowestOfArray)

\* A thread has its own position, which it has checked before it uses it.
Claims ==
  /\ \A w \in Workers : pc[w] \in {"idle", "claim", "leave", "returned"}
                        \/ threadAtSortedIndex[w] # None
  /\ \A w \in Workers : pc[w] = "idle" => threadAtSortedIndex[w] = None
  /\ \A w \in Workers :
       threadAtSortedIndex[w] # None => threadAtSortedIndex[w] < atSortedIndex
  /\ \A v, w \in Workers :
       (v # w /\ threadAtSortedIndex[v] # None) =>
         threadAtSortedIndex[v] # threadAtSortedIndex[w]
  /\ \A w \in Workers :
       pc[w] \in {"compare", "found", "store", "lower", "read", "swap", "miss"} =>
         threadAtSortedIndex[w] \in Indexes

\* What a thread knows of the regex in its hand.
Known ==
  /\ \A w \in Workers : pc[w] \in {"found", "store"} => At(w) \in ToStore
  /\ \A w \in Workers : pc[w] = "miss" => At(w) \notin ToStore
  /\ \A w \in Workers : pc[w] \in {"lower", "read", "swap"} =>
       LowestOfArray /\ At(w) \in matches /\ At(w) # 0
  /\ highestMatchingArrayIndex # Count =>
       /\ LowestOfArray
       /\ highestMatchingArrayIndex \in matches /\ highestMatchingArrayIndex # 0

\* One thread stores the answer, and all of it.
Answering ==
  /\ \A w \in Workers : pc[w] = "store" => matchedRegex = At(w)
  /\ \A v, w \in Workers : pc[v] = "store" /\ pc[w] = "store" => v = w
  /\ matchedRegex # None =>
       /\ matchedRegex \in ToStore
       /\ \/ \E w \in Workers : pc[w] = "store"
          \/ /\ matchingCollectionIndex = matchedRegex
             /\ sortedElements[matchingSortedIndex] = matchedRegex

HasNone(w) == threadAtSortedIndex[w] \notin Indexes \/ At(w) \notin ToStore

Unanswered ==
  matchedRegex = None =>
    /\ finished =>
         /\ atSortedIndex >= Count
         /\ \E w \in Workers : pc[w] \in {"leave", "returned"} /\ HasNone(w)
    /\ \A w \in Workers : pc[w] = "returned" => finished
    /\ \A w \in Workers : pc[w] = "leave" =>
         finished \/ (threadAtSortedIndex[w] \notin Indexes /\ atSortedIndex >= Count)
    /\ \A p \in Indexes : (p < atSortedIndex /\ sortedElements[p] \in ToStore) =>
         \E w \in Workers : /\ threadAtSortedIndex[w] = p
                            /\ pc[w] \in {"test", "compare", "found", "leave", "returned"}

IInv == TypeOK /\ Claims /\ Known /\ Answering /\ Unanswered

-------------------------------------------------------------------------------
\* What the steps of a thread have in common.

\* The inputs never change, and a thread changes only its own locals.
LEMMA Frame ==
  ASSUME TypeOK, NEW w \in Workers, Enter(w) \/ Step(w)
  PROVE  /\ UNCHANGED inputs
         /\ \A v \in Workers : v # w =>
              /\ pc'[v] = pc[v]
              /\ threadAtSortedIndex'[v] = threadAtSortedIndex[v]
              /\ expected'[v] = expected[v]
BY DEF Enter, Step, Claim, Test, Compare, Found, Store, LowerTest, LowerRead,
       LowerSwap, Miss, Leave, Goto, TypeOK

\* A thread keeps its position until it claims the next one.
LEMMA PositionStays ==
  ASSUME NEW w \in Workers, Enter(w) \/ Step(w), ~Claim(w)
  PROVE  UNCHANGED <<atSortedIndex, threadAtSortedIndex>>
BY DEF Enter, Step, Test, Compare, Found, Store, LowerTest, LowerRead, LowerSwap,
       Miss, Leave

\* The sorted list holds every element once.
LEMMA ListIsPermutation ==
  ASSUME TypeOK
  PROVE  /\ sortedElements \in [Indexes -> Indexes]
         /\ \A i, j \in Indexes : sortedElements[i] = sortedElements[j] => i = j
         /\ \A e \in Indexes : \E i \in Indexes : sortedElements[i] = e
BY Fun_BijectionProperties DEF TypeOK

\* A thread works on a regex of the collection.
LEMMA AtInIndexes ==
  ASSUME TypeOK, Claims, NEW w \in Workers,
         pc[w] \in {"compare", "found", "store", "lower", "read", "swap", "miss"}
  PROVE  At(w) \in Indexes
BY ListIsPermutation DEF Claims, At

-------------------------------------------------------------------------------
\* The inductive invariant.

\* A step keeps the type invariant.
LEMMA TypeOKStep ==
  ASSUME TypeOK, Claims, [Next]_vars
  PROVE  TypeOK'
<1>. Count \in Nat \ {0} /\ None \notin Int /\ Indexes \subseteq 0 .. Count
  BY SortedRegexMatchAssumption DEF Indexes
<1>1. ASSUME NEW w \in Workers, Enter(w) \/ Test(w) \/ Compare(w) \/ LowerTest(w)
      PROVE  TypeOK'
  BY <1>1 DEF Enter, Test, Compare, LowerTest, Goto, TypeOK, Pcs, inputs, answer
<1>2. ASSUME NEW w \in Workers, Claim(w)
      PROVE  TypeOK'
  BY <1>2 DEF Claim, Goto, TypeOK, Pcs, inputs, answer
<1>3. ASSUME NEW w \in Workers, Found(w) \/ Store(w)
      PROVE  TypeOK'
  <2>1. threadAtSortedIndex[w] \in Indexes /\ At(w) \in Indexes
    BY <1>3, AtInIndexes DEF Found, Store, Goto, Claims
  <2>. QED  BY <1>3, <2>1 DEF Found, Store, Goto, TypeOK, Pcs, inputs
<1>4. ASSUME NEW w \in Workers, LowerRead(w) \/ LowerSwap(w)
      PROVE  TypeOK'
  <2>1. LowerSwap(w) => At(w) \in 0 .. Count
    BY <1>4, AtInIndexes DEF LowerSwap, Goto
  <2>. QED
    BY <1>4, <2>1 DEF LowerRead, LowerSwap, Goto, TypeOK, Pcs, inputs, answer
<1>5. ASSUME NEW w \in Workers, Miss(w) \/ Leave(w)
      PROVE  TypeOK'
  <2>1. finished' \in BOOLEAN
    BY <1>5 DEF Miss, Leave, TypeOK
  <2>2. pc' \in [Workers -> Pcs]
    BY <1>5 DEF Miss, Leave, Goto, TypeOK, Pcs
  <2>3. UNCHANGED <<inputs, answer, atSortedIndex, highestMatchingArrayIndex,
                    threadAtSortedIndex, expected>>
    BY <1>5 DEF Miss, Leave
  <2>. QED  BY <2>1, <2>2, <2>3 DEF TypeOK, inputs, answer
<1>6. CASE UNCHANGED vars
  BY <1>6 DEF TypeOK, vars, inputs, answer
<1>. QED  BY <1>1, <1>2, <1>3, <1>4, <1>5, <1>6 DEF Next, Step

\* A step keeps every claimed position in the hands of one thread.
LEMMA ClaimsStep ==
  ASSUME TypeOK, Claims, [Next]_vars
  PROVE  Claims'
<1>. None \notin Int /\ Count \in Nat
  BY SortedRegexMatchAssumption
<1>1. ASSUME NEW w \in Workers, Claim(w)
      PROVE  Claims'
  <2>1. /\ threadAtSortedIndex' = [threadAtSortedIndex EXCEPT ![w] = atSortedIndex]
        /\ pc'[w] = "test" /\ atSortedIndex' = atSortedIndex + 1
        /\ atSortedIndex \in Nat /\ UNCHANGED sortedElements
    BY <1>1 DEF Claim, Goto, TypeOK, inputs
  <2>2. \A v \in Workers : threadAtSortedIndex[v] # None => threadAtSortedIndex[v] \in Nat
    BY DEF TypeOK
  <2>. QED  BY <1>1, <2>1, <2>2, Frame DEF Claims, Step, TypeOK
<1>2. ASSUME NEW w \in Workers, Test(w)
      PROVE  Claims'
  <2>1. pc'[w] = "compare" => threadAtSortedIndex[w] \in Indexes
    <3>1. threadAtSortedIndex[w] \in Nat
      BY <1>2 DEF Test, Goto, Claims, TypeOK
    <3>. QED  BY <1>2, <3>1 DEF Test, Goto, TypeOK, Indexes
  <2>2. pc'[w] \in {"compare", "leave"} /\ threadAtSortedIndex[w] # None
    BY <1>2 DEF Test, Goto, TypeOK, Claims
  <2>. QED  BY <1>2, <2>1, <2>2, Frame, PositionStays DEF Claims, Step, Test
<1>3. ASSUME NEW w \in Workers, Enter(w) \/ Step(w), ~Claim(w), ~Test(w)
      PROVE  Claims'
  <2>1. \/ pc'[w] \in {"claim", "leave", "returned"}
        \/ /\ pc[w] \in {"compare", "found", "store", "lower", "read", "swap", "miss"}
           /\ pc'[w] \in {"compare", "found", "store", "lower", "read", "swap", "miss"}
    BY <1>3 DEF Enter, Step, Compare, Found, Store, LowerTest, LowerRead,
                LowerSwap, Miss, Leave, Goto, TypeOK
  <2>. QED  BY <1>3, <2>1, Frame, PositionStays DEF Claims
<1>4. CASE UNCHANGED vars
  BY <1>4 DEF Claims, vars
<1>. QED  BY <1>1, <1>2, <1>3, <1>4 DEF Next

\* The regexes and what would be stored of them are inputs.
LEMMA InputsStay ==
  ASSUME TypeOK, NEW w \in Workers, Enter(w) \/ Step(w)
  PROVE  /\ ToStore' = ToStore /\ LowestOfArray' = LowestOfArray
         /\ UNCHANGED <<matches, sortedElements>>
         /\ \A v \in Workers : v # w \/ ~Claim(w) => At(v)' = At(v)
BY Frame, PositionStays DEF inputs, ToStore, LowestOfArray, At

\* A step keeps what a thread knows of the regex in its hand.
LEMMA KnownStep ==
  ASSUME TypeOK, Claims, Known, [Next]_vars
  PROVE  Known'
<1>1. ASSUME NEW w \in Workers, Compare(w)
      PROVE  Known'
  <2>1. /\ pc[w] = "compare" /\ UNCHANGED highestMatchingArrayIndex
        /\ pc'[w] = "found" =>
             At(w) \in matches /\ (~LowestOfArray \/ At(w) = 0)
        /\ pc'[w] = "miss" => At(w) \notin matches
        /\ pc'[w] = "lower" => LowestOfArray /\ At(w) \in matches /\ At(w) # 0
        /\ pc'[w] \in {"claim", "found", "miss", "lower"}
    BY <1>1 DEF Compare, Goto, TypeOK
  <2>2. /\ pc'[w] = "found" => At(w) \in ToStore
        /\ pc'[w] = "miss" => At(w) \notin ToStore
    BY <2>1 DEF ToStore, Stored
  <2>3. ~Claim(w)
    BY <2>1 DEF Claim, Goto
  <2>. QED  BY <1>1, <2>1, <2>2, <2>3, Frame, InputsStay DEF Known, Step
<1>2. ASSUME NEW w \in Workers, LowerSwap(w)
      PROVE  Known'
  <2>1. /\ pc[w] = "swap" /\ pc'[w] \in {"claim", "lower"}
        /\ highestMatchingArrayIndex' \in {highestMatchingArrayIndex, At(w)}
    BY <1>2 DEF LowerSwap, Goto, TypeOK
  <2>2. ~Claim(w)
    BY <2>1 DEF Claim, Goto
  <2>. QED  BY <1>2, <2>1, <2>2, Frame, InputsStay DEF Known, Step
<1>3. ASSUME NEW w \in Workers, Found(w) \/ LowerTest(w) \/ LowerRead(w)
      PROVE  Known'
  <2>1. /\ \/ pc[w] = "found" /\ pc'[w] \in {"store", "leave"}
           \/ pc[w] \in {"lower", "read"} /\ pc'[w] \in {"read", "swap", "claim"}
        /\ UNCHANGED highestMatchingArrayIndex
    BY <1>3 DEF Found, LowerTest, LowerRead, Goto, TypeOK
  <2>2. ~Claim(w)
    BY <2>1 DEF Claim, Goto
  <2>. QED  BY <1>3, <2>1, <2>2, Frame, InputsStay DEF Known, Step
<1>4. ASSUME NEW w \in Workers,
             \/ Enter(w) \/ Claim(w) \/ Test(w) \/ Store(w) \/ Miss(w) \/ Leave(w)
      PROVE  Known'
  <2>1. /\ pc'[w] \in {"claim", "test", "compare", "leave", "returned"}
        /\ UNCHANGED highestMatchingArrayIndex
    BY <1>4 DEF Enter, Claim, Test, Store, Miss, Leave, Goto, TypeOK
  <2>. QED  BY <1>4, <2>1, Frame, InputsStay DEF Known, Step
<1>5. CASE UNCHANGED vars
  BY <1>5 DEF Known, vars, inputs, ToStore, LowestOfArray, At
<1>. QED  BY <1>1, <1>2, <1>3, <1>4, <1>5 DEF Next, Step

\* A step keeps the answer the work of one thread.
LEMMA AnsweringStep ==
  ASSUME TypeOK, Claims, Known, Answering, [Next]_vars
  PROVE  Answering'
<1>. None \notin Int
  BY SortedRegexMatchAssumption
<1>1. ASSUME NEW w \in Workers, Found(w), matchedRegex = None
      PROVE  Answering'
  <2>1. /\ pc[w] = "found" /\ pc'[w] = "store" /\ matchedRegex' = At(w)
        /\ At(w) \in ToStore /\ At(w) \in Indexes /\ ~Claim(w)
    BY <1>1, AtInIndexes DEF Found, Goto, TypeOK, Known, Claim
  <2>2. \A v \in Workers : pc[v] # "store"
    BY <1>1, AtInIndexes DEF Answering, Indexes
  <2>. QED  BY <1>1, <2>1, <2>2, Frame, InputsStay DEF Answering, Step
<1>2. ASSUME NEW w \in Workers, Store(w)
      PROVE  Answering'
  <2>1. /\ pc[w] = "store" /\ pc'[w] = "leave" /\ UNCHANGED matchedRegex
        /\ matchingCollectionIndex' = At(w)
        /\ sortedElements[matchingSortedIndex'] = At(w)
        /\ matchedRegex = At(w) /\ ~Claim(w)
    BY <1>2 DEF Store, Goto, TypeOK, Answering, At, Claim
  <2>. QED  BY <1>2, <2>1, Frame, InputsStay DEF Answering, Step
<1>3. ASSUME NEW w \in Workers, Enter(w) \/ Step(w), ~Store(w),
             ~(Found(w) /\ matchedRegex = None)
      PROVE  Answering'
  <2>1. UNCHANGED answer /\ pc[w] # "store" /\ pc'[w] # "store"
    BY <1>3 DEF Enter, Step, Claim, Test, Compare, Found, LowerTest, LowerRead,
                LowerSwap, Miss, Leave, Goto, TypeOK, answer
  <2>. QED  BY <1>3, <2>1, Frame, InputsStay DEF Answering, answer
<1>4. CASE UNCHANGED vars
  BY <1>4 DEF Answering, vars, inputs, answer, ToStore, LowestOfArray, At
<1>. QED  BY <1>1, <1>2, <1>3, <1>4 DEF Next, Step

\* A regex that would be stored is neither skipped nor taken for a miss.
LEMMA NotOverlooked ==
  ASSUME TypeOK, Claims, Known, NEW w \in Workers, Compare(w), At(w) \in ToStore
  PROVE  pc'[w] = "found"
<1>. At(w) \in Nat /\ Count \in Nat /\ highestMatchingArrayIndex \in Nat
  BY AtInIndexes, SortedRegexMatchAssumption DEF Compare, Goto, Indexes, TypeOK
<1>1. At(w) \in matches /\ (LowestOfArray => At(w) = 0)
  BY DEF ToStore, Stored
<1>2. ~(At(w) > highestMatchingArrayIndex)
  <2>1. CASE LowestOfArray
    BY <1>1, <2>1
  <2>2. CASE ~LowestOfArray
    BY <2>2, AtInIndexes, SortedRegexMatchAssumption
       DEF Known, Compare, Goto, Indexes
  <2>. QED  BY <2>1, <2>2
<1>. QED  BY <1>1, <1>2 DEF Compare, Goto, TypeOK

\* A step keeps every regex that would be the answer in some hand, until there is
\* one.
LEMMA UnansweredStep ==
  ASSUME TypeOK, Claims, Known, Answering, Unanswered, [Next]_vars
  PROVE  Unanswered'
<1>. SUFFICES ASSUME matchedRegex' = None
              PROVE  Unanswered'
  BY DEF Unanswered
<1>. Count \in Nat \ {0} /\ None \notin Int /\ atSortedIndex \in Nat
  BY SortedRegexMatchAssumption DEF TypeOK
<1>1. matchedRegex = None
  <2>1. ASSUME NEW w \in Workers, Found(w), matchedRegex = None
        PROVE  FALSE
    BY <2>1, AtInIndexes DEF Found, Goto, Indexes
  <2>2. ASSUME NEW w \in Workers, Found(w), matchedRegex # None
        PROVE  UNCHANGED matchedRegex
    BY <2>2 DEF Found
  <2>. QED
    BY <2>1, <2>2 DEF Next, Step, Enter, Claim, Test, Compare, Store, LowerTest,
                      LowerRead, LowerSwap, Miss, Leave, vars, answer
<1>2. ASSUME NEW w \in Workers, Claim(w)
      PROVE  Unanswered'
  <2>1. /\ pc[w] = "claim" /\ pc'[w] = "test"
        /\ threadAtSortedIndex'[w] = atSortedIndex
        /\ atSortedIndex' = atSortedIndex + 1 /\ UNCHANGED finished
    BY <1>2 DEF Claim, Goto, TypeOK
  <2>2. /\ UNCHANGED sortedElements /\ ToStore' = ToStore
        /\ \A v \in Workers : v # w =>
             /\ pc'[v] = pc[v]
             /\ threadAtSortedIndex'[v] = threadAtSortedIndex[v]
             /\ HasNone(v)' = HasNone(v)
    BY <1>2, Frame, InputsStay DEF Step, HasNone
  <2>3. finished => \E v \in Workers : pc'[v] \in {"leave", "returned"} /\ HasNone(v)'
    BY <1>1, <2>1, <2>2 DEF Unanswered
  <2>4. ASSUME NEW p \in Indexes, p < atSortedIndex + 1, sortedElements[p] \in ToStore
        PROVE  \E v \in Workers :
                 /\ threadAtSortedIndex'[v] = p
                 /\ pc'[v] \in {"test", "compare", "found", "leave", "returned"}
    <3>1. CASE p = atSortedIndex
      BY <2>1, <3>1
    <3>2. CASE p # atSortedIndex
      <4>1. p < atSortedIndex
        BY <2>4, <3>2 DEF Indexes
      <4>. QED  BY <1>1, <2>1, <2>2, <2>4, <4>1 DEF Unanswered
    <3>. QED  BY <3>1, <3>2
  <2>. QED  BY <1>1, <2>1, <2>2, <2>3, <2>4 DEF Unanswered
<1>3. ASSUME NEW w \in Workers, Enter(w) \/ Step(w), ~Claim(w)
      PROVE  Unanswered'
  <2>1. /\ UNCHANGED <<sortedElements, atSortedIndex, threadAtSortedIndex>>
        /\ ToStore' = ToStore
        /\ \A v \in Workers : HasNone(v)' = HasNone(v)
        /\ \A v \in Workers : v # w => pc'[v] = pc[v]
    BY <1>3, Frame, InputsStay, PositionStays DEF HasNone
  <2>2. pc'[w] = "leave" =>
          finished' \/ (threadAtSortedIndex[w] \notin Indexes /\ atSortedIndex >= Count)
    <3>1. CASE Enter(w)
      BY <1>1, <3>1 DEF Enter, Goto, Claims, TypeOK, Indexes
    <3>2. CASE Test(w)
      <4>1. /\ threadAtSortedIndex[w] \in Nat
            /\ threadAtSortedIndex[w] < atSortedIndex
            /\ highestMatchingArrayIndex \in Nat /\ highestMatchingArrayIndex # 0
        BY <3>2, SortedRegexMatchAssumption DEF Test, Goto, Claims, Known, TypeOK
      <4>. QED  BY <1>1, <3>2, <4>1 DEF Test, Goto, TypeOK, Indexes
    <3>3. CASE Store(w)
      BY <3>3 DEF Store
    <3>4. CASE Miss(w)
      BY <3>4 DEF Miss, Goto, TypeOK
    <3>5. CASE Found(w)
      BY <1>1, <3>5 DEF Found, Goto, TypeOK
    <3>. QED
      BY <1>3, <3>1, <3>2, <3>3, <3>4, <3>5
         DEF Step, Compare, LowerTest, LowerRead, LowerSwap, Leave, Goto, TypeOK
  <2>3. pc'[w] = "returned" => finished'
    <3>1. CASE Leave(w)
      <4>1. finished \/ atSortedIndex >= Count
        BY <1>1, <3>1 DEF Leave, Goto, Unanswered
      <4>. QED  BY <3>1, <4>1 DEF Leave
    <3>. QED
      BY <1>3, <3>1 DEF Enter, Step, Test, Compare, Found, Store, LowerTest,
                        LowerRead, LowerSwap, Miss, Goto, TypeOK
  <2>4. finished => finished'
    BY <1>3 DEF Enter, Step, Test, Compare, Found, Store, LowerTest, LowerRead,
                LowerSwap, Miss, Leave
  <2>5. finished' =>
          /\ atSortedIndex >= Count
          /\ \E v \in Workers : pc'[v] \in {"leave", "returned"} /\ HasNone(v)
    <3>1. CASE finished
      <4>1. pc[w] \in {"leave", "returned"} => pc'[w] \in {"leave", "returned"}
        BY <1>3 DEF Enter, Step, Test, Compare, Found, Store, LowerTest, LowerRead,
                    LowerSwap, Miss, Leave, Goto, TypeOK
      <4>. QED  BY <1>1, <2>1, <3>1, <4>1 DEF Unanswered
    <3>2. CASE ~finished /\ Miss(w)
      BY <3>2 DEF Miss, Goto, Known, HasNone, TypeOK
    <3>3. CASE ~finished /\ Leave(w)
      BY <1>1, <3>3 DEF Leave, Goto, HasNone, TypeOK, Unanswered
    <3>4. CASE Store(w)
      <4>1. matchedRegex = At(w) /\ At(w) \in Int
        BY <3>4, AtInIndexes DEF Store, Goto, Answering, Indexes
      <4>. QED  BY <1>1, <4>1
    <3>5. CASE ~finished /\ ~Miss(w) /\ ~Leave(w) /\ ~Store(w)
      BY <1>3, <3>5 DEF Enter, Step, Test, Compare, Found, LowerTest, LowerRead, LowerSwap
    <3>. QED  BY <3>1, <3>2, <3>3, <3>4, <3>5
  <2>6. (/\ pc[w] \in {"test", "compare", "found", "leave", "returned"}
         /\ threadAtSortedIndex[w] \in Indexes /\ At(w) \in ToStore)
        => pc'[w] \in {"test", "compare", "found", "leave", "returned"}
    <3>1. CASE Compare(w)
      BY <3>1, NotOverlooked
    <3>2. CASE Found(w)
      BY <1>1, <3>2, AtInIndexes DEF Found, Goto, Indexes
    <3>. QED
      BY <1>3, <3>1, <3>2 DEF Enter, Step, Test, Store, LowerTest, LowerRead,
                              LowerSwap, Miss, Leave, Goto, TypeOK
  <2>7. ASSUME NEW p \in Indexes, p < atSortedIndex, sortedElements[p] \in ToStore
        PROVE  \E v \in Workers :
                 /\ threadAtSortedIndex[v] = p
                 /\ pc'[v] \in {"test", "compare", "found", "leave", "returned"}
    <3>1. PICK v \in Workers :
            /\ threadAtSortedIndex[v] = p
            /\ pc[v] \in {"test", "compare", "found", "leave", "returned"}
      BY <1>1, <2>7 DEF Unanswered
    <3>2. At(v) \in ToStore
      BY <2>7, <3>1 DEF At
    <3>. QED  BY <2>1, <2>6, <3>1, <3>2
  <2>. QED  BY <1>1, <2>1, <2>2, <2>3, <2>4, <2>5, <2>7 DEF Unanswered
<1>4. CASE UNCHANGED vars
  BY <1>4 DEF Unanswered, HasNone, vars, inputs, answer, ToStore, LowestOfArray, At
<1>. QED  BY <1>2, <1>3, <1>4 DEF Next, Step

-------------------------------------------------------------------------------
\* The invariant holds at the start: nothing is claimed.
LEMMA InitIInv == Init => IInv
<1>. SUFFICES ASSUME Init
              PROVE  IInv
  OBVIOUS
<1>. Count \in Nat \ {0} /\ None \notin Int
  BY SortedRegexMatchAssumption
<1>1. TypeOK
  <2>1. 0 \in Indexes /\ 0 \in Nat /\ Count \in 0 .. Count
    BY DEF Indexes
  <2>2. /\ pc \in [Workers -> Pcs]
        /\ threadAtSortedIndex \in [Workers -> Nat \cup {None}]
        /\ expected \in [Workers -> 0 .. Count \cup {None}]
    BY DEF Init, Pcs
  <2>3. finished \in BOOLEAN
    BY DEF Init
  <2>. QED  BY <2>1, <2>2, <2>3 DEF Init, TypeOK
<1>2. Claims /\ Known /\ Answering /\ Unanswered
  BY DEF Init, Claims, Known, Answering, Unanswered, Indexes
<1>. QED  BY <1>1, <1>2 DEF IInv

\* Every step of a thread preserves the invariant.
LEMMA NextIInv == IInv /\ [Next]_vars => IInv'
BY TypeOKStep, ClaimsStep, KnownStep, AnsweringStep, UnansweredStep DEF IInv

\* The invariant holds in every reachable state.
LEMMA Invariance == Spec => []IInv
BY InitIInv, NextIInv, PTL DEF Spec

\* The shared words and the locals of the function keep their types.
THEOREM TypeCorrect == Spec => []TypeOK
<1>1. IInv => TypeOK
  BY DEF IInv
<1>. QED  BY Invariance, <1>1, PTL

\* No position of the list is evaluated twice (the increment of lines 357 and
\* 364).
THEOREM NoPositionTwice == Spec => []ClaimedOnce
<1>1. IInv => ClaimedOnce
  BY DEF IInv, Claims, ClaimedOnce, Joined
<1>. QED  BY Invariance, <1>1, PTL

\* A regex is skipped only for a match before it in the array (line 384).
THEOREM SkipsSound == Spec => []SkipsAreSound
<1>1. IInv => SkipsAreSound
  BY DEF IInv, Known, SkipsAreSound
<1>. QED  BY Invariance, <1>1, PTL

\* The caller reads one answer, not parts of two (lines 377 to 380).
THEOREM AnswersConsistent == Spec => []AnswerConsistent
<1>1. IInv => AnswerConsistent
  BY DEF IInv, Answering, AnswerConsistent, Done, Joined
<1>. QED  BY Invariance, <1>1, PTL

\* Each regex that would be stored and was not went with another thread than
\* the one that finished the evaluation.
LEMMA LostOnePerThread ==
  ASSUME IInv, Done, matchedRegex = None
  PROVE  IsFiniteSet(ToStore) /\ Cardinality(ToStore) < Cardinality(Joined)
<1>. USE DEF IInv
<1>. Count \in Nat \ {0} /\ None \notin Int /\ atSortedIndex \in Nat
  BY SortedRegexMatchAssumption DEF TypeOK
<1>1. finished /\ atSortedIndex >= Count
  BY DEF Done, Joined, Unanswered
<1>2. PICK f \in Workers : pc[f] \in {"leave", "returned"} /\ HasNone(f)
  BY <1>1 DEF Unanswered
<1>3. f \in Joined
  BY <1>2 DEF Joined
<1>. DEFINE Others == Joined \ {f}
            Took(e) == CHOOSE w \in Others :
                         threadAtSortedIndex[w] \in Indexes /\ At(w) = e
<1>4. ASSUME NEW e \in ToStore
      PROVE  Took(e) \in Others /\ At(Took(e)) = e
  <2>1. e \in Indexes
    BY DEF ToStore, Stored, TypeOK
  <2>2. PICK p \in Indexes : sortedElements[p] = e
    BY <2>1, ListIsPermutation
  <2>3. p < atSortedIndex
    BY <1>1 DEF Indexes
  <2>4. PICK w \in Workers :
          /\ threadAtSortedIndex[w] = p
          /\ pc[w] \in {"test", "compare", "found", "leave", "returned"}
    BY <2>2, <2>3 DEF Unanswered
  <2>5. w \in Others /\ threadAtSortedIndex[w] \in Indexes /\ At(w) = e
    BY <1>2, <2>2, <2>4 DEF Joined, HasNone, At
  <2>. QED  BY <2>5
<1>. HIDE DEF Took
<1>5. [e \in ToStore |-> Took(e)] \in Injection(ToStore, Others)
  <2>1. [e \in ToStore |-> Took(e)] \in [ToStore -> Others]
    BY <1>4
  <2>2. \A d, e \in ToStore : Took(d) = Took(e) => d = e
    BY <1>4
  <2>. QED  BY <2>1, <2>2, Fun_IsInj
<1>6. IsFiniteSet(Joined)
  BY SortedRegexMatchAssumption, FS_Subset DEF Joined
<1>7. IsFiniteSet(Others) /\ Cardinality(Others) = Cardinality(Joined) - 1
  BY <1>3, <1>6, FS_RemoveElement
<1>8. IsFiniteSet(ToStore) /\ Cardinality(ToStore) <= Cardinality(Others)
  BY <1>5, <1>7, FS_Injection
<1>. QED  BY <1>6, <1>7, <1>8, FS_CardinalityType

\* However many threads take part, the caller is given a regex that matches,
\* or NULL when each regex it might have been given was lost with a thread of
\* its own (lines 362 and 391).
THEOREM AnswersAllowed == Spec => []AnswerAllowed
<1>1. IInv => AnswerAllowed
  <2>. SUFFICES ASSUME IInv, Done
                PROVE  matchedRegex \in
                         Answers(matches, LowestOfArray, Cardinality(Joined), None)
    BY DEF AnswerAllowed
  <2>1. CASE matchedRegex = None
    BY <2>1, LostOnePerThread DEF Answers, ToStore
  <2>2. CASE matchedRegex # None
    BY <2>2 DEF IInv, Answering, Answers, ToStore
  <2>. QED  BY <2>1, <2>2
<1>. QED  BY Invariance, <1>1, PTL
===============================================================================
