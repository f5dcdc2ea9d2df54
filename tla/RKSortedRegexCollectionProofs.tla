--------------------- MODULE RKSortedRegexCollectionProofs ---------------------
(***************************************************************************)
(* Safety of a sorted collection for every number of regexes, objects and  *)
(* callers.  A caller that has a position of the list in hand holds the    *)
(* lock (Locked), and the list is sorted under the write lock, which       *)
(* excludes every other holder (Exclusion): so the position stays good.    *)
(***************************************************************************)
EXTENDS RKSortedRegexCollection, FunctionTheorems, TLAPS

Exclusion == writer # None => readers = {}

Locked ==
  /\ \A c \in Callers :
       pc[c] \in {"probe", "count", "readHits", "compare", "unlock", "snapshot"} =>
         c \in readers \/ writer = c
  /\ \A c \in Callers : pc[c] = "sort" => writer = c

\* A call has an object from its first step to its last.
HasObject ==
  \A c \in Callers : pc[c] \notin {"idle", "snapshot"} => matchObject[c] \in Objects

\* The position is inside the list, and after its first element where the one
\* before it is looked at.
PositionInList ==
  \A c \in Callers :
    /\ pc[c] \in {"count", "readHits", "compare"} => matchingSortedIndex[c] \in Indexes
    /\ pc[c] \in {"readHits", "compare"} => matchingSortedIndex[c] # 0

\* A snapshot has copied the elements before its index.
Copied ==
  \A c \in Callers :
    /\ pc[c] = "idle" => matchingSortedIndex[c] = 0
    /\ pc[c] # "snapshot" => copied[c] = {}
    /\ pc[c] = "snapshot" =>
         copied[c] = {sortedElements[i] : i \in 0 .. (matchingSortedIndex[c] - 1)}

\* NULL may be the answer for an object with this hash.
Justified(h) == h = 0 \/ Refusable(h) # {}

\* What the miss cache holds, and what a caller with NULL in hand will write to it
\* or return, is the hash of an object that NULL may be the answer for.
MissesJustified ==
  /\ \A b \in 0 .. (Buckets - 1) : Justified(missedObjectHashCache[b])
  /\ \A c \in Callers :
       /\ pc[c] \in {"unlock", "remember", "return"} /\ matchedRegex[c] = None =>
            Justified(Hash[matchObject[c]])
       /\ pc[c] = "remember" => matchedRegex[c] = None

IInv ==
  /\ MissesJustified
  /\ TypeOK
  /\ Exclusion
  /\ Locked
  /\ HasObject
  /\ PositionInList
  /\ Copied
  /\ PositionStable
  /\ InversionsNoticed

-------------------------------------------------------------------------------
\* What the actions of a caller have in common.

\* A caller moves nobody's program counter or position but its own.
LEMMA OthersStay ==
  ASSUME TypeOK, NEW c \in Callers,
         \/ \E o \in Objects, lowest \in BOOLEAN : Begin(c, o, lowest)
         \/ LockRead(c) \/ TryWrite(c) \/ Sort(c) \/ ProbeMissed(c) \/ Match(c)
         \/ CountHit(c) \/ ReadHits(c) \/ CompareHits(c) \/ UnlockMatch(c)
         \/ Remember(c) \/ Return(c)
         \/ Snapshot(c) \/ Copy(c) \/ SnapshotEnd(c)
  PROVE  \A d \in Callers : d # c =>
           /\ pc'[d] = pc[d]
           /\ matchObject'[d] = matchObject[d]
           /\ matchedRegex'[d] = matchedRegex[d]
           /\ matchingSortedIndex'[d] = matchingSortedIndex[d]
           /\ readHits'[d] = readHits[d]
           /\ copied'[d] = copied[d]
BY DEF Begin, LockRead, TryWrite, Sort, ProbeMissed, Match, CountHit, ReadHits,
       CompareHits, UnlockMatch, Remember, Return, Snapshot, Copy, SnapshotEnd,
       Goto, TypeOK, call, found

\* The list changes under the write lock only.
LEMMA ListStays ==
  ASSUME NEW c \in Callers,
         \/ \E o \in Objects, lowest \in BOOLEAN : Begin(c, o, lowest)
         \/ LockRead(c) \/ TryWrite(c) \/ ProbeMissed(c) \/ Match(c)
         \/ CountHit(c) \/ ReadHits(c) \/ CompareHits(c) \/ UnlockMatch(c)
         \/ Remember(c) \/ Return(c)
         \/ Snapshot(c) \/ Copy(c) \/ SnapshotEnd(c)
  PROVE  UNCHANGED sortedElements
BY DEF Begin, LockRead, TryWrite, ProbeMissed, Match, CountHit, ReadHits,
       CompareHits, UnlockMatch, Remember, Return, Snapshot, Copy, SnapshotEnd,
       collection

\* The sorted list holds every element, at its position.
LEMMA ListIsPermutation ==
  ASSUME TypeOK
  PROVE  /\ sortedElements \in [Indexes -> Indexes]
         /\ \A e \in Indexes : /\ PositionOf(e) \in Indexes
                               /\ sortedElements[PositionOf(e)] = e
<1>1. /\ sortedElements \in [Indexes -> Indexes]
      /\ \A e \in Indexes : \E i \in Indexes : sortedElements[i] = e
  BY Fun_BijectionProperties DEF TypeOK
<1>. QED  BY <1>1 DEF PositionOf

\* An answer of the evaluation is a regex of the collection that matches.
LEMMA AnswersMatch ==
  ASSUME NEW o \in Objects, NEW lowestOfArray,
         NEW a \in Answers(Matching[o], lowestOfArray, Threads, None), a # None
  PROVE  a \in Matching[o] /\ a \in Indexes
BY SortedRegexCollectionAssumption DEF Answers, Stored

-------------------------------------------------------------------------------
\* The inductive invariant.

\* A step keeps the type invariant.
LEMMA TypeOKStep ==
  ASSUME TypeOK, HasObject, PositionInList, [Next]_vars
  PROVE  TypeOK'
<1>. Count \in Nat \ {0} /\ Buckets \in Nat \ {0} /\ Hash \in [Objects -> Nat]
  BY SortedRegexCollectionAssumption
<1>1. ASSUME NEW c \in Callers,
             \/ \E o \in Objects, lowest \in BOOLEAN : Begin(c, o, lowest)
             \/ LockRead(c) \/ TryWrite(c) \/ ProbeMissed(c) \/ UnlockMatch(c)
             \/ Return(c) \/ Snapshot(c)
      PROVE  TypeOK'
  <2>1. CASE \E o \in Objects, lowest \in BOOLEAN : Begin(c, o, lowest)
    BY <2>1 DEF Begin, Goto, TypeOK, Pcs, collection, lock, call, found
  <2>2. CASE LockRead(c) \/ TryWrite(c) \/ Snapshot(c)
    BY <2>2 DEF LockRead, TryWrite, Snapshot, Goto, TypeOK, Pcs, collection, lock,
                call, found
  <2>3. CASE ProbeMissed(c) \/ UnlockMatch(c)
    BY <2>3 DEF ProbeMissed, UnlockMatch, Goto, Unlock, TypeOK, Pcs, collection,
                call, found
  <2>4. CASE Return(c)
    BY <2>4 DEF Return, Goto, TypeOK, Pcs, collection, lock, call, found
  <2>. QED  BY <1>1, <2>1, <2>2, <2>3, <2>4
<1>2. ASSUME NEW c \in Callers, Sort(c)
      PROVE  TypeOK'
  BY <1>2 DEF Sort, Goto, TypeOK, Pcs, lock, call, found
<1>3. ASSUME NEW c \in Callers, Match(c)
      PROVE  TypeOK'
  <2>1. matchObject[c] \in Objects
    BY <1>3 DEF Match, HasObject
  <2>2. PICK a \in Answers(Matching[matchObject[c]], lowestIndex[c] /\ IsArray, Threads, None) :
          /\ matchedRegex' = [matchedRegex EXCEPT ![c] = a]
          /\ IF a = None
             THEN Goto(c, "probe", "unlock") /\ UNCHANGED matchingSortedIndex
             ELSE /\ Goto(c, "probe", "count")
                  /\ matchingSortedIndex' = [matchingSortedIndex EXCEPT ![c] = PositionOf(a)]
    BY <1>3 DEF Match
  <2>3. a # None => a \in Indexes
    BY <2>1, AnswersMatch
  <2>4. a # None => PositionOf(a) \in 0 .. Count
    BY <2>3, ListIsPermutation DEF Indexes
  <2>5. UNCHANGED <<collection, lock, missedObjectHashCache, call, readHits, copied>>
    BY <1>3 DEF Match
  <2>. QED
    BY <2>2, <2>3, <2>4, <2>5 DEF Goto, TypeOK, Pcs, collection, lock, call
<1>4. ASSUME NEW c \in Callers, CountHit(c)
      PROVE  TypeOK'
  <2>1. sortedElements[matchingSortedIndex[c]] \in Indexes
    BY <1>4, ListIsPermutation DEF CountHit, Goto, PositionInList
  <2>. QED  BY <1>4, <2>1 DEF CountHit, Goto, TypeOK, Pcs, lock, call, found
<1>5. ASSUME NEW c \in Callers, ReadHits(c) \/ CompareHits(c)
      PROVE  TypeOK'
  <2>1. hitCount[sortedElements[matchingSortedIndex[c]]] \in Nat
    BY <1>5, ListIsPermutation DEF ReadHits, CompareHits, Goto, PositionInList, TypeOK
  <2>. QED
    BY <1>5, <2>1 DEF ReadHits, CompareHits, Goto, TypeOK, Pcs, collection, lock,
                      call, found
<1>6. ASSUME NEW c \in Callers, Remember(c)
      PROVE  TypeOK'
  <2>1. Hash[matchObject[c]] \in Nat
    BY <1>6 DEF Remember, Goto, HasObject
  <2>. QED
    BY <1>6, <2>1 DEF Remember, Goto, TypeOK, Pcs, collection, lock, call, found
<1>7. ASSUME NEW c \in Callers, Copy(c) \/ SnapshotEnd(c)
      PROVE  TypeOK'
  <2>1. matchingSortedIndex[c] \in 0 .. Count
    BY DEF TypeOK
  <2>2. Copy(c) => sortedElements[matchingSortedIndex[c]] \in Indexes
    <3>1. Copy(c) => matchingSortedIndex[c] < Count
      BY DEF Copy
    <3>2. matchingSortedIndex[c] < Count => matchingSortedIndex[c] \in Indexes
      BY <2>1, SortedRegexCollectionAssumption DEF Indexes
    <3>. QED  BY <3>1, <3>2, ListIsPermutation
  <2>3. CASE Copy(c)
    <3>1. \E p \in 0 .. Count :
            matchingSortedIndex' = [matchingSortedIndex EXCEPT ![c] = p]
      <4>1. matchingSortedIndex[c] < Count
        BY <2>3 DEF Copy
      <4>2. matchingSortedIndex[c] + 1 \in 0 .. Count
        BY <2>1, <4>1, SortedRegexCollectionAssumption
      <4>. QED  BY <2>3, <4>2 DEF Copy
    <3>2. \E i \in Indexes : copied' = [copied EXCEPT ![c] = @ \cup {i}]
      BY <2>2, <2>3 DEF Copy
    <3>. QED  BY <2>3, <3>1, <3>2 DEF Copy, TypeOK, collection, lock, call
  <2>4. CASE SnapshotEnd(c)
    BY <2>4 DEF SnapshotEnd, Goto, Unlock, TypeOK, Pcs, collection, call
  <2>. QED  BY <1>7, <2>3, <2>4
<1>8. CASE UNCHANGED vars
  BY <1>8 DEF TypeOK, vars, collection, lock, call, found
<1>. QED  BY <1>1, <1>2, <1>3, <1>4, <1>5, <1>6, <1>7, <1>8 DEF Next

\* A step keeps the lock's promise, and who holds it.
LEMMA LockStep ==
  ASSUME TypeOK, Exclusion, Locked, [Next]_vars
  PROVE  Exclusion' /\ Locked'
<1>. None \notin Callers
  BY SortedRegexCollectionAssumption
<1>1. ASSUME NEW c \in Callers, LockRead(c) \/ TryWrite(c) \/ Snapshot(c)
      PROVE  Exclusion' /\ Locked'
  BY <1>1 DEF LockRead, TryWrite, Snapshot, Goto, Exclusion, Locked, TypeOK
<1>2. ASSUME NEW c \in Callers, ProbeMissed(c) \/ UnlockMatch(c) \/ SnapshotEnd(c)
      PROVE  Exclusion' /\ Locked'
  <2>1. Unlock(c) /\ pc'[c] \in {"remember", "return", "idle"}
    BY <1>2 DEF ProbeMissed, UnlockMatch, SnapshotEnd, Goto, TypeOK
  <2>2. \A d \in Callers : d # c =>
          /\ pc'[d] = pc[d]
          /\ d \in readers' <=> d \in readers
          /\ writer' = d <=> writer = d
    BY <1>2, <2>1, OthersStay DEF Unlock
  <2>3. Exclusion'
    BY <2>1 DEF Unlock, Exclusion
  <2>. QED  BY <2>1, <2>2, <2>3 DEF Locked
<1>3. ASSUME NEW c \in Callers,
             \/ \E o \in Objects, lowest \in BOOLEAN : Begin(c, o, lowest)
             \/ Sort(c) \/ Match(c) \/ CountHit(c) \/ ReadHits(c) \/ CompareHits(c)
             \/ Remember(c) \/ Return(c) \/ Copy(c)
      PROVE  Exclusion' /\ Locked'
  <2>1. UNCHANGED lock
    BY <1>3 DEF Begin, Sort, Match, CountHit, ReadHits, CompareHits, Remember,
                Return, Copy
  <2>2. \A d \in Callers : \/ pc'[d] = pc[d]
                           \/ pc'[d] \in {"tryWrite", "read", "return", "idle"}
                           \/ pc[d] = "sort" /\ pc'[d] = "probe"
                           \/ /\ pc[d] \in {"probe", "count", "readHits", "compare"}
                              /\ pc'[d] \in {"count", "readHits", "compare", "unlock"}
    BY <1>3 DEF Begin, Sort, Match, CountHit, ReadHits, CompareHits, Remember,
                Return, Copy, Goto, TypeOK
  <2>. QED  BY <2>1, <2>2 DEF lock, Exclusion, Locked
<1>4. CASE UNCHANGED vars
  BY <1>4 DEF vars, lock, Exclusion, Locked
<1>. QED  BY <1>1, <1>2, <1>3, <1>4 DEF Next

\* What a match does to its caller: an answer, and its position in the list.
LEMMA MatchResult ==
  ASSUME TypeOK, HasObject, NEW c \in Callers, Match(c)
  PROVE  /\ pc[c] = "probe"
         /\ UNCHANGED <<collection, matchObject, copied>>
         /\ \/ pc'[c] = "unlock"
            \/ /\ pc'[c] = "count"
               /\ matchedRegex'[c] \in Matching[matchObject[c]]
               /\ matchingSortedIndex'[c] \in Indexes
               /\ sortedElements[matchingSortedIndex'[c]] = matchedRegex'[c]
<1>1. matchObject[c] \in Objects
  BY DEF Match, HasObject
<1>2. PICK a \in Answers(Matching[matchObject[c]], lowestIndex[c] /\ IsArray, Threads, None) :
        /\ matchedRegex' = [matchedRegex EXCEPT ![c] = a]
        /\ IF a = None
           THEN Goto(c, "probe", "unlock") /\ UNCHANGED matchingSortedIndex
           ELSE /\ Goto(c, "probe", "count")
                /\ matchingSortedIndex' = [matchingSortedIndex EXCEPT ![c] = PositionOf(a)]
  BY DEF Match
<1>3. a # None => a \in Indexes /\ a \in Matching[matchObject[c]]
  BY <1>1, AnswersMatch
<1>4. pc[c] = "probe" /\ UNCHANGED <<collection, matchObject, copied>>
  BY DEF Match, call
<1>5. CASE a = None
  BY <1>2, <1>4, <1>5 DEF Goto, TypeOK
<1>6. CASE a # None
  <2>1. /\ matchedRegex'[c] = a
        /\ matchingSortedIndex'[c] = PositionOf(a)
        /\ pc'[c] = "count"
    BY <1>2, <1>6 DEF Goto, TypeOK
  <2>. QED  BY <1>3, <1>4, <1>6, <2>1, ListIsPermutation
<1>. QED  BY <1>5, <1>6

\* A step keeps a call its object.
LEMMA HasObjectStep ==
  ASSUME TypeOK, HasObject, [Next]_vars
  PROVE  HasObject'
<1>1. ASSUME NEW c \in Callers,
             \/ LockRead(c) \/ TryWrite(c) \/ Sort(c) \/ ProbeMissed(c) \/ Match(c)
             \/ CountHit(c) \/ ReadHits(c) \/ CompareHits(c) \/ UnlockMatch(c)
             \/ Remember(c)
      PROVE  HasObject'
  BY <1>1 DEF LockRead, TryWrite, Sort, ProbeMissed, Match, CountHit, ReadHits,
              CompareHits, UnlockMatch, Remember, Goto, HasObject, TypeOK, call
<1>2. ASSUME NEW c \in Callers,
             \/ \E o \in Objects, lowest \in BOOLEAN : Begin(c, o, lowest)
             \/ Return(c) \/ Snapshot(c) \/ Copy(c) \/ SnapshotEnd(c)
      PROVE  HasObject'
  BY <1>2 DEF Begin, Return, Snapshot, Copy, SnapshotEnd, Goto, HasObject, TypeOK, call
<1>3. CASE UNCHANGED vars
  BY <1>3 DEF vars, call, HasObject
<1>. QED  BY <1>1, <1>2, <1>3 DEF Next

\* A step keeps the position inside the list.
LEMMA PositionInListStep ==
  ASSUME TypeOK, HasObject, PositionInList, [Next]_vars
  PROVE  PositionInList'
<1>1. ASSUME NEW c \in Callers, Match(c)
      PROVE  PositionInList'
  BY <1>1, MatchResult, OthersStay DEF PositionInList
<1>2. ASSUME NEW c \in Callers, CountHit(c) \/ ReadHits(c)
      PROVE  PositionInList'
  BY <1>2 DEF CountHit, ReadHits, Goto, PositionInList, TypeOK, found
<1>3. ASSUME NEW c \in Callers,
             \/ \E o \in Objects, lowest \in BOOLEAN : Begin(c, o, lowest)
             \/ LockRead(c) \/ TryWrite(c) \/ Sort(c) \/ ProbeMissed(c)
             \/ CompareHits(c) \/ UnlockMatch(c) \/ Remember(c) \/ Return(c)
             \/ Snapshot(c) \/ Copy(c) \/ SnapshotEnd(c)
      PROVE  PositionInList'
  <2>1. pc'[c] \notin {"count", "readHits", "compare"}
    BY <1>3 DEF Begin, LockRead, TryWrite, Sort, ProbeMissed, CompareHits,
                UnlockMatch, Remember, Return, Snapshot, Copy, SnapshotEnd, Goto,
                TypeOK
  <2>. QED  BY <1>3, <2>1, OthersStay DEF PositionInList
<1>4. CASE UNCHANGED vars
  BY <1>4 DEF vars, found, PositionInList
<1>. QED  BY <1>1, <1>2, <1>3, <1>4 DEF Next

\* Nobody sorts the list while another caller holds the lock.
LEMMA SortsAlone ==
  ASSUME Exclusion, Locked, NEW c \in Callers, Sort(c)
  PROVE  \A d \in Callers : d # c =>
           pc[d] \notin {"probe", "count", "readHits", "compare", "unlock", "snapshot"}
BY SortedRegexCollectionAssumption DEF Exclusion, Locked, Sort, Goto

\* A step keeps the regex at its position, since only the one writer sorts.
LEMMA PositionStableStep ==
  ASSUME TypeOK, Exclusion, Locked, HasObject, PositionStable, [Next]_vars
  PROVE  PositionStable'
<1>1. ASSUME NEW c \in Callers, Sort(c)
      PROVE  PositionStable'
  <2>1. pc'[c] = "probe"
    BY <1>1 DEF Sort, Goto, TypeOK
  <2>. QED  BY <1>1, <2>1, SortsAlone, OthersStay DEF PositionStable
<1>2. ASSUME NEW c \in Callers, Match(c)
      PROVE  PositionStable'
  BY <1>2, MatchResult, OthersStay DEF PositionStable, collection
<1>3. ASSUME NEW c \in Callers, CountHit(c) \/ ReadHits(c)
      PROVE  PositionStable'
  <2>1. /\ pc[c] \in {"count", "readHits"}
        /\ UNCHANGED <<call, found, sortedElements>>
    BY <1>3 DEF CountHit, ReadHits, Goto, collection
  <2>. QED  BY <1>3, <2>1, OthersStay DEF PositionStable, call, found
<1>4. ASSUME NEW c \in Callers,
             \/ \E o \in Objects, lowest \in BOOLEAN : Begin(c, o, lowest)
             \/ LockRead(c) \/ TryWrite(c) \/ ProbeMissed(c) \/ CompareHits(c)
             \/ UnlockMatch(c) \/ Remember(c) \/ Return(c)
             \/ Snapshot(c) \/ Copy(c) \/ SnapshotEnd(c)
      PROVE  PositionStable'
  <2>1. pc'[c] \notin {"count", "readHits", "compare"}
    BY <1>4 DEF Begin, LockRead, TryWrite, ProbeMissed, CompareHits, UnlockMatch,
                Remember, Return, Snapshot, Copy, SnapshotEnd, Goto, TypeOK
  <2>. QED  BY <1>4, <2>1, OthersStay, ListStays DEF PositionStable
<1>5. CASE UNCHANGED vars
  BY <1>5 DEF vars, call, found, collection, PositionStable
<1>. QED  BY <1>1, <1>2, <1>3, <1>4, <1>5 DEF Next

\* A step keeps the copied elements those before the index.
LEMMA CopiedStep ==
  ASSUME TypeOK, Exclusion, Locked, HasObject, Copied, [Next]_vars
  PROVE  Copied'
<1>1. ASSUME NEW c \in Callers, Sort(c)
      PROVE  Copied'
  <2>1. pc[c] = "sort" /\ pc'[c] = "probe" /\ UNCHANGED copied
    BY <1>1 DEF Sort, Goto, TypeOK
  <2>. QED  BY <1>1, <2>1, SortsAlone, OthersStay DEF Copied
<1>2. ASSUME NEW c \in Callers, Match(c)
      PROVE  Copied'
  <2>1. /\ pc[c] = "probe" /\ pc'[c] \in {"count", "unlock"}
        /\ UNCHANGED <<sortedElements, copied>>
    BY <1>2, MatchResult DEF collection
  <2>. QED  BY <1>2, <2>1, OthersStay DEF Copied
<1>3. ASSUME NEW c \in Callers, Copy(c)
      PROVE  Copied'
  <2>1. matchingSortedIndex[c] \in 0 .. Count
    BY DEF TypeOK
  <2>2. /\ pc'[c] = "snapshot" /\ pc[c] = "snapshot"
        /\ copied'[c] = copied[c] \cup {sortedElements[matchingSortedIndex[c]]}
        /\ matchingSortedIndex'[c] = matchingSortedIndex[c] + 1
    BY <1>3 DEF Copy, TypeOK
  <2>3. 0 .. (matchingSortedIndex'[c] - 1) =
          0 .. (matchingSortedIndex[c] - 1) \cup {matchingSortedIndex[c]}
    BY <2>1, <2>2
  <2>4. copied'[c] = {sortedElements[i] : i \in 0 .. (matchingSortedIndex'[c] - 1)}
    BY <2>2, <2>3 DEF Copied
  <2>. QED  BY <1>3, <2>2, <2>4, OthersStay, ListStays DEF Copied
<1>4. ASSUME NEW c \in Callers,
             \/ \E o \in Objects, lowest \in BOOLEAN : Begin(c, o, lowest)
             \/ LockRead(c) \/ TryWrite(c) \/ ProbeMissed(c)
             \/ CountHit(c) \/ ReadHits(c) \/ CompareHits(c) \/ UnlockMatch(c)
             \/ Remember(c)
      PROVE  Copied'
  <2>1. /\ pc[c] # "snapshot" /\ pc'[c] \notin {"idle", "snapshot"}
        /\ UNCHANGED copied
    BY <1>4 DEF Begin, LockRead, TryWrite, ProbeMissed, CountHit, ReadHits,
                CompareHits, UnlockMatch, Remember, Goto, TypeOK
  <2>. QED  BY <1>4, <2>1, OthersStay, ListStays DEF Copied
<1>5. ASSUME NEW c \in Callers, Return(c) \/ SnapshotEnd(c)
      PROVE  Copied'
  <2>1. /\ pc'[c] = "idle" /\ matchingSortedIndex'[c] = 0 /\ copied'[c] = {}
    BY <1>5 DEF Return, SnapshotEnd, Goto, TypeOK, Copied
  <2>. QED  BY <1>5, <2>1, OthersStay, ListStays DEF Copied
<1>6. ASSUME NEW c \in Callers, Snapshot(c)
      PROVE  Copied'
  <2>1. /\ pc'[c] = "snapshot" /\ matchingSortedIndex'[c] = 0 /\ copied'[c] = {}
    BY <1>6 DEF Snapshot, Goto, TypeOK, Copied, found
  <2>2. 0 .. (0 - 1) = {}
    OBVIOUS
  <2>3. copied'[c] = {sortedElements'[i] : i \in 0 .. (matchingSortedIndex'[c] - 1)}
    BY <2>1, <2>2
  <2>. QED  BY <1>6, <2>1, <2>3, OthersStay, ListStays DEF Copied
<1>7. CASE UNCHANGED vars
  BY <1>7 DEF vars, found, collection, Copied
<1>. QED  BY <1>1, <1>2, <1>3, <1>4, <1>5, <1>6, <1>7 DEF Next

\* A step keeps the request to sort wherever the list is out of order.
LEMMA InversionsStep ==
  ASSUME TypeOK, PositionInList, HasObject, InversionsNoticed, [Next]_vars
  PROVE  InversionsNoticed'
<1>. /\ sortedElements \in [Indexes -> Indexes]
     /\ hitCount \in [Indexes -> Nat]
     /\ \A i, j \in Indexes : sortedElements[i] = sortedElements[j] => i = j
  BY Fun_BijectionProperties DEF TypeOK
<1>. \A i \in Indexes \ {0} : i - 1 \in Indexes /\ i - 1 < i
  BY SortedRegexCollectionAssumption DEF Indexes
<1>1. ASSUME NEW c \in Callers, Sort(c)
      PROVE  InversionsNoticed'
  <2>1. ASSUME NEW i \in Indexes \ {0}
        PROVE  hitCount[sortedElements'[i - 1]] >= hitCount[sortedElements'[i]]
    <3>1. /\ sortedElements' \in [Indexes -> Indexes]
          /\ SortedBefore(sortedElements'[i - 1], sortedElements'[i])
      BY <1>1, Fun_BijectionProperties DEF Sort
    <3>. QED  BY <3>1 DEF SortedBefore
  <2>2. \A i \in Indexes : sortedElements'[i] \in Indexes
    BY <1>1, Fun_BijectionProperties DEF Sort
  <2>3. UNCHANGED hitCount
    BY <1>1 DEF Sort
  <2>. QED  BY <2>1, <2>2, <2>3 DEF InversionsNoticed
<1>2. ASSUME NEW c \in Callers, CountHit(c)
      PROVE  InversionsNoticed'
  <2>. DEFINE hit == sortedElements[matchingSortedIndex[c]]
  <2>1. /\ UNCHANGED <<sortedElements, resortRequired, matchingSortedIndex, readHits>>
        /\ matchingSortedIndex[c] \in Indexes /\ pc[c] = "count"
        /\ hitCount' = [hitCount EXCEPT ![hit] = @ + 1]
        /\ pc' = [pc EXCEPT ![c] = IF matchingSortedIndex[c] > 0 THEN "readHits" ELSE "unlock"]
    BY <1>2 DEF CountHit, Goto, PositionInList, found
  <2>2. ASSUME NEW i \in Indexes \ {0}, ~resortRequired,
               hitCount'[sortedElements[i]] > hitCount'[sortedElements[i - 1]]
        PROVE  \E d \in Callers : WillCompare(d, i)'
    <3>1. CASE i = matchingSortedIndex[c]
      <4>1. i > 0
        BY SortedRegexCollectionAssumption DEF Indexes
      <4>2. WillCompare(c, i)'
        BY <2>1, <3>1, <4>1 DEF WillCompare, TypeOK
      <4>. QED  BY <4>2
    <3>2. CASE i # matchingSortedIndex[c]
      <4>1. hitCount'[sortedElements[i]] = hitCount[sortedElements[i]]
        BY <2>1, <3>2
      <4>2. hitCount'[sortedElements[i - 1]] >= hitCount[sortedElements[i - 1]]
        BY <2>1
      <4>3. hitCount[sortedElements[i]] > hitCount[sortedElements[i - 1]]
        <5>1. /\ hitCount[sortedElements[i - 1]] \in Nat /\ hitCount[sortedElements[i]] \in Nat
              /\ hitCount'[sortedElements[i - 1]] \in Nat
          BY <2>1
        <5>. QED  BY <2>2, <4>1, <4>2, <5>1
      <4>4. PICK d \in Callers : WillCompare(d, i)
        BY <2>2, <4>3 DEF InversionsNoticed
      <4>5. d # c
        BY <2>1, <4>4 DEF WillCompare
      <4>. QED  BY <2>1, <4>1, <4>4, <4>5 DEF WillCompare, TypeOK
    <3>. QED  BY <3>1, <3>2
  <2>. QED  BY <2>1, <2>2 DEF InversionsNoticed
<1>3. ASSUME NEW c \in Callers, CompareHits(c)
      PROVE  InversionsNoticed'
  <2>1. /\ UNCHANGED <<sortedElements, hitCount, matchingSortedIndex, readHits>>
        /\ resortRequired' = (resortRequired \/ readHits[c] >
                                hitCount[sortedElements[matchingSortedIndex[c] - 1]])
        /\ pc[c] = "compare"
    BY <1>3 DEF CompareHits, Goto, found
  <2>2. ASSUME NEW i \in Indexes \ {0}, ~resortRequired',
               hitCount[sortedElements[i]] > hitCount[sortedElements[i - 1]]
        PROVE  \E d \in Callers : WillCompare(d, i)'
    <3>1. ~resortRequired
          /\ ~(readHits[c] > hitCount[sortedElements[matchingSortedIndex[c] - 1]])
      BY <2>1, <2>2
    <3>2. PICK d \in Callers : WillCompare(d, i)
      BY <2>2, <3>1 DEF InversionsNoticed
    <3>3. d # c
      BY <2>1, <2>2, <3>1, <3>2 DEF WillCompare
    <3>. QED  BY <1>3, <2>1, <3>2, <3>3, OthersStay DEF WillCompare
  <2>. QED  BY <2>1, <2>2 DEF InversionsNoticed
<1>4. ASSUME NEW c \in Callers, ReadHits(c)
      PROVE  InversionsNoticed'
  <2>1. /\ UNCHANGED <<collection, matchingSortedIndex>>
        /\ pc[c] = "readHits" /\ pc'[c] = "compare"
        /\ readHits'[c] = hitCount[sortedElements[matchingSortedIndex[c]]]
    BY <1>4 DEF ReadHits, Goto, found, TypeOK
  <2>2. \A d \in Callers, i \in Indexes : WillCompare(d, i) => WillCompare(d, i)'
    BY <1>4, <2>1, OthersStay DEF WillCompare, collection
  <2>. QED  BY <2>1, <2>2 DEF InversionsNoticed, collection
<1>5. ASSUME NEW c \in Callers,
             \/ \E o \in Objects, lowest \in BOOLEAN : Begin(c, o, lowest)
             \/ LockRead(c) \/ TryWrite(c) \/ ProbeMissed(c) \/ Match(c)
             \/ UnlockMatch(c) \/ Remember(c) \/ Return(c)
             \/ Snapshot(c) \/ Copy(c) \/ SnapshotEnd(c)
      PROVE  InversionsNoticed'
  <2>1. UNCHANGED collection /\ pc[c] \notin {"readHits", "compare"}
    BY <1>5 DEF Begin, LockRead, TryWrite, ProbeMissed, Match, UnlockMatch,
                Remember, Return, Snapshot, Copy, SnapshotEnd, Goto
  <2>2. \A d \in Callers, i \in Indexes : WillCompare(d, i) => WillCompare(d, i)'
    BY <1>5, <2>1, OthersStay DEF WillCompare, collection
  <2>. QED  BY <2>1, <2>2 DEF InversionsNoticed, collection
<1>6. CASE UNCHANGED vars
  BY <1>6 DEF vars, collection, found, InversionsNoticed, WillCompare
<1>. QED  BY <1>1, <1>2, <1>3, <1>4, <1>5, <1>6 DEF Next

\* An object has a bucket.
LEMMA BucketExists ==
  ASSUME NEW o \in Objects
  PROVE  Bucket(o) \in 0 .. (Buckets - 1)
<1>1. Hash[o] \in Nat /\ Buckets \in Nat \ {0}
  BY SortedRegexCollectionAssumption
<1>. QED  BY <1>1 DEF Bucket

\* A step keeps the misses justified.
LEMMA MissesStep ==
  ASSUME TypeOK, HasObject, PositionStable, MissesJustified, [Next]_vars
  PROVE  MissesJustified'
<1>1. ASSUME NEW c \in Callers, Match(c)
      PROVE  MissesJustified'
  <2>1. /\ matchObject[c] \in Objects /\ lowestIndex[c] \in BOOLEAN
        /\ UNCHANGED <<missedObjectHashCache, matchObject>>
    BY <1>1 DEF Match, HasObject, TypeOK, call
  <2>2. PICK a \in Answers(Matching[matchObject[c]], lowestIndex[c] /\ IsArray, Threads, None) :
          /\ matchedRegex' = [matchedRegex EXCEPT ![c] = a]
          /\ IF a = None
             THEN Goto(c, "probe", "unlock") /\ UNCHANGED matchingSortedIndex
             ELSE /\ Goto(c, "probe", "count")
                  /\ matchingSortedIndex' = [matchingSortedIndex EXCEPT ![c] = PositionOf(a)]
    BY <1>1 DEF Match
  <2>3. matchedRegex'[c] = a /\ pc'[c] \in {"unlock", "count"}
    BY <2>2 DEF Goto, TypeOK
  <2>4. a = None => Justified(Hash[matchObject[c]])
    BY <2>1, <2>2 DEF Justified, Refusable
  <2>. QED  BY <1>1, <2>1, <2>3, <2>4, OthersStay DEF MissesJustified
<1>2. ASSUME NEW c \in Callers, CountHit(c) \/ ReadHits(c) \/ CompareHits(c)
      PROVE  MissesJustified'
  <2>1. /\ pc[c] \in {"count", "readHits", "compare"}
        /\ pc'[c] \in {"readHits", "compare", "unlock"}
        /\ UNCHANGED <<missedObjectHashCache, matchObject, matchedRegex>>
    BY <1>2 DEF CountHit, ReadHits, CompareHits, Goto, TypeOK, call, found
  <2>2. matchedRegex[c] # None
    <3>1. matchObject[c] \in Objects /\ matchedRegex[c] \in Matching[matchObject[c]]
      BY <2>1 DEF HasObject, PositionStable
    <3>. QED  BY <3>1, SortedRegexCollectionAssumption DEF Indexes
  <2>. QED  BY <1>2, <2>1, <2>2, OthersStay DEF MissesJustified
<1>3. ASSUME NEW c \in Callers, ProbeMissed(c)
      PROVE  MissesJustified'
  <2>1. /\ pc[c] = "probe" /\ pc'[c] = "return"
        /\ missedObjectHashCache[Bucket(matchObject[c])] = Hash[matchObject[c]]
        /\ UNCHANGED <<missedObjectHashCache, matchObject, matchedRegex>>
    BY <1>3 DEF ProbeMissed, Goto, TypeOK, call, found
  <2>2. Bucket(matchObject[c]) \in 0 .. (Buckets - 1)
    BY <2>1, BucketExists DEF HasObject
  <2>3. Justified(Hash[matchObject[c]])
    BY <2>1, <2>2 DEF MissesJustified
  <2>. QED  BY <1>3, <2>1, <2>3, OthersStay DEF MissesJustified
<1>4. ASSUME NEW c \in Callers, UnlockMatch(c)
      PROVE  MissesJustified'
  <2>1. /\ pc[c] = "unlock"
        /\ pc'[c] = IF matchedRegex[c] = None THEN "remember" ELSE "return"
        /\ UNCHANGED <<missedObjectHashCache, matchObject, matchedRegex>>
    BY <1>4 DEF UnlockMatch, Goto, TypeOK, call, found
  <2>. QED  BY <1>4, <2>1, OthersStay DEF MissesJustified
<1>5. ASSUME NEW c \in Callers, Remember(c)
      PROVE  MissesJustified'
  <2>1. /\ pc[c] = "remember" /\ pc'[c] = "return"
        /\ missedObjectHashCache' =
             [missedObjectHashCache EXCEPT ![Bucket(matchObject[c])] = Hash[matchObject[c]]]
        /\ UNCHANGED <<matchObject, matchedRegex>>
    BY <1>5 DEF Remember, Goto, TypeOK, call, found
  <2>2. Justified(Hash[matchObject[c]])
    BY <2>1 DEF MissesJustified
  <2>3. \A b \in 0 .. (Buckets - 1) :
          missedObjectHashCache'[b] \in {missedObjectHashCache[b], Hash[matchObject[c]]}
    BY <2>1 DEF TypeOK
  <2>4. \A b \in 0 .. (Buckets - 1) : Justified(missedObjectHashCache'[b])
    BY <2>2, <2>3 DEF MissesJustified
  <2>. QED  BY <1>5, <2>1, <2>2, <2>4, OthersStay DEF MissesJustified, Justified, Refusable
<1>6. ASSUME NEW c \in Callers,
             \/ \E o \in Objects, lowest \in BOOLEAN : Begin(c, o, lowest)
             \/ LockRead(c) \/ TryWrite(c) \/ Sort(c) \/ Return(c)
             \/ Snapshot(c) \/ Copy(c) \/ SnapshotEnd(c)
      PROVE  MissesJustified'
  <2>1. /\ pc'[c] \notin {"unlock", "remember", "return"}
        /\ UNCHANGED missedObjectHashCache
    BY <1>6 DEF Begin, LockRead, TryWrite, Sort, Return, Snapshot, Copy, SnapshotEnd, Goto, TypeOK
  <2>. QED  BY <1>6, <2>1, OthersStay DEF MissesJustified
<1>7. CASE UNCHANGED vars
  BY <1>7 DEF vars, call, found, MissesJustified
<1>. QED  BY <1>1, <1>2, <1>3, <1>4, <1>5, <1>6, <1>7 DEF Next

-------------------------------------------------------------------------------
\* The invariant holds at the start: the list is the collection, unsorted.
LEMMA InitIInv == Init => IInv
<1>. SUFFICES ASSUME Init
              PROVE  IInv
  OBVIOUS
<1>. /\ Count \in Nat \ {0} /\ Buckets \in Nat \ {0} /\ IsArray \in BOOLEAN
     /\ None \notin Callers
  BY SortedRegexCollectionAssumption
<1>1. sortedElements \in Bijection(Indexes, Indexes)
  <2>1. /\ sortedElements \in [Indexes -> Indexes]
        /\ \A i \in Indexes : sortedElements[i] = i
    BY DEF Init
  <2>. QED  BY <2>1, Fun_IsBij
<1>2. TypeOK
  <2>1. /\ hitCount \in [Indexes -> Nat] /\ resortRequired \in BOOLEAN
        /\ readers \subseteq Callers /\ writer \in Callers \cup {None}
        /\ missedObjectHashCache \in [0 .. (Buckets - 1) -> Nat]
    BY DEF Init
  <2>2. /\ pc \in [Callers -> Pcs]
        /\ matchObject \in [Callers -> Objects \cup {None}]
        /\ matchedRegex \in [Callers -> Indexes \cup {None}]
        /\ readHits \in [Callers -> Nat]
    BY DEF Init, Pcs
  <2>3. lowestIndex \in [Callers -> BOOLEAN]
    BY DEF Init
  <2>4. matchingSortedIndex \in [Callers -> 0 .. Count]
    BY DEF Init
  <2>5. copied \in [Callers -> SUBSET Indexes]
    BY DEF Init
  <2>. QED  BY <1>1, <2>1, <2>2, <2>3, <2>4, <2>5 DEF TypeOK
<1>3. Exclusion /\ Locked /\ HasObject /\ PositionInList /\ Copied /\ PositionStable
  BY DEF Init, Exclusion, Locked, HasObject, PositionInList, Copied, PositionStable
<1>4. InversionsNoticed
  <2>. SUFFICES ASSUME NEW i \in Indexes \ {0}
                PROVE  hitCount[sortedElements[i]] = hitCount[sortedElements[i - 1]]
    BY DEF InversionsNoticed, Init, Indexes
  <2>1. i - 1 \in Indexes
    BY DEF Indexes
  <2>. QED  BY <2>1 DEF Init
<1>5. MissesJustified
  BY DEF Init, MissesJustified, Justified
<1>. QED  BY <1>2, <1>3, <1>4, <1>5 DEF IInv

\* Every step of a caller preserves the invariant.
LEMMA NextIInv == IInv /\ [Next]_vars => IInv'
BY TypeOKStep, LockStep, HasObjectStep, PositionInListStep, CopiedStep,
   PositionStableStep, InversionsStep, MissesStep DEF IInv

\* The invariant holds in every reachable state.
LEMMA Invariance == Spec => []IInv
BY InitIInv, NextIInv, PTL DEF Spec

\* Sorting, counting and copying keep every variable in its type: the sorted
\* list is always a permutation of the collection.
THEOREM TypeCorrect == Spec => []TypeOK
<1>1. IInv => TypeOK
  BY DEF IInv
<1>. QED  BY Invariance, <1>1, PTL

\* A position found under the read lock stays the position of the regex that
\* matched until the lock is released (lines 316 to 343 and 278 to 283).
THEOREM PositionsStay == Spec => []PositionStable
<1>1. IInv => PositionStable
  BY DEF IInv
<1>. QED  BY Invariance, <1>1, PTL

\* The test of line 340 loses no inversion, although callers count hits
\* between its two reads: the list is in order, or will be sorted.
THEOREM NoInversionLost == Spec => []InversionsNoticed
<1>1. IInv => InversionsNoticed
  BY DEF IInv
<1>. QED  BY Invariance, <1>1, PTL

\* NULL comes from the evaluation of an object with the same hash, or the hash is
\* 0, although the miss cache is written with no lock held (lines 299 and 347).
THEOREM NullsJustified == Spec => []NullJustified
<1>1. IInv => NullJustified
  BY DEF IInv, MissesJustified, NullJustified, Justified
<1>. QED  BY Invariance, <1>1, PTL

\* A snapshot of the list has every regex of the collection (lines 86 to 105).
THEOREM SnapshotsComplete == Spec => []SnapshotComplete
<1>1. IInv => SnapshotComplete
  <2>. SUFFICES ASSUME IInv, NEW c \in Callers, pc[c] = "snapshot",
                       matchingSortedIndex[c] = Count
                PROVE  copied[c] = Indexes
    BY DEF SnapshotComplete
  <2>1. copied[c] = {sortedElements[i] : i \in Indexes}
    BY DEF IInv, Copied, Indexes
  <2>2. /\ \A i \in Indexes : sortedElements[i] \in Indexes
        /\ \A e \in Indexes : \E i \in Indexes : sortedElements[i] = e
    BY Fun_BijectionProperties DEF IInv, TypeOK
  <2>. QED  BY <2>1, <2>2
<1>. QED  BY Invariance, <1>1, PTL
===============================================================================
