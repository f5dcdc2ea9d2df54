------------------------ MODULE RKSortedRegexCollection ------------------------
(***************************************************************************)
(* -[RKSortedRegexCollection regexMatching:lowestIndexInCollection:] and   *)
(* sortedArrayForSortedRegexCollection: of one collection, by concurrent   *)
(* callers.  The list of regexes is kept sorted by hit count under a       *)
(* readers/writer lock: matching needs the read lock only, a caller that   *)
(* finds resortRequired set sorts if it gets the write lock at once.       *)
(* Objects that nothing matched are remembered by hash, with no lock.      *)
(*                                                                         *)
(* The evaluation of the regexes itself is SortedRegexMatch; here it is    *)
(* one of the answers that RegexAnswers allows.                            *)
(***************************************************************************)
EXTENDS RegexAnswers, Functions

CONSTANTS
  Callers,   \* the threads that use the collection
  Count,     \* collectionCount
  IsArray,   \* collectionType is RKArrayCollection
  Threads,   \* how many threads may evaluate at once
  Objects,   \* the objects to match
  Hash,      \* [matchObject hash]
  Matching,  \* the indexes of the regexes that match an object
  Buckets,   \* RK_SORTED_REGEX_COLLECTION_CACHE_BUCKETS
  MaxHits,   \* bound: no new call for an object that matches beyond it
  None       \* NULL

Indexes == 0 .. (Count - 1)

ASSUME SortedRegexCollectionAssumption ==
  /\ Count \in Nat \ {0}
  /\ IsArray \in BOOLEAN
  /\ Threads \in Nat \ {0}
  /\ Hash \in [Objects -> Nat]
  /\ Matching \in [Objects -> SUBSET Indexes]
  /\ Buckets \in Nat \ {0}
  /\ MaxHits \in Nat
  /\ None \notin Int \cup Callers

VARIABLES
  sortedElements,  \* position in the sorted list -> index in the collection
  hitCount,        \* elements[i].hitCount
  resortRequired,
  readers, writer, \* who holds readWriteLock
  missedObjectHashCache,
  \* each caller's locals
  pc,
  matchObject,
  lowestIndex,
  matchedRegex,        \* threadMatchState's answer
  matchingSortedIndex, \* and its position; the loop index of a snapshot
  readHits,            \* the first hit count read on line 340
  copied               \* the regexes a snapshot has read

collection == <<sortedElements, hitCount, resortRequired>>
lock == <<readers, writer>>
call == <<matchObject, lowestIndex>>
found == <<matchedRegex, matchingSortedIndex>>
vars == <<collection, lock, missedObjectHashCache, pc, call, found, readHits, copied>>

Bucket(o) == Hash[o] % Buckets

Init ==
  /\ sortedElements = [i \in Indexes |-> i]
  /\ hitCount = [i \in Indexes |-> 0]
  /\ resortRequired = FALSE
  /\ readers = {}
  /\ writer = None
  /\ missedObjectHashCache = [b \in 0 .. (Buckets - 1) |-> 0]
  /\ pc = [c \in Callers |-> "idle"]
  /\ matchObject = [c \in Callers |-> None]
  /\ lowestIndex = [c \in Callers |-> FALSE]
  /\ matchedRegex = [c \in Callers |-> None]
  /\ matchingSortedIndex = [c \in Callers |-> 0]
  /\ readHits = [c \in Callers |-> 0]
  /\ copied = [c \in Callers |-> {}]

Goto(c, from, to) == pc[c] = from /\ pc' = [pc EXCEPT ![c] = to]

-------------------------------------------------------------------------------
\* regexMatching:lowestIndexInCollection:

\* resortRequired is read with no lock held.
Begin(c, o, lowest) ==
  /\ Matching[o] # {} => \A e \in Indexes : hitCount[e] < MaxHits
  /\ Goto(c, "idle", IF resortRequired THEN "tryWrite" ELSE "read")
  /\ matchObject' = [matchObject EXCEPT ![c] = o]
  /\ lowestIndex' = [lowestIndex EXCEPT ![c] = lowest]
  /\ UNCHANGED <<collection, lock, missedObjectHashCache, found, readHits, copied>>

\* RKLockForReading
LockRead(c) ==
  /\ writer = None
  /\ Goto(c, "read", "probe")
  /\ readers' = readers \cup {c}
  /\ UNCHANGED <<collection, writer, missedObjectHashCache, call, found,
                 readHits, copied>>

\* Mutant: sort whichever lock was acquired.
TryWriteSortAnyway(c) ==
  /\ Goto(c, "tryWrite", "sort")
  /\ IF writer = None /\ readers = {}
     THEN writer' = c /\ UNCHANGED readers
     ELSE writer = None /\ readers' = readers \cup {c} /\ UNCHANGED writer
  /\ UNCHANGED <<collection, missedObjectHashCache, call, found, readHits, copied>>

\* RKLockTryForWritingThenForReading: the write lock if nobody holds the lock,
\* else wait for the read lock, and leave the sorting to a later call.
TryWrite(c) ==
  /\ IF writer = None /\ readers = {}
     THEN Goto(c, "tryWrite", "sort") /\ writer' = c
     ELSE Goto(c, "tryWrite", "read") /\ UNCHANGED writer
  /\ UNCHANGED <<collection, readers, missedObjectHashCache, call, found,
                 readHits, copied>>

PositionOf(e) == CHOOSE i \in Indexes : sortedElements[i] = e

\* sortRegexCollectionItems, and mergesort is stable.
SortedBefore(d, e) ==
  \/ hitCount[d] > hitCount[e]
  \/ hitCount[d] = hitCount[e] /\ PositionOf(d) < PositionOf(e)

\* The write lock is kept for the match that follows.
Sort(c) ==
  /\ Goto(c, "sort", "probe")
  /\ sortedElements' \in
       {s \in Bijection(Indexes, Indexes) :
          \A i, j \in Indexes : i < j => SortedBefore(s[i], s[j])}
  /\ resortRequired' = FALSE
  /\ UNCHANGED <<hitCount, lock, missedObjectHashCache, call, found, readHits, copied>>

Unlock(c) ==
  /\ readers' = readers \ {c}
  /\ writer' = IF writer = c THEN None ELSE writer

\* Mutant: any object whose bucket is in use is taken for missed.
ProbeBucket(c) ==
  /\ Goto(c, "probe", "return")
  /\ missedObjectHashCache[Bucket(matchObject[c])] # 0
  /\ Unlock(c)
  /\ UNCHANGED <<collection, missedObjectHashCache, call, found, readHits, copied>>

\* The object's hash is in its bucket: unlock and return NULL.
ProbeMissed(c) ==
  /\ Goto(c, "probe", "return")
  /\ missedObjectHashCache[Bucket(matchObject[c])] = Hash[matchObject[c]]
  /\ Unlock(c)
  /\ UNCHANGED <<collection, missedObjectHashCache, call, found, readHits, copied>>

\* Otherwise the pool evaluates the regexes.
Match(c) ==
  /\ pc[c] = "probe"
  /\ missedObjectHashCache[Bucket(matchObject[c])] # Hash[matchObject[c]]
  /\ \E a \in Answers(Matching[matchObject[c]], lowestIndex[c] /\ IsArray, Threads, None) :
       /\ matchedRegex' = [matchedRegex EXCEPT ![c] = a]
       /\ IF a = None
          THEN Goto(c, "probe", "unlock") /\ UNCHANGED matchingSortedIndex
          ELSE /\ Goto(c, "probe", "count")
               /\ matchingSortedIndex' = [matchingSortedIndex EXCEPT ![c] = PositionOf(a)]
  /\ UNCHANGED <<collection, lock, missedObjectHashCache, call, readHits, copied>>

CountHit(c) ==
  /\ Goto(c, "count", IF matchingSortedIndex[c] > 0 THEN "readHits" ELSE "unlock")
  /\ hitCount' = [hitCount EXCEPT ![sortedElements[matchingSortedIndex[c]]] = @ + 1]
  /\ UNCHANGED <<sortedElements, resortRequired, lock, missedObjectHashCache,
                 call, found, readHits, copied>>

\* The two hit counts compared are read one after the other; other callers
\* that hold the read lock may count hits in between.
ReadHits(c) ==
  /\ Goto(c, "readHits", "compare")
  /\ readHits' = [readHits EXCEPT ![c] = hitCount[sortedElements[matchingSortedIndex[c]]]]
  /\ UNCHANGED <<collection, lock, missedObjectHashCache, call, found, copied>>

\* Mutant: the element is compared with the one behind it.
CompareHitsBehind(c) ==
  LET i == matchingSortedIndex[c] IN
  /\ Goto(c, "compare", "unlock")
  /\ resortRequired' = IF i < Count - 1 /\ readHits[c] < hitCount[sortedElements[i + 1]]
                       THEN TRUE ELSE resortRequired
  /\ UNCHANGED <<sortedElements, hitCount, lock, missedObjectHashCache, call,
                 found, readHits, copied>>

CompareHits(c) ==
  /\ Goto(c, "compare", "unlock")
  /\ resortRequired' =
       (resortRequired \/ readHits[c] > hitCount[sortedElements[matchingSortedIndex[c] - 1]])
  /\ UNCHANGED <<sortedElements, hitCount, lock, missedObjectHashCache, call,
                 found, readHits, copied>>

UnlockMatch(c) ==
  /\ Goto(c, "unlock", IF matchedRegex[c] = None THEN "remember" ELSE "return")
  /\ Unlock(c)
  /\ UNCHANGED <<collection, missedObjectHashCache, call, found, readHits, copied>>

\* The hash of an object nothing matched is written with no lock held.
Remember(c) ==
  /\ Goto(c, "remember", "return")
  /\ missedObjectHashCache' =
       [missedObjectHashCache EXCEPT ![Bucket(matchObject[c])] = Hash[matchObject[c]]]
  /\ UNCHANGED <<collection, lock, call, found, readHits, copied>>

Return(c) ==
  /\ Goto(c, "return", "idle")
  /\ matchObject' = [matchObject EXCEPT ![c] = None]
  /\ lowestIndex' = [lowestIndex EXCEPT ![c] = FALSE]
  /\ matchedRegex' = [matchedRegex EXCEPT ![c] = None]
  /\ matchingSortedIndex' = [matchingSortedIndex EXCEPT ![c] = 0]
  /\ readHits' = [readHits EXCEPT ![c] = 0]
  /\ UNCHANGED <<collection, lock, missedObjectHashCache, copied>>

-------------------------------------------------------------------------------
\* sortedArrayForSortedRegexCollection:, under the read lock.

\* Mutant: the list is copied with no lock held.
SnapshotUnlocked(c) ==
  /\ Goto(c, "idle", "snapshot")
  /\ UNCHANGED <<collection, lock, missedObjectHashCache, call, found, readHits, copied>>

Snapshot(c) ==
  /\ writer = None
  /\ Goto(c, "idle", "snapshot")
  /\ readers' = readers \cup {c}
  /\ UNCHANGED <<collection, writer, missedObjectHashCache, call, found,
                 readHits, copied>>

Copy(c) ==
  LET i == matchingSortedIndex[c] IN
  /\ pc[c] = "snapshot"
  /\ i < Count
  /\ copied' = [copied EXCEPT ![c] = @ \cup {sortedElements[i]}]
  /\ matchingSortedIndex' = [matchingSortedIndex EXCEPT ![c] = i + 1]
  /\ UNCHANGED <<collection, lock, missedObjectHashCache, pc, call,
                 matchedRegex, readHits>>

SnapshotEnd(c) ==
  /\ matchingSortedIndex[c] = Count
  /\ Goto(c, "snapshot", "idle")
  /\ Unlock(c)
  /\ copied' = [copied EXCEPT ![c] = {}]
  /\ matchingSortedIndex' = [matchingSortedIndex EXCEPT ![c] = 0]
  /\ UNCHANGED <<collection, missedObjectHashCache, call, matchedRegex, readHits>>

-------------------------------------------------------------------------------
Next ==
  \E c \in Callers :
    \/ \E o \in Objects, lowest \in BOOLEAN : Begin(c, o, lowest)
    \/ LockRead(c) \/ TryWrite(c) \/ Sort(c) \/ ProbeMissed(c) \/ Match(c)
    \/ CountHit(c) \/ ReadHits(c) \/ CompareHits(c) \/ UnlockMatch(c)
    \/ Remember(c) \/ Return(c)
    \/ Snapshot(c) \/ Copy(c) \/ SnapshotEnd(c)

Spec == Init /\ [][Next]_vars

-------------------------------------------------------------------------------
\* Properties.

Pcs == {"idle", "read", "tryWrite", "sort", "probe", "count", "readHits",
        "compare", "unlock", "remember", "return", "snapshot"}

\* Every variable holds a value of its type; the sorted list is a permutation
\* of the collection, so no regex is ever dropped from or doubled in it.
TypeOK ==
  /\ sortedElements \in Bijection(Indexes, Indexes)
  /\ hitCount \in [Indexes -> Nat]
  /\ resortRequired \in BOOLEAN
  /\ readers \subseteq Callers
  /\ writer \in Callers \cup {None}
  /\ missedObjectHashCache \in [0 .. (Buckets - 1) -> Nat]
  /\ pc \in [Callers -> Pcs]
  /\ matchObject \in [Callers -> Objects \cup {None}]
  /\ lowestIndex \in [Callers -> BOOLEAN]
  /\ matchedRegex \in [Callers -> Indexes \cup {None}]
  /\ matchingSortedIndex \in [Callers -> 0 .. Count]
  /\ readHits \in [Callers -> Nat]
  /\ copied \in [Callers -> SUBSET Indexes]

\* A caller that is going to look at the pair of elements i - 1 and i.
WillCompare(c, i) ==
  /\ matchingSortedIndex[c] = i
  /\ \/ pc[c] = "readHits"
     \/ pc[c] = "compare" /\ readHits[c] = hitCount[sortedElements[i]]

\* No inversion goes unnoticed: two neighbours of the sorted list are in the
\* order of their hit counts, or a resort is required, or a caller is about to
\* require it (lines 339 to 343, where hits are counted by several threads that
\* hold the read lock, and line 282, which takes the requirement back).
InversionsNoticed ==
  \A i \in Indexes \ {0} :
    hitCount[sortedElements[i]] > hitCount[sortedElements[i - 1]] =>
      resortRequired \/ \E c \in Callers : WillCompare(c, i)

\* The position of a match is still the position of the regex that matched
\* when its hit is counted and compared (lines 339 and 340): nobody sorts the
\* list under a caller that has matched and not yet unlocked.
PositionStable ==
  \A c \in Callers : pc[c] \in {"count", "readHits", "compare"} =>
    /\ sortedElements[matchingSortedIndex[c]] = matchedRegex[c]
    /\ matchedRegex[c] \in Matching[matchObject[c]]

\* A snapshot reads every regex once, although the list is resorted by others.
SnapshotComplete ==
  \A c \in Callers :
    (pc[c] = "snapshot" /\ matchingSortedIndex[c] = Count) => copied[c] = Indexes

\* Objects with this hash that an evaluation can answer with NULL.
Refusable(h) ==
  {o \in Objects : /\ Hash[o] = h
                   /\ \E lowest \in BOOLEAN :
                        None \in Answers(Matching[o], lowest /\ IsArray, Threads, None)}

\* NULL is returned only if the evaluation can answer it for an object of the
\* same hash, or the hash is the 0 that the cache is allocated with: entries
\* written with no lock are never torn between objects or between buckets.
NullJustified ==
  \A c \in Callers : (pc[c] = "return" /\ matchedRegex[c] = None) =>
    Hash[matchObject[c]] = 0 \/ Refusable(Hash[matchObject[c]]) # {}

\* ReleaseNotes.html, line 152: "The third technique caches the negative result
\* when a string is not matched by any of the regular expressions in the
\* collection": no call is answered from the cache for an object that matches.
MissesAreReal ==
  \A c \in Callers : (pc[c] = "return" /\ matchedRegex[c] = None) =>
    Matching[matchObject[c]] = {}
===============================================================================
