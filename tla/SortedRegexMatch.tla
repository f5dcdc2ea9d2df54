--------------------------- MODULE SortedRegexMatch ---------------------------
(***************************************************************************)
(* threadMatchEntryFunction (RKSortedRegexCollection.m): one evaluation of *)
(* a collection's regexes against one object, by all the threads that the  *)
(* pool starts on it.  The threads share an RKSortedRegexCollection-       *)
(* ThreadMatchState with no lock: they claim positions of the sorted list  *)
(* with an atomic increment and publish with compare and swap.             *)
(*                                                                         *)
(* Each action reads or writes the shared state once, or reads words that  *)
(* only ever change in one direction, in which case reading them together  *)
(* gives the same outcomes.                                                *)
(***************************************************************************)
EXTENDS RegexAnswers, Functions

CONSTANTS
  Workers,  \* the threads that may take part
  Count,    \* collectionCount
  None      \* NULL

Indexes == 0 .. (Count - 1)

ASSUME SortedRegexMatchAssumption ==
  /\ IsFiniteSet(Workers)
  /\ Count \in Nat \ {0}
  /\ None \notin Int

VARIABLES
  \* the evaluation's inputs
  sortedElements,     \* position in the sorted list -> index in the collection
  matches,            \* the indexes of the regexes that match the object
  findLowestIndex,
  isArray,            \* collectionType is RKArrayCollection
  \* RKSortedRegexCollectionThreadMatchState
  atSortedIndex,
  highestMatchingArrayIndex,  \* Count stands for RKUIntegerMax
  finished,
  matchedRegex, matchingSortedIndex, matchingCollectionIndex,
  \* each thread's locals
  pc,
  threadAtSortedIndex,
  expected            \* the first argument of the CAS of line 384

inputs == <<sortedElements, matches, findLowestIndex, isArray>>
answer == <<matchedRegex, matchingSortedIndex, matchingCollectionIndex>>
vars == <<inputs, answer, atSortedIndex, highestMatchingArrayIndex, finished,
          pc, threadAtSortedIndex, expected>>

LowestOfArray == findLowestIndex /\ isArray

\* threadMatchingCollectionIndex: it also identifies threadAtRegex.
At(w) == sortedElements[threadAtSortedIndex[w]]

Init ==
  /\ sortedElements \in Bijection(Indexes, Indexes)
  /\ matches \in SUBSET Indexes
  /\ findLowestIndex \in BOOLEAN
  /\ isArray \in BOOLEAN
  /\ atSortedIndex = 0
  /\ highestMatchingArrayIndex = Count
  /\ finished = FALSE
  /\ matchedRegex = None
  /\ matchingSortedIndex = 0
  /\ matchingCollectionIndex = 0
  /\ pc = [w \in Workers |-> "idle"]
  /\ threadAtSortedIndex = [w \in Workers |-> None]
  /\ expected = [w \in Workers |-> None]

Goto(w, from, to) == pc[w] = from /\ pc' = [pc EXCEPT ![w] = to]

\* The pool starts the function on a thread until the first thread returns
\* from it; a thread that finds the work done goes to the last test at once.
Enter(w) ==
  /\ \A v \in Workers : pc[v] # "returned"
  /\ Goto(w, "idle", IF ~finished /\ matchedRegex = None /\ atSortedIndex < Count
                     THEN "claim" ELSE "leave")
  /\ UNCHANGED <<inputs, answer, atSortedIndex, highestMatchingArrayIndex,
                 finished, threadAtSortedIndex, expected>>

\* Mutant: the increment is not atomic with the use of its result.
ClaimShared(w) ==
  /\ Goto(w, "claim", "test")
  /\ threadAtSortedIndex' = [threadAtSortedIndex EXCEPT ![w] = atSortedIndex]
  /\ atSortedIndex' =
       atSortedIndex + (IF \E v \in Workers \ {w} : pc[v] = "claim" THEN 0 ELSE 1)
  /\ UNCHANGED <<inputs, answer, highestMatchingArrayIndex, finished, expected>>

\* RKAtomicIncrementIntegerBarrier(&atSortedIndex) - 1
Claim(w) ==
  /\ Goto(w, "claim", "test")
  /\ threadAtSortedIndex' = [threadAtSortedIndex EXCEPT ![w] = atSortedIndex]
  /\ atSortedIndex' = atSortedIndex + 1
  /\ UNCHANGED <<inputs, answer, highestMatchingArrayIndex, finished, expected>>

\* The condition of the for loop.
Test(w) ==
  /\ Goto(w, "test", IF /\ ~finished
                        /\ matchedRegex = None
                        /\ threadAtSortedIndex[w] < Count
                        /\ highestMatchingArrayIndex > 0
                     THEN "compare" ELSE "leave")
  /\ UNCHANGED <<inputs, answer, atSortedIndex, highestMatchingArrayIndex,
                 finished, threadAtSortedIndex, expected>>

\* Skip a regex that comes after a match in the array, or match it: it is the
\* answer, it lowers highestMatchingArrayIndex, or it does not match.
Compare(w) ==
  /\ Goto(w, "compare",
       IF At(w) > highestMatchingArrayIndex THEN "claim"
       ELSE IF At(w) \notin matches THEN "miss"
       ELSE IF ~LowestOfArray \/ At(w) = 0 THEN "found"
       ELSE "lower")
  /\ UNCHANGED <<inputs, answer, atSortedIndex, highestMatchingArrayIndex,
                 finished, threadAtSortedIndex, expected>>

\* Mutant: the answer is stored without comparing.
FoundOverwrite(w) ==
  /\ Goto(w, "found", "store")
  /\ matchedRegex' = At(w)
  /\ UNCHANGED <<inputs, atSortedIndex, highestMatchingArrayIndex, finished,
                 matchingSortedIndex, matchingCollectionIndex,
                 threadAtSortedIndex, expected>>

\* RKAtomicCompareAndSwapPtr(NULL, threadAtRegex, &matchedRegex)
Found(w) ==
  /\ IF matchedRegex = None
     THEN Goto(w, "found", "store") /\ matchedRegex' = At(w)
     ELSE Goto(w, "found", "leave") /\ UNCHANGED matchedRegex
  /\ UNCHANGED <<inputs, atSortedIndex, highestMatchingArrayIndex, finished,
                 matchingSortedIndex, matchingCollectionIndex,
                 threadAtSortedIndex, expected>>

\* The rest of the answer, which only the caller reads, and finished.
Store(w) ==
  /\ Goto(w, "store", "leave")
  /\ matchingSortedIndex' = threadAtSortedIndex[w]
  /\ matchingCollectionIndex' = At(w)
  /\ finished' = TRUE
  /\ UNCHANGED <<inputs, atSortedIndex, highestMatchingArrayIndex, matchedRegex,
                 threadAtSortedIndex, expected>>

\* while(highest > mine && CAS(highest, mine, &highest) == NO): the word is
\* read for the comparison and again as what the CAS expects.
LowerTest(w) ==
  /\ Goto(w, "lower", IF highestMatchingArrayIndex > At(w) THEN "read" ELSE "claim")
  /\ UNCHANGED <<inputs, answer, atSortedIndex, highestMatchingArrayIndex,
                 finished, threadAtSortedIndex, expected>>

LowerRead(w) ==
  /\ Goto(w, "read", "swap")
  /\ expected' = [expected EXCEPT ![w] = highestMatchingArrayIndex]
  /\ UNCHANGED <<inputs, answer, atSortedIndex, highestMatchingArrayIndex,
                 finished, threadAtSortedIndex>>

\* Mutants: the position in the sorted list is stored, without comparing; the
\* loop retries after a success.
LowerSwapBlind(w) ==
  /\ Goto(w, "swap", "claim")
  /\ highestMatchingArrayIndex' = threadAtSortedIndex[w]
  /\ expected' = [expected EXCEPT ![w] = None]
  /\ UNCHANGED <<inputs, answer, atSortedIndex, finished, threadAtSortedIndex>>

LowerSwapSpin(w) ==
  /\ Goto(w, "swap", "read")
  /\ highestMatchingArrayIndex' =
       IF highestMatchingArrayIndex = expected[w] THEN At(w) ELSE highestMatchingArrayIndex
  /\ expected' = [expected EXCEPT ![w] = None]
  /\ UNCHANGED <<inputs, answer, atSortedIndex, finished, threadAtSortedIndex>>

LowerSwap(w) ==
  /\ IF highestMatchingArrayIndex = expected[w]
     THEN Goto(w, "swap", "claim") /\ highestMatchingArrayIndex' = At(w)
     ELSE Goto(w, "swap", "lower") /\ UNCHANGED highestMatchingArrayIndex
  /\ expected' = [expected EXCEPT ![w] = None]
  /\ UNCHANGED <<inputs, answer, atSortedIndex, finished, threadAtSortedIndex>>

\* Mutant: the loop ends one position early.
MissEarly(w) ==
  /\ IF atSortedIndex >= Count - 1
     THEN Goto(w, "miss", "leave") /\ finished' = TRUE
     ELSE Goto(w, "miss", "claim") /\ UNCHANGED finished
  /\ UNCHANGED <<inputs, answer, atSortedIndex, highestMatchingArrayIndex,
                 threadAtSortedIndex, expected>>

\* No match: with every position claimed the evaluation is finished, whatever
\* the other threads have in hand.
Miss(w) ==
  /\ IF atSortedIndex >= Count
     THEN Goto(w, "miss", "leave") /\ finished' = TRUE
     ELSE Goto(w, "miss", "claim") /\ UNCHANGED finished
  /\ UNCHANGED <<inputs, answer, atSortedIndex, highestMatchingArrayIndex,
                 threadAtSortedIndex, expected>>

\* The last test, and return(1).
Leave(w) ==
  /\ Goto(w, "leave", "returned")
  /\ finished' = (finished \/ matchedRegex # None \/ atSortedIndex >= Count)
  /\ UNCHANGED <<inputs, answer, atSortedIndex, highestMatchingArrayIndex,
                 threadAtSortedIndex, expected>>

Step(w) ==
  \/ Claim(w) \/ Test(w) \/ Compare(w) \/ Found(w) \/ Store(w)
  \/ LowerTest(w) \/ LowerRead(w) \/ LowerSwap(w) \/ Miss(w) \/ Leave(w)

Next == \E w \in Workers : Enter(w) \/ Step(w)

Spec == Init /\ [][Next]_vars

\* The pool starts the function on some thread (ImplementsParallelCall of
\* RKThreadPool), and a thread inside it goes on.
FairSpec ==
  /\ Spec
  /\ WF_vars(\E w \in Workers : Enter(w))
  /\ \A w \in Workers : WF_vars(Step(w))

-------------------------------------------------------------------------------
\* Properties.

Pcs == {"idle", "claim", "test", "compare", "found", "store",
        "lower", "read", "swap", "miss", "leave", "returned"}

\* Every variable holds a value of its type (RKSortedRegexCollection.h, 78 to
\* 90, and the locals of the function).
TypeOK ==
  /\ sortedElements \in Bijection(Indexes, Indexes)
  /\ matches \subseteq Indexes
  /\ findLowestIndex \in BOOLEAN /\ isArray \in BOOLEAN /\ finished \in BOOLEAN
  /\ atSortedIndex \in Nat
  /\ highestMatchingArrayIndex \in 0 .. Count
  /\ matchedRegex \in Indexes \cup {None}
  /\ matchingSortedIndex \in Indexes /\ matchingCollectionIndex \in Indexes
  /\ pc \in [Workers -> Pcs]
  /\ threadAtSortedIndex \in [Workers -> Nat \cup {None}]
  /\ expected \in [Workers -> 0 .. Count \cup {None}]

Joined == {w \in Workers : pc[w] # "idle"}

\* The function has returned on every thread it was started on: the caller of
\* the pool goes on.
Done == Joined # {} /\ \A w \in Joined : pc[w] = "returned"

\* The caller is given one of the answers of RegexAnswers: a regex that
\* matches, and NULL only if fewer regexes could be stored than threads took
\* part.  In particular a single thread never misses.
AnswerAllowed ==
  Done => matchedRegex \in Answers(matches, LowestOfArray, Cardinality(Joined), None)

\* The caller counts a hit for the regex it returns: when the function has
\* returned everywhere the three words of the answer describe one regex.
AnswerConsistent ==
  (Done /\ matchedRegex # None) =>
    /\ matchingCollectionIndex = matchedRegex
    /\ sortedElements[matchingSortedIndex] = matchedRegex

\* No position of the list is evaluated by two threads.
ClaimedOnce ==
  \A v, w \in Joined :
    (v # w /\ threadAtSortedIndex[v] # None) =>
      threadAtSortedIndex[v] # threadAtSortedIndex[w]

\* highestMatchingArrayIndex, by which regexes are skipped, is the index of a
\* regex that matches: a regex is skipped only for one before it in the array.
SkipsAreSound ==
  highestMatchingArrayIndex # Count =>
    LowestOfArray /\ highestMatchingArrayIndex \in matches

\* The function returns on every thread (the CAS loop of line 384 ends).
EvaluationEnds == <>Done

\* NSObject.h, line 84: "Returns YES if the receiver is matched by any regular
\* expression in regexArray, NO otherwise."
AnyFound ==
  (Done /\ ~LowestOfArray /\ matches # {}) => matchedRegex # None

\* NSObject.h, line 108: "Returns the first regular expression from regexArray
\* that matches the receiver, or NULL if the receiver is not matched by any of
\* the regular expressions".  It does not hold: line 376 publishes a match of an
\* array only if it is the one at index 0.
FirstFound ==
  (Done /\ LowestOfArray /\ matches # {}) =>
    matchedRegex # None /\ \A m \in matches : matchedRegex <= m
===============================================================================
