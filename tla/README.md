# RegexKit in TLA+

RegexKit is an Objective-C framework for regular expressions: it wraps PCRE for
Foundation's strings and collections, caches compiled regexes, and evaluates
collections of regexes, on several threads if the machine has them. This
project models the parts of it in which several threads share state: the thread
pool, the condition lock the pool is made of, the read/write lock, the sorted regex
collection with its parallel evaluation, and the object cache with the life cycle of the
regexes in it, and the default pool, which threads race to make and to replace. Of the sequential code it
models the two parts with the most state: the enumerator over the matches in a
string, with the range conversions and the capture name search it rests on, and search and replace. Paths below are relative to `src/Source/` (headers: `Headers/RegexKit/`).

## 1. The system

| Component | State it keeps | Operations | Talks to | Status |
|---|---|---|---|---|
| `RKThreadPool` | one pthread, condition lock and status word per worker; job slots (lock, function, argument, activeThreadsCount); liveThreads; threadPoolControl | `threadFunction:argument:`, `workerThreadStart:`, `reapThreads`, `wakeThread:`, `defaultThreadPool` | RKConditionLock, the caller's function and stack | modelled, the default pool in a module of its own |
| `RKConditionLock` (`RKLock.m`) | mutex, condition variable, conditionIsLocked, condition, owner | lock, try, lock until a date, lock when a condition holds, unlock with a condition | pthreads | modelled |
| `RKSortedRegexCollection`: evaluation | currentArrayIndex, highestMatchingArrayIndex, lowestMatchingSortedIndex, matchedRegex, finished: on the stack of the caller | `threadMatchEntryFunction:` on every thread | the pool, RKRegex | modelled |
| `RKSortedRegexCollection`: list, lock, miss cache | the elements sorted by hit count, resortRequired, missedObjHashCache, read/write lock | `regexMatching:lowestIndexInCollection:`, `sortedArrayForSortedRegexCollection:` (a snapshot of the list) | RKReadWriteLock, the evaluation | modelled |
| `RKCache` | a map from hashes to retained objects, two flags, hit and miss counters, read/write lock | lookup (retaining and autoreleasing or not), add, remove, clear, flags | RKReadWriteLock | modelled, except the counters |
| `RKRegex`, life cycle | a reference count, the hash | cached constructors, compile failure, release | RKCache | modelled as far as it meets the cache |
| `RKRegex`, matching | the capture name table, a buffer of ranges | ranges of a match, capture name lookup | PCRE | modelled as far as the enumerator uses it |
| `RKReadWriteLock` (`RKLock.m`) | a pthread lock, writeLocked, the bypass while there is one thread | lock and try for reading or writing, unlock | pthreads | modelled |
| `RKLock` (`RKLock.m`) | a pthread mutex with the same bypass | lock, unlock | pthreads | not modelled: the bypass is that of the read/write lock; its one user, the date conversion of `NSString.m`, is among the findings |
| Atomic operations | (one word of the caller) | increment, decrement, or, compare-and-swap | every component above | taken as atomic; FreeBSD's variants not modelled |
| `RKEnumerator` | a location, the ranges of the last match in bytes and in UTF-16 | init, next, current range, by number or name; strings | RKRegex, RKUnicode | modelled, except the strings |
| `RKUnicode` | none | range conversions between UTF-8 and UTF-16 | | modelled |
| NSString additions (`NSString.m`) | reference instructions, copy instructions, the case conversion in force and the text gathered for it | search and replace, captures | RKRegex | search and replace modelled |
| Collection additions | none | any, first, all, count over an array, set, dictionary | the sorted collection | thin callers |
| `RKPlaceholder`, `RKCoder` | a singleton | allocation, archiving | | not modelled |
| `RKAutoreleasedMemory`, `RKUtility`, `RKPrivate` | memory, strings | | | not modelled: nothing to check |
| Stack protector, DTrace probes, PCRE | | | | not modelled: instrumentation, external code |

How they interact. A caller asks a sorted collection which of its regexes
matches an object. The collection takes its read/write lock for reading, looks
in the miss cache, hands a function and a pointer *to its own stack frame* to the
default thread pool, and waits. The pool finds a free job slot, wakes workers
for it and waits for the slot to
complete; the calling thread runs the function itself only if it gets no slot or starts no worker. The threads in the function claim positions of the sorted list with
an atomic counter and publish what they find with compare-and-swaps. Afterwards
the collection counts the hit, notes whether the order by hits is now wrong,
and, if nothing matched, remembers the object's hash as a miss. Regexes and
collections are themselves shared through an `RKCache` under their hash, by
constructors that may run on any thread.

What is hard in it, and what makes each part correct:

* **Pool.** A caller's stack frame is shared with threads that may outlive the
  call: no worker may be in the function when the call returns, the function
  must have run to its end, the handshake that wakes a worker must not be
  answered by or for somebody else, the slot must be completed once, by the last
  to leave, and a call must return.
* **Condition lock.** One condition variable for waiters of different
  conditions, spurious wake-ups, deadlines and exceptions: the lock must exclude,
  must be granted only under the wanted condition, and must not sleep on while it
  is free under it.
* **Evaluation.** Five words written without a lock: the answer must be one that
  some regex justifies, its parts must belong together, no regex may be skipped
  unsoundly and every evaluation ends.
* **Collection.** A list that is re-sorted while positions of it are in use; a
  flag set by readers and cleared by the writer; a cache of negative answers
  written outside the lock.
* **Read/write lock.** A lock that does nothing while the program has one thread,
  and finds out on its own that it has more: the unlock must undo what the lock did,
  whenever the change comes; a writer must be alone, and must get in.
* **Enumerator.** Two sets of ranges in two units, one of them converted in place in
  a buffer of ints that is read as it is overwritten; ranges whose ends
  split a character or wrap around; names of which several captures may have one.
* **Default pool.** Threads replace a shared singleton without a lock, when the program becomes multithreaded: one pool
  must survive, not be replaced again by a thread with an old view of it, and not go away with the autorelease pool of
  the thread that made it.
* **Search and replace.** A small machine of case conversions that reaches across instructions, captures that may
  be empty, buffers that move from the stack to the heap when they are full, a loop that goes on where the
  last match ended.
* **Cache and regexes.** Reference counts across a lookup, an insertion that loses
  a race, removal, clearing and three constructor outcomes.

`PROJECT.json` lists the places where these bite, each at its line, with the
properties that watch it.

## 2. The modules

| Module | Models | Role |
|---|---|---|
| `ParallelCall` | what a call of `threadFunction:argument:` promises | abstract specification |
| `RKThreadPool` | `RKThreadPool.m` | implements `ParallelCall` |
| `RKThreadPoolProofs` | | theorems |
| `ConditionLock` | what the pool takes a condition lock to be | abstract specification |
| `LockCallers` | the threads that call the functions of a lock | extended by the two locks |
| `RKConditionLock` | `RKLock.m` 459-726 | implements `ConditionLock` |
| `ReadWriteLock` | what the cache and the collection take a read/write lock to be | abstract specification |
| `RKReadWriteLock` | `RKLock.m` 197-456 | implements `ReadWriteLock` |
| `LockProofs` | | theorems of both locks |
| `RegexAnswers` | which answers an evaluation may leave behind | contract, used on both sides |
| `SortedRegexMatch` | `threadMatchEntryFunction:` | proved to respect `RegexAnswers` |
| `SortedRegexMatchProofs` | | theorems |
| `RKSortedRegexCollection` | the rest of `RKSortedRegexCollection.m` | uses `RegexAnswers` for the evaluation |
| `RKSortedRegexCollectionProofs` | | theorems |
| `RKCache` | `RKCache.m` and `RKRegex.m`'s constructors | |
| `RKCacheProofs` | | theorems |
| `RKUnicode` | `RKUnicode.m` | operators: the two range conversions |
| `RKCaptureNames` | `RKRegex.m` 885-961 | operators: the search for a capture name |
| `RKEnumerator` | `RKEnumerator.m`, `getRanges:...` of `RKRegex.m` | uses both |
| `RKEnumeratorProofs` | | theorems |
| `RKDefaultThreadPool` | `defaultThreadPool` and the initialiser of `RKThreadPool.m` | |
| `DefaultPoolReferences` | who keeps the pools alive | properties of `RKDefaultThreadPool` |
| `RKDefaultThreadPoolProofs` | | theorems |
| `RKStringReplace` | search and replace of `NSString.m` | |
| `RKStringReplaceProofs` | | theorems |
| `ReplacedText` | what a reference string and its matches mean | reference definition, and the properties of `RKStringReplace` that need it |
| `MC...` | | constants, symmetry sets and the properties only runs look at |

The layers are composed by contract and not by one large product. The collection
hands its evaluation to the pool: `ParallelCall`, implemented by `RKThreadPool`,
says that the function runs to its end on the live argument on at least one
thread and on nobody's after the call; `SortedRegexMatch` says what the threads then leave
behind, and its invariant `AnswerAllowed` puts that into `RegexAnswers!Answers`,
the very set the collection's `Evaluate` step draws from. The pool uses its locks
as `ConditionLock` promises them, which `RKConditionLock` implements; the cache and the
collection use theirs as `ReadWriteLock` promises, which `RKReadWriteLock` implements.

### How the state and the actions correspond to the code

Every definition that stands for code names its function and lines in a comment
and in the `map` of `PROJECT.json`. Some correspondences need a word.

**`RKThreadPool`.** `callerPc` and `workerPc` are the program points between two
accesses of shared state. A section that takes a lock, writes, and unlocks
without reading anything unprotected in between is one action: taking a lock
commutes to the right of other threads' steps, releasing it to the left. Where the
code reads a word it does not protect, the read is a step of its own: the conditions of the two loops (231, 259) are
`SlotRound` and `SlotRoundLive`, and `StartRound`, `StartRoundLive` and `StartRoundControl`, and the look at
liveThreads after a handshake (268) is `Handshaken`. The job's condition at 262, read with only the worker's lock, is read
together with the writes that lock protects, and once more in `TakeJob` under its own. A try of a lock may fail even
when the lock is free; a timed lock may time out whenever its condition does not
hold at once. Both only add behaviours. Callers call again and again, and may call
in the middle of reaping. The function itself is two steps, entry and end.

**`RKConditionLock`.** Threads are in the function at the points where it touches
the mutex, the condition variable or the two words; unlock's two stores are seen
by the two unprotected reads of a try in either order. Signals are a broadcast
(the only strategy the code uses). A request is of a kind: wait, try, timed, or
`tryLock`, which is what `-tryLock` asks for and is treated as the code treats it, as a wait (section 4). A time limit may run
out at any moment. The two
exceptions (681, 715) leave the mutex locked, as in the code: after one of them
nothing is promised to the thread that raised and nobody else is sure to go on.

**`RKReadWriteLock`.** `Lock` begins a call with one of the strategies; the three looks
at globalIsMultiThreaded, at Cocoa's flag and the store of the first (336-339) are steps
of their own, as are the pthread calls and the store of writeLocked (440). A program begins
with one thread; `Detach` adds one at any moment at which no lock is owned under the bypass,
which the comment at 40-43 asks of the users. The pthread lock lets no reader in while a
writer is blocked in it. An unknown error of pthread is a free choice (`Spurious`, `GiveUp`), so is what
it does to a caller that unlocks what it does not hold. Left out: the counters of spins and of busy locks.

**`SortedRegexMatch`.** Each access to one of the shared words is a step, except
the loop test, whose words only ever change in one direction, so reading them
together is a behaviour in which they are read one after another. A worker may
join until the first thread has returned, as the pool allows. `Matches` and
`Order`, which regexes match and how the list is sorted, are chosen in `Init` and never change.

**`RKSortedRegexCollection`.** The sort is stable and by descending hits, chosen as
the one permutation that is both. The two hit counts of the inversion test (340) are
read one at a time. Left out: the bypass of the lock with a single thread,
the statistics counters, and the lock's preference for writers (the re-sort only tries to write).

**`RKCache`.** Keys are hashes, objects have a reference count and a list of
pending autoreleases per thread. The flags are read and then exchanged, so a setter may silently
lose, as in the code. A lock that could not be taken (282, 330) is a miss, or nothing added;
without it a removal, a clear or a snapshot (371, 216, 434) changes nothing. The hit and miss counters, the cache's own deallocation and `copyWithZone:` are left out.

**`RKEnumerator`.** A string is the sequence of the lengths of its characters in UTF-8, from which
offsets in bytes and in UTF-16 units follow. An action is a whole method: `InitWithRegex` or the exception
in its place, `NextMatch` and `NoMoreMatches` for `_updateToNextMatch` (every method that begins with
next), `Dealloc`. PCRE's answer is any match behind the start, with any captures inside it; the
buffer that it fills with pairs of ints is a function from words to numbers, and the conversion in place reads
and writes those words in the order of the code. The methods that begin with current change nothing and are
operators. Unsigned words wrap at `Word`. `RKUnicode` states where the walks stop and which offset they
note; `RKCaptureNames` has the binary search as a recursive function.

**`RKDefaultThreadPool`.** The method is the steps between two accesses of the three static words: the read of the pool
and of Cocoa's flag (91-92), the test (94), the exchange for NULL (95), reaping, the store of the flag, the
initialiser, the exchange of the new pool, the retain of whatever is the default pool by then, and the last read (110-113).
A pool is an address, which may be used again once its object is deallocated. Its two autoreleased
references and those NSThread has for its workers are counted; an autorelease pool drains between calls. A pool may fail to be made;
`allocationFailed` remembers it for the properties. Workers of a pool do not end: nobody reaps a pool that has any.

**`RKStringReplace`.** One action per token of the reference string (`Compile...`), per search (`Match`, `SearchEnds`,
`SearchFails`) and per reference instruction (`EndNothing` to `ChangeOp`, the branches of the loop at 899-985 in their order).
A character is where it comes from and the case it was given, so that a property tells
every character of the result apart. A reference string is a sequence of tokens; how `$1`, `${name}` and `\u` are spelt is
left out, what is done with them is not. What PCRE finds is any match in the rest of the range with any captures in the
string, the same again if the same search is repeated. `Grow` has the move of a full buffer from the stack to the heap as the
code does it, zeros first. `Done` stutters when the call has returned, and when the model cuts off
a loop that would find an empty match for ever (`Spinning`).

Atomic operations are one step each, as they are on Mac OS X, Solaris and with gcc.

## 3. What the runs check

States are distinct states on the configuration in the repository.

| Run | Instance | States | Question |
|---|---|---|---|
| `pool` | 2 callers, 2 workers, 2 slots, fair | 55,770 | does a call run its function on a live argument, keep the books and the handshake, and return? |
| `reap` | the same and 1 reaper | 329,762 | do the refinement and the assertions on slots and jobs survive workers being stopped at any moment? |
| `condlock` | 2 threads, 2 conditions, fair | 22,090 | is the lock of mutex and condition variable the abstract lock, with no wake-up lost, and do waiters for a condition that holds, tries and timed waits get on? |
| `rwlock` | 3 threads, every strategy, fair | 119,736 | is the lock with its bypass a read/write lock, also while the program becomes multithreaded, and does a writer get in? |
| `match` | 2 threads, 3 regexes, every set of matches and every order | 42,700 | is every outcome allowed, consistent and without an unsound skip, and does the evaluation end? |
| `sorted` | 2 callers, 3 regexes, 2 buckets, at most 2 hits each | 308,686 | do positions stay put, are inversions noticed, are snapshots complete and misses justified? |
| `cache` | 2 threads, 2 strings, 3 objects, 1 pending autorelease per thread | 385,072 | are counts exact, nothing dangling and nothing leaked? |
| `enumerator` | 4 strings of 2 characters, 12 ranges, 3 groups, 3 name tables | 10,287 | are both sets of ranges those of the match, do matches keep their order and range, and does a name find its capture? |
| `replace` | 285 calls: strings of up to 3 characters, reference strings of up to 10 tokens, 2 captures, 3 matches, 5 instructions on the stack, fair | 1,891,020 | is the result what the reference string means, how much does a buffer that grows lose, and does the loop end? |
| `defaultpool` | 3 threads, 4 addresses, 2 processors | 142,720 | is the pool with threads kept, no other reaped, and are the references exact? |

**Why the bounds are enough.** In the pool the cases are one caller or two for a
slot, one worker or two in a job, the last worker to leave or not, a caller that
finds its slot taken or not; two of each give all of them, and the
safety properties are proved for every number. In the condition lock one thread sleeps while the other changes
the lock at every point; safety and the refinement are proved for every number of threads, among them the two sleepers
with different conditions that a single signal would get wrong. In the
read/write lock two readers that take turns in front of a writer are what could starve it; safety is proved for all. In the
evaluation three regexes separate the first, the matched and the skipped one; with two
threads every pair of accesses races. In the collection three elements with up to two
hits give inversions at both neighbours, ties for the stable sort and a position
in use across a re-sort; of the objects two are matched by different regexes, and one, matched by none, shares a bucket of the miss cache with the second. In the cache three objects allow two cached and one losing the race
to add; with two threads everything that the read/write lock separates interleaves.
In the enumerator the four strings have characters of each length and pure ASCII; two characters
put one before, one inside or one behind a range; the ranges include ones that split a surrogate pair, ones that are too long and
ones whose end wraps around (`Word` is 64, `INT_MAX` 15); three groups leave a capture unset before and behind one that is set, and
the tables have a name that is a prefix of another, and a duplicate name at either end.
In search and replace every reference string of two tokens and every pair of case conversions around text and captures
occur, on two characters, where PCRE has every answer; a reference string of ten tokens
overflows the buffer of reference instructions, and two matches the one of copy instructions, whose size, 64 in the code, is a constant of the module. At
the default pool one thread replaces it, one has an old view of it and one uses it; four addresses are more than are
in use at once, so that one is free while another is used again.
`MaxHits`, `MaxPending`, `MaxMatches` and the size of `Objects` are guards that stop a counter or a
constructor; nothing else is cut off.

**Deadlock** is checked in `pool`, `rwlock`, `sorted`, `cache`, `defaultpool` and `replace` (where the end is a stuttering step). It is switched
off where the system does stop: an evaluation that has ended (`match`), an enumerator that is released (`enumerator`), a condition lock after
an exception (`condlock`), and a pool under a reaper, in which a
caller may wait for a worker that has left (`RKThreadPool.m` 265, 336; listed as a hazard).

**The main properties**

* `ImplementsParallelCall`: refinement; a call returns only after its function
  ran to the end and while nobody executes it.
* `ArgumentLifetime`: a worker executes only on the argument of a call that has
  not returned.
* `JobAccounting`: activeThreadsCount and the slot's condition agree with the
  workers actually in the job, in every interleaving of late starters and last leavers.
* `HandshakeInv`: the four-step handshake is between one caller and one worker. A queued slot, and a lock that is
  Wakeup or Awake, have a caller that waits there, no two callers wait for one worker, and the worker a caller waits for
  is on its way to unlock as Awake or has done so. With reapers the last part lets the worker have left instead, and
  the caller waits for ever (265, 336; a hazard).
* `AssertionsHold`: the assertions of lines 247, 250, 251, 289 and 351, with reapers. `AssertionsUnreaped`: those of 253
  and 288, which hold only without (section 4).
* `SomeCallReturns`, `CallReturns`: see fairness.
* `ImplementsConditionLock`, `NoLostWakeup`, `NotStalled`, `TryReturns`: as in the table. `TryReturns` speaks of
  the strategies that try or have a time limit, and so not of `-tryLock`.
* `ImplementsReadWriteLock`: refinement, with the bypass and across its end. `UnlockMatchesLock`: pthread's
  unlock is called exactly if pthread's lock was. `LevelKnown`: writeLocked, stored after the lock is taken by every
  holder, readers too, says what the lock is held for. `WriterGetsIn`: readers that come and go do not starve a writer.
* `AnswerAllowed`, `AnswerConsistent`, `SkipsAreSound`, `ClaimedOnce`, `EvaluationEnds`: the evaluation.
* `InversionsNoticed`: two neighbours in the wrong order are covered by
  resortRequired or by a caller about to compare them. `PositionStable`,
  `SnapshotComplete`, `NullJustified`: the list and the miss cache.
* `CountsExact`, `NoDangling`, `NothingLeaked`: reference
  counts equal the references there are; nobody reaches a deallocated object;
  what nobody refers to is gone.
* `RangesAgree`: the ranges in bytes and those in UTF-16 units are both those of what PCRE matched, for
  every capture, set or not. `MatchesInOrder`: matches do not overlap and their characters begin
  in the range the user gave; the end of a range inside a surrogate pair is rounded up, so that the last
  character may end behind it. `NamedRange`: a name gives the range of its first capture that matched.

* `ReplacementExact`: the new string is the text before, between and behind the matches and for each of them
  the reference string, token by token, in the case asked for; where the code does that, see section 4. `OverflowLosesFirst`: a buffer that
  leaves the stack loses at most its first instructions; that it loses all of those is the theorem `OverflowLosesTheStack`. `CopyFits`: the copy is as long as the buffer made for it. `InBounds`:
  instructions fit their buffers, and every search begins where the last match ended, in the range.
  `ReplaceEnds`: the one way not to end is an empty match that is found again with all to be replaced.
* `DefaultPoolStays`: once a pool with workers is the default pool it is for ever. `ReapedHasNoThreads`: only a pool without workers
  is reaped, once. `ReferencesExact`: each reference has somebody who gives it back. `DefaultPoolAlive`: the
  default pool is not deallocated, and a caller is given a pool. The first three speak of the time before an allocation fails.
  `DefaultPoolAlive` goes on after that if there are several processors: with one, the pool made at the address of the old one has no
  threads either, a thread with an old view takes it away and another releases it again. The runs had not met that case; its proof did.

Every module with state has a `TypeOK` (`ConditionTypeOK` in `RKConditionLock`: one module of proofs extends both locks). All are proved.

Every checked property has a mutant in `PROJECT.json`: a plausible slip in one
definition that makes the property fail on the same configuration.

### Fairness

Threads are scheduled preemptively, so every thread that can go on does (weak
fairness of each thread's next step), and the function a call executes returns. Two waits of the pool are for
something that comes and goes and get strong fairness: a caller's acquisition of a free slot
(231-247), for which it tries all slots again and again with timed waits, and its locking of a sleeping
worker (262-265). Strong fairness does not
make one caller overtake others that call for ever: `CallReturns` therefore
says that a call returns if from some time on no new calls are made, and
`SomeCallReturns` that, whatever happens, some call returns. No fairness is
assumed of new calls, or of the decision to reap. In the read/write lock a thread goes on and gives
back what it holds (weak fairness), and a writer blocked in the pthread lock gets it if it is free again and again (strong
fairness); that it becomes free is not assumed but follows from pthread turning readers away meanwhile, on which the comment at `RKLock.m` 375
relies. Readers have no such promise and the project states none. In the condition lock a
thread that keeps asking for the mutex gets it (strong fairness, what a pthread
mutex gives in practice), and a deadline is an absolute time, which passes.
A broadcast wakes everybody; a spurious wake-up is never required.
Search and replace runs on one thread, which goes on (weak fairness of `Next`); PCRE returns.
In the evaluation weak fairness of each thread that has joined is enough: some thread joins, which is what
the pool promises, and no particular worker need.

## 4. What the code gets wrong

Each was met while modelling. The first two have a run of their own, in which the one
property, taken from the quoted document or assertion, is violated; the others say which property, on which constants, shows them, or were read in the code next to what is modelled. `PROJECT.json` has the quotations.

| Run | Where | What |
|---|---|---|
| `reapreturns` (`ReapReturns`) | `RKThreadPool.m:215` | `reapThreads` wakes workers with the condition they already have, so a sleeping worker goes back to sleep and the reaper loops for ever |
| `anyfound` (`AnyFound`) | `RKSortedRegexCollection.m:391` | a thread that finds every index claimed stops a thread which has claimed the matching regex |
| | `RKSortedRegexCollection.m:299` | the hash 0 is found in an empty miss cache: `MissesAreReal` fails for an object with hash 0 (`ZeroObjects` of `MCRKSortedRegexCollection`) |
| | `RKThreadPool.m:288` | the assertion after both branches contradicts the first of them: `AssertionsUnreaped` holds in `pool`, and fails with the constants of `reap` |
| | `RKThreadPool.m:253` | liveThreads is asserted to be above 0 where a slot has been claimed; the last worker may have been stopped since it was tested: `AssertionsUnreaped` fails here too with the constants of `reap` |
| | `RKLock.m:591` | `-tryLock` of a condition lock passes the strategy of `-lock` and blocks: `TryLockReturns` fails with the constants of `condlock` |
| | `RKLock.m:665` | the time limit of the strategies that wait until a time is overwritten with 0, so they give up at once; the modules allow that and no property shows it |
| | `RKSortedRegexCollection.m:376` | with the lowest index asked for, only a match at index 0 is published: `FirstFound` fails with the constants of `anyfound` |
| | `RKCache.m:292` | equal hashes are taken for equal regexes; the implementation notes say so, the header does not |
| | `RKEnumerator.m:200` | with an error argument the named range is never read |
| | `RKEnumerator.m:189` | the range of a name none of whose captures matched is read at index NSNotFound |
| | `RKRegex.m:906` | the bytes of a capture number are added as signed chars |
| | `RKRegex.m:922` | without ranges, a duplicate name that is first in the table gives the entry the search hit |
| | `RKEnumerator.m:330` | after an empty match the enumerator finds it again for ever |
| | `NSString.m:1092`, `1136` | a buffer that leaves the stack is filled with zeros and its instructions are put behind them: the beginning of a long result is lost, or every match replaced by nothing; `ReplacementExact` without its conditions on the stack fails |
| | `NSString.m:979` | an empty or unset capture ends a case conversion and drops the text gathered for it; `ReplacementExact` without `Converts` fails. The assertion at 982 says that nothing is left gathered: `\U`, text and an empty capture at the end contradict it |
| | `NSString.m:772` | all matches are to be replaced, and an empty one is found for ever |
| | `NSString.m:788` | the test for "no changes" compares with the number of copy instructions, and finds the empty string only |
| | `NSString.m:766`, `502` | a bad reference string raises although an error is asked for; a mutable string is set to NULL |
| | `NSString.m:141` | the flag is set before the lock of the date conversion is stored, and `+initalize` is misspelt |
| | `RKThreadPool.m:94` | a caller may be given the old default pool after it was taken away, and use it when it is deallocated |
| | `RKThreadPool.m:110` | the workers of a pool that lost the exchange are never reaped |
| | `RKThreadPool.m:76` | the number of active processors is 0 when it is asked for twice within five seconds |

The invariants above are stated with these in mind: `RegexAnswers` allows
the answer NULL where the code may give it, and `NullJustified` names the
reasons; `NamedRange` speaks of names with a capture that matched; `ReplacementExact`, `OverflowLosesFirst` and `ReplaceEnds`
name the cases of `NSString.m` above, and the properties of the default pool do not say that a pool in use is alive. `reap` checks
the assertions of the pool other than those of lines 253 and 288. Those of 248 and 249 are what the condition lock promises, and that of 252 repeats
a test of line 225 on an ivar only the initialiser writes.

The same reading turned up, as hazards without a run: line 167 of the pool combines two flags with
`&` and so stores 0; line 211 lets one index too many through, which no caller passes; 
at
line 284 a try of the slot's lock that fails raises, and the slot stays Executing for good.

## 5. What is proved

`tlapm` checks the eight proof modules; they hold for every value of the
constants under the assumptions named in the modules.

| Module | Theorem | States |
|---|---|---|
| `RKThreadPoolProofs` | `TypeCorrect`, `ArgumentsLive`, `JobsAccounted`, `Handshakes`, `AssertionsNeverFire`, `UnreapedAssertions` | the pool's safety invariants, the last of them without reapers |
| | `Implements` | `Spec => ParallelCall` under the refinement mapping |
| `LockProofs` | `ConditionTypeCorrect`, `WakeupsNotLost` | the condition lock's invariants |
| | `ConditionImplements` | `ConditionSpec => ConditionLock` under the refinement mapping |
| | `TypeCorrect`, `UnlockMatches`, `LevelsKnown` | the read/write lock's invariants |
| | `Implements` | `Spec => ReadWriteLock` under the refinement mapping |
| `SortedRegexMatchProofs` | `TypeCorrect`, `NoPositionTwice`, `SkipsSound`, `AnswersConsistent`, `AnswersAllowed` | the evaluation's invariants |
| `RKSortedRegexCollectionProofs` | `TypeCorrect`, `PositionsStay`, `NoInversionLost`, `SnapshotsComplete`, `NullsJustified` | the collection's invariants |
| `RKStringReplaceProofs` | `TypeCorrect`, `StaysInBounds` | search and replace: types, and nothing behind the end of a buffer or range |
| | `CopiesFit` | the buffer for the new string holds the text the copy instructions write |
| | `OverflowLosesTheStack`, `OverflowAppliesNothing` | which instructions are empty once a buffer has left the stack, and what that does to a match |
| | `ReplacementCorrect`, `OverflowCorrect` | the string returned is the one `ReplacedText` defines, or after an overflow the end of it |
| `RKCacheProofs` | `TypeCorrect`, `CountsAreExact`, `NothingDangles`, `NothingLeaks` | the cache's and its regexes' invariants |
| `RKDefaultThreadPoolProofs` | `TypeCorrect`, `ReapsTheOldPool`, `OwnersCounted`, `DefaultPoolIsAlive` | the default pool's invariants |
| | `DefaultPoolWithThreadsStays` | the action property `DefaultPoolStays` |
| `RKEnumeratorProofs` | `TypeCorrect`, `RangesCorrect`, `NamedRangeCorrect` | the enumerator's invariants, the last of them up to 128 captures |
| | `OrderCorrect` | the action property `MatchesInOrder` |

**Assumptions.** `ThreadPoolAssumption`: at least one worker, callers distinct from workers, and None is neither.
`LockAssumption`: None is no thread. `ConditionLockAssumption`: AnyCondition is no condition, None is no request.
`SortedRegexMatchAssumption`: finitely many threads, at least one regex.
`SortedRegexCollectionAssumption`: at least one regex, thread and bucket; hashes are natural numbers and each object matches a set of regexes.
`CallsAssumption`: the range a call searches lies in its string, as it does if the range the user gives does (`NSString.m` 756-761).
`CacheAssumption`: the hash is a function of the strings, whatever its values; a string or an object is not None. The threads, strings
and objects may be infinitely many. (An object left to allocate and `MaxPending` are guards of the model, as in the run.)
`ThreadsAssumption`, `ProcessorsAssumption`, `NullAssumption`: finitely many threads, one of which is the first; at least one processor; NULL is no address.
The threads are finite because the references pending in their autorelease pools are counted.
`CaptureCountAssumption`, `StackAssumption`: at least one capture, room for at least one instruction; reference strings, their number and PCRE's answers are not bounded.
The callers of the pool and of the collection and the threads of the
two locks may be infinitely many.
`EnumeratorAssumption`: a regex has at least one capture and no more than an int counts (`RKRegex.m` 1104); NSNotFound is larger than any int.
`StringsAssumption`: characters of one to four bytes, one each in an ASCII string. `RangesAssumption`: locations and lengths are
unsigned words, whatever their values. `NamesAssumption`: names are sequences of bytes other than zero, and the table of names
is sorted, one name once unless the regex allows duplicates, which is how PCRE makes it. Strings, regexes, their tables and ranges may be infinitely many.
`NamedRangeCorrect` has the hypothesis that there are at most 128 captures: with more, the number of a capture is read wrongly (`RKRegex.m` 906, section 4).

**The arguments.** Each proof module defines `IInv`, the conjunction of named
parts, and proves `Init => IInv`, its preservation by every action, and that it implies the properties.

* *Pool.* `ArgumentLifetime` is not inductive: a worker in the function is safe only
  because the caller will wait for Completed, which it does only if it has counted
  a started worker. `WorkersJoined` says so: the caller of a slot with a worker in it is in the handshake with
  it or has startedJobThreads above 0, and so cannot take the fallback. That needs `Handshaking` (a caller in the
  handshake has the worker to itself, and a queued job and a lock that is Wakeup or Awake have a caller), `SlotOwned`
  (the slot's argument names its caller from claim to release), `ActiveCount`
  (activeThreadsCount is the number of workers inside, a cardinality) and `ConditionCount`
  (Completed only at 0, Finishing only above). `LiveCount` bounds the start loop.
  That the worker of a handshake answers follows from `WorkerAtCondition`, which says which conditions the lock of a worker
  can have at each point of its loop.
  `UnreapedAssertions` has the hypothesis that nobody reaps the pool, since with a reaper its two assertions fail (section 4): while no
  control bit is set and no worker stops (`NobodyStops`) liveThreads stays above 0 and a caller leaves the start loop only with a started worker.
  `Handshakes` uses `NobodyStops` too, in the case that there are no reapers.
  The refinement then takes a call as having run when its slot is Finishing or Completed or it
  is past the wait.
* *Condition lock.* Who is past the mutex has it (`Inside`), so between a waiter's test and
  its sleep, and between the two stores of an unlock (`GivingUpLock`), nobody changes the lock, and no
  sleeper misses a change that would let it go; a mutex held elsewhere is one an exception left behind
  (`Leaked`). `KindKnown` and `UnlockArgument` say what each point of the function serves.
* *Read/write lock.* With one thread nobody needs to be excluded, so the invariant says when that is
  so: until Cocoa knows of several threads, one runs (`OneThread`), and nobody owns the lock while Cocoa knows and
  the library does not (`Switching`); the threads are then either all under the bypass or all holders of
  the pthread lock, which excludes (`Pthread`), at the level they asked for (`Wanting`).
* *Evaluation.* The strengthening is `Unanswered`: while there is no answer, a regex that would be stored is in the
  hands of the thread that claimed it; the thread that finished the evaluation holds none. `Claims` gives each position to one
  thread, `Known` says what a thread has learnt of the regex in its hand, which survives the
  double read of line 384, and `Answering` that one thread stores an answer, all of it.
* *Collection.* A caller with a position in hand holds the lock (`Locked`), and the list is
  sorted under the write lock, which excludes every other holder (`Exclusion`). `PositionInList`, `HasObject` and `Copied` say what
  each point of the call knows. An inversion appears when a hit is counted, and the caller that counted it is
  then about to compare the neighbours. `MissesJustified` carries the reason for a NULL through the miss cache: what a
  caller with NULL in hand writes, and what it finds there, is a hash an evaluation may answer with NULL.
* *Search and replace.* `InBounds` and `TypeOK` need each other: a length computed by subtraction is a natural number only because
  the last match was behind `searchIndex` and in the range, and a capture can be copied only because an instruction names one of the regex.
  `Compiled` adds that there is a first instruction once the reference string is compiled. Lemmas say what each
  buffer operation does to the room that is left (`GrowMakesRoom`, `AppendInstructionFits`, `AppendCopyFits`) and which operators give texts.
  The text of the copy instructions is a recursive function, and `CopiesFit` does the induction its length needs over the steps: `Copied` says that *every* function that obeys the recursion gives the buffer counted so far
  a length that fits, an instruction appended keeps that, and the function of the module is one of them. `Loses` says which
  instructions are empty (the first `StackInstructions`, if the buffer has left the stack; otherwise none), and `StopsAtOnce` that
  a loop over such a reference string never gets behind the first of them.
  For the text itself, `ReplacedText` puts what should be returned together from the tokens, without instructions, and the proof
  follows it through the call. While the instructions are on the stack, those compiled stand one after the other for the tokens
  read (`Parsed`: `Stands`, `Laid`), and `InstructionShown` says what one more of them adds to the text of a match. `Followed` says that
  the matches are those found and that each search begins where the last one ended. Inside the loop that applies
  the instructions, `Advanced` relates the instructions applied, the text gathered for a conversion and the conversion in force to the tokens they
  stand for: the text those show is the text given out followed by the gathered one, converted. `SoFar` puts the two together: the copy buffer `Keeps` what
  should be returned up to here (`Upto`, `Base`), all of it on the stack, and behind something lost (`EndIsSuffix`) after an
  overflow. Both theorems have the hypothesis `Converts` only as the properties themselves do (section 4, `NSString.m` 979).
* *Default pool.* The number of references is counted as the cardinality of a set of tokens, one for each reference pending in
  an autorelease pool (`Tokens`), so that one more or less is one element more or less (`TotalChanges`). `Exact` says whose each reference is,
  with the two windows in which nobody's count shows it: between the exchange of the new pool and its retain, and between
  the exchange for NULL and the autorelease. `Phase` says what a thread's old view of the two flags still proves. `Replacing(old)` is what
  makes the replacement safe: from the moment the program is multithreaded one pool, `old`, is the only one that is ever taken away, and
  until there is a new one the thread that took it away keeps it in its own autorelease pool, so that its address is not used
  again under a thread that has read it. That reasoning ends with the first pool that cannot be made; `Kept` is the weaker one that goes
  on: with several processors every pool of the multithreaded program has workers, who keep it.
* *Cache.* The references to an object are those of four sets: entries of the table, calls that hold it, values being released, tokens of
  the autorelease pools. `ObjectCounted` says that their number is the count, that one that is not alive has none, and that one that is alive has one.
  Each action is a lemma that says which set gains or loses an element and by how much the count changes. What is not
  a matter of counting is `CallKeeps`: between the lookup and the use of an object without a reference of the call, it is in the autorelease
  pool of the thread, which nobody else drains; and `OwnHash`, that an object is in the table under one hash only, without which a removal
  might free one reference of two.

* *Enumerator.* Characters of a string have places, and the sums of the lengths before a place grow with it in both units (`Grows`).
  A walk of `RKUnicode` that begins and ends with a character therefore yields the same span in the other unit (`WalkOfSpan`), and one that
  ends inside a character the span up to its end (`WalkOfRange`), which is why a match may end behind the range it was asked for, and by no more than that character. The
  conversion in place is right because the loop goes down and a pair of ints is read before the two words that overlap it are written
  (`OneStored`, `ConvertInPlace`). Between two calls the enumerator knows where the last match ended (`AtMatch`) and which bytes the range
  it was made for stands for (`Made`); neither is implied by `RangesAgree`, which without them is not inductive, since the
  next search starts at a word and needs it to be the place of a character. For names, `HitFinds` shows that the binary search stays around
  every entry of the name, `NamesakesAreAll` that the two walks from the hit meet all of them, and `FirstOfName` that the first that is set is the one returned.

**Induction over data.** The theorems of the library that state induction take an operator, which no backend instantiates. Where a proof needs one it is done
on sets instead: a set of numbers that has 0 and the successors of its members is all of them (`NatInduct`), from the well-foundedness of `<`,
with the set of the numbers for which the statement holds. That covers what recursive *functions* compute: first that there is a function
which obeys the recursion, then what every such function yields; the texts put together from those of tokens and matches are treated so (`FlattenJoins`). A sum over a set is the cardinality of a set of tokens (`SumIsTotal`).

**Model-checked only.** Liveness (`SomeCallReturns`, `CallReturns`,
`EvaluationEnds`, `NotStalled`, `TryReturns`, `WriterGetsIn`, `ReplaceEnds`) is out of this prover's reach. Every safety property and refinement the passing runs check is a theorem,
under the hypotheses named above: no reapers for `UnreapedAssertions`, up to the first failed allocation for some of the default pool, at most 128 captures
for `NamedRangeCorrect`.

## 6. Not modelled, and why

* FreeBSD's atomic variants, which are an update and a separate load: an atomic operation is atomic here.
* `RKLock`, the mutex with the bypass: only the conversion of dates (`NSString.m` 1350) uses it.
* The placeholder and the lazily made UTF-8 strings: a singleton and a buffer, made on first use.
* The count of active processors: which slots and workers a call tries is a free choice in `RKThreadPool`.
* Matching itself: PCRE is external; which regexes match is a constant or chosen in `Init`.
* In the enumerator: strings in MacRoman with characters outside ASCII, regexes not compiled for UTF-8, look-around, and
  the strings and formats made from the ranges, which are only read.
* In search and replace: characters of several bytes, names that several captures have, the spelling of references.
  Of the other additions to NSString: the extraction of captures with conversions, which parses formats and dates; the match tests only call the regex.
* The counters of hits and misses of the cache: only its description and its probes read them.
* Headers of declarations and documentation, PCRE's among them: the code is in the `.m` files, and so is most of the map.
* Coding, error strings, utility tables, the DTrace and stack protector files: no state whose
  interleaving or order matters.

## 7. Plan

Done, in this order, because the pool is what everything concurrent rests on:
`ParallelCall`, `RKThreadPool`; `RegexAnswers`, `SortedRegexMatch`; `RKSortedRegexCollection`; `RKCache`;
`ConditionLock`, `LockCallers`, `RKConditionLock`; `ReadWriteLock`, `RKReadWriteLock`; `RKUnicode`, `RKCaptureNames`,
`RKEnumerator`; `RKDefaultThreadPool`; `RKStringReplace`; and the proofs of all of them.

What would come next:

1. How a sorted collection is made and cached (`RKSortedRegexCollection.m` 115-221): the key from the collection's hash and the
   options, and the collection that loses the race into the cache.
2. The atomic operations as a parameter, to state what FreeBSD's variants cost `ClaimedOnce`.
3. The remaining things made on first use: the placeholder, the UTF-8 string of a regex, the date lock with `RKLock`.
4. Search and replace with characters of several bytes, and the proof of its texts for them.
