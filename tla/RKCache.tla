-------------------------------- MODULE RKCache --------------------------------
(***************************************************************************)
(* The regex cache (RKCache.m) and the life of the RKRegex objects in it   *)
(* (RKRegex.m), with reference counting: looking a regex up and compiling  *)
(* it when it is not cached, adding, removing and clearing under the       *)
(* readers/writer lock, and the retains, releases and autorelease pools    *)
(* of the threads, which take no lock.                                     *)
(*                                                                         *)
(* A critical section of cacheRWLock is one action: everything it touches  *)
(* but the reference counts is protected by the lock, and the counts only  *)
(* change by atomic increments and decrements.                             *)
(***************************************************************************)
EXTENDS Integers, FiniteSets, FiniteSetsExt

CONSTANTS
  Threads,     \* the threads that use the cache
  Strings,     \* the regex strings, compile options included
  HashOf,      \* RKHashForStringAndCompileOption
  Objects,     \* the RKRegex objects that can be allocated: a bound
  Flags,       \* cacheIsEnabled, cacheAddingIsEnabled, cacheLookupIsEnabled
  Settable,    \* those of them that threads change
  MaxPending,  \* bound: no new call with more autoreleased references
  None         \* NULL

Hashes == {HashOf[s] : s \in Strings}

ASSUME CacheAssumption ==
  /\ DOMAIN HashOf = Strings
  /\ Flags = {"cache", "adding", "lookup"}
  /\ Settable \subseteq Flags
  /\ MaxPending \in Nat
  /\ None \notin Strings \cup Objects

VARIABLES
  cacheMapTable,  \* hash -> object, or None
  enabled,        \* the three flags
  referenceCountMinusOne, \* of each object
  alive,          \* "fresh" until allocated, "live", "dead" once deallocated
  regexString,    \* the string an object was made for
  \* each thread's locals
  pc,
  request,        \* the string asked for
  hand,           \* the object the call works with
  keeps,          \* the caller owns the result (shouldAutorelease is NO)
  autoreleased,   \* how often each object is in the thread's autorelease pool
  values,         \* clearCache: the values of the old table still to release;
                  \* cacheSet: the objects still to release
  flag, flagValue, flagRead  \* the setters: which flag, its new and read value

cache == <<cacheMapTable, enabled>>
objects == <<referenceCountMinusOne, alive, regexString>>
setter == <<flag, flagValue, flagRead>>
vars == <<cache, objects, pc, request, hand, keeps, autoreleased, values, setter>>

Cached == {cacheMapTable[h] : h \in Hashes} \ {None}
LookupEnabled == enabled["cache"] /\ enabled["lookup"]
AddingEnabled == enabled["cache"] /\ enabled["adding"]

Init ==
  /\ cacheMapTable = [h \in Hashes |-> None]
  /\ enabled = [f \in Flags |-> TRUE]
  /\ referenceCountMinusOne = [o \in Objects |-> 0]
  /\ alive = [o \in Objects |-> "fresh"]
  /\ regexString = [o \in Objects |-> None]
  /\ pc = [t \in Threads |-> "idle"]
  /\ request = [t \in Threads |-> None]
  /\ hand = [t \in Threads |-> None]
  /\ keeps = [t \in Threads |-> FALSE]
  /\ autoreleased = [t \in Threads |-> [o \in Objects |-> 0]]
  /\ values = [t \in Threads |-> {}]
  /\ flag = [t \in Threads |-> None]
  /\ flagValue = [t \in Threads |-> FALSE]
  /\ flagRead = [t \in Threads |-> FALSE]

Goto(t, from, to) == pc[t] = from /\ pc' = [pc EXCEPT ![t] = to]

-------------------------------------------------------------------------------
\* -[RKRegex retain] and release, of each object of a set.

Retain(os) ==
  /\ referenceCountMinusOne' =
       [o \in Objects |-> referenceCountMinusOne[o] + (IF o \in os THEN 1 ELSE 0)]
  /\ UNCHANGED <<alive, regexString>>

\* The decrement that yields -1 deallocates.
Release(o) ==
  /\ referenceCountMinusOne' = [referenceCountMinusOne EXCEPT ![o] = @ - 1]
  /\ alive' = [alive EXCEPT ![o] = IF referenceCountMinusOne[o] = 0 THEN "dead" ELSE @]
  /\ UNCHANGED regexString

Autorelease(t, o) ==
  autoreleased' = [autoreleased EXCEPT ![t][o] = @ + 1]

Pending(t) == MapThenSumSet(LAMBDA o : autoreleased[t][o], Objects)

-------------------------------------------------------------------------------
\* RKRegexFromStringOrRegexWithError: look the regex up, or make it.

\* Bounds: an object must be left for each thread that may have to allocate.
BeginGet(t, s, keep) ==
  /\ Pending(t) <= MaxPending
  /\ Cardinality({o \in Objects : alive[o] = "fresh"}) >
       Cardinality({u \in Threads : pc[u] \in {"lookup", "allocate"}})
  /\ Goto(t, "idle", "lookup")
  /\ request' = [request EXCEPT ![t] = s]
  /\ keeps' = [keeps EXCEPT ![t] = keep]
  /\ UNCHANGED <<cache, objects, hand, autoreleased, values, setter>>

\* Mutant: the object is retained after the lock is released.
LookupUnretained(t) ==
  LET o == cacheMapTable[HashOf[request[t]]] IN
  /\ pc[t] = "lookup"
  /\ IF LookupEnabled /\ o # None
     THEN /\ Goto(t, "lookup", "retain")
          /\ hand' = [hand EXCEPT ![t] = o]
     ELSE Goto(t, "lookup", "allocate") /\ UNCHANGED hand
  /\ UNCHANGED <<cache, objects, request, keeps, autoreleased, values, setter>>

\* RKFastCacheLookup, under the read lock: a hit is retained before the lock
\* is released.  A call that does not get the lock goes on as after a miss.
Lookup(t) ==
  LET o == cacheMapTable[HashOf[request[t]]] IN
  /\ pc[t] = "lookup"
  /\ \/ /\ LookupEnabled /\ o # None
        /\ Goto(t, "lookup", "got")
        /\ hand' = [hand EXCEPT ![t] = o]
        /\ Retain({o})
     \/ Goto(t, "lookup", "allocate") /\ UNCHANGED <<objects, hand>>
  /\ UNCHANGED <<cache, request, keeps, autoreleased, values, setter>>

\* NSAllocateObject and the autorelease at the start of the initialiser.
Allocate(t) ==
  /\ Goto(t, "allocate", "compile")
  /\ \E o \in {o \in Objects : alive[o] = "fresh"} :
       /\ alive' = [alive EXCEPT ![o] = "live"]
       /\ regexString' = [regexString EXCEPT ![o] = request[t]]
       /\ hand' = [hand EXCEPT ![t] = o]
       /\ Autorelease(t, o)
  /\ UNCHANGED <<cache, referenceCountMinusOne, request, keeps, values, setter>>

Compiled(t) ==
  /\ Goto(t, "compile", "add")
  /\ UNCHANGED <<cache, objects, request, hand, keeps, autoreleased, values, setter>>

\* A string that is no regex: the initialiser returns NULL.
CompileFailed(t) ==
  /\ Goto(t, "compile", "idle")
  /\ request' = [request EXCEPT ![t] = None]
  /\ hand' = [hand EXCEPT ![t] = None]
  /\ keeps' = [keeps EXCEPT ![t] = FALSE]
  /\ UNCHANGED <<cache, objects, autoreleased, values, setter>>

\* Mutant: the table does not retain its values.
AddUnretained(t) ==
  LET h == HashOf[regexString[hand[t]]] IN
  /\ Goto(t, "add", "retain")
  /\ cacheMapTable' = [cacheMapTable EXCEPT ![h] =
                          IF AddingEnabled /\ @ = None THEN hand[t] ELSE @]
  /\ UNCHANGED <<objects, enabled, request, hand, keeps, autoreleased, values, setter>>

\* addObjectToCache:withHash:, under the write lock: NSMapInsertIfAbsent.  The
\* result is ignored: a thread that comes second, or does not get the lock, keeps
\* its own object.
Add(t) ==
  LET h == HashOf[regexString[hand[t]]] IN
  /\ Goto(t, "add", "retain")
  /\ \/ /\ AddingEnabled /\ cacheMapTable[h] = None
        /\ cacheMapTable' = [cacheMapTable EXCEPT ![h] = hand[t]]
        /\ Retain({hand[t]})
     \/ UNCHANGED <<cacheMapTable, objects>>
  /\ UNCHANGED <<enabled, request, hand, keeps, autoreleased, values, setter>>

\* return(RKRetain(self))
RetainSelf(t) ==
  /\ Goto(t, "retain", "got")
  /\ Retain({hand[t]})
  /\ UNCHANGED <<cache, request, hand, keeps, autoreleased, values, setter>>

\* The call holds a reference: it passes it to the autorelease pool, or to the
\* caller.
Got(t) ==
  /\ Goto(t, "got", "use")
  /\ IF keeps[t] THEN UNCHANGED autoreleased ELSE Autorelease(t, hand[t])
  /\ UNCHANGED <<cache, objects, request, hand, keeps, values, setter>>

\* The caller is done with the regex, and releases it if it owns it.
Done(t) ==
  /\ Goto(t, "use", "idle")
  /\ IF keeps[t] THEN Release(hand[t]) ELSE UNCHANGED objects
  /\ request' = [request EXCEPT ![t] = None]
  /\ hand' = [hand EXCEPT ![t] = None]
  /\ keeps' = [keeps EXCEPT ![t] = FALSE]
  /\ UNCHANGED <<cache, autoreleased, values, setter>>

\* The thread's autorelease pool is released, one reference at a time.
Drain(t, o) ==
  /\ autoreleased[t][o] > 0
  /\ pc[t] \in {"idle", "draining"}
  /\ autoreleased' = [autoreleased EXCEPT ![t][o] = @ - 1]
  /\ pc' = [pc EXCEPT ![t] = IF Pending(t) = 1 THEN "idle" ELSE "draining"]
  /\ Release(o)
  /\ UNCHANGED <<cache, request, hand, keeps, values, setter>>

-------------------------------------------------------------------------------
\* removeObjectWithHash:, clearCache and cacheSet.  Without the lock they change
\* nothing; so there is no step for that.

\* Under the write lock: the table's reference becomes the thread's (retain,
\* then NSMapRemove releases).  It is autoreleased once the lock is free.
Remove(t, s) ==
  LET h == HashOf[s] IN
  /\ cacheMapTable[h] # None
  /\ Pending(t) <= MaxPending
  /\ Goto(t, "idle", "got")
  /\ cacheMapTable' = [cacheMapTable EXCEPT ![h] = None]
  /\ hand' = [hand EXCEPT ![t] = cacheMapTable[h]]
  /\ UNCHANGED <<enabled, objects, request, keeps, autoreleased, values, setter>>

\* Under the write lock: put a new, empty table in place of the old one.
Clear(t) ==
  /\ Cached # {}
  /\ Goto(t, "idle", "freeing")
  /\ cacheMapTable' = [h \in Hashes |-> None]
  /\ values' = [values EXCEPT ![t] = Cached]
  /\ UNCHANGED <<enabled, objects, request, hand, keeps, autoreleased, setter>>

\* Mutant: the old table is freed without releasing its values.
FreeTableOnly(t) ==
  /\ pc[t] = "freeing"
  /\ values' = [values EXCEPT ![t] = {}]
  /\ pc' = [pc EXCEPT ![t] = "idle"]
  /\ UNCHANGED <<cache, objects, request, hand, keeps, autoreleased, setter>>

\* NSFreeMapTable(oldMapTable), with no lock held; and cacheSet's releases.
FreeValue(t) ==
  \E o \in values[t] :
    /\ pc[t] = "freeing"
    /\ values' = [values EXCEPT ![t] = @ \ {o}]
    /\ pc' = [pc EXCEPT ![t] = IF values[t] = {o} THEN "idle" ELSE "freeing"]
    /\ Release(o)
    /\ UNCHANGED <<cache, request, hand, keeps, autoreleased, setter>>

\* cacheSet, under the read lock: retain all the objects.
CacheSet(t) ==
  /\ Cached # {}
  /\ Pending(t) <= MaxPending
  /\ Goto(t, "idle", "set")
  /\ values' = [values EXCEPT ![t] = Cached]
  /\ Retain(Cached)
  /\ UNCHANGED <<cache, request, hand, keeps, autoreleased, setter>>

\* Then, unlocked, make an autoreleased set of them, which retains them too.
MakeSet(t) ==
  /\ Goto(t, "set", "freeing")
  /\ Retain(values[t])
  /\ autoreleased' = [autoreleased EXCEPT ![t] =
        [o \in Objects |-> @[o] + (IF o \in values[t] THEN 1 ELSE 0)]]
  /\ UNCHANGED <<cache, request, hand, keeps, values, setter>>

-------------------------------------------------------------------------------
\* setCacheEnabled:, setCacheAddingEnabled: and setCacheLookupEnabled:, with
\* no lock held: the flag is read, and then swapped if it is still what it was.

ReadFlag(t, f, value) ==
  /\ Goto(t, "idle", "setFlag")
  /\ flag' = [flag EXCEPT ![t] = f]
  /\ flagValue' = [flagValue EXCEPT ![t] = value]
  /\ flagRead' = [flagRead EXCEPT ![t] = enabled[f]]
  /\ UNCHANGED <<cache, objects, request, hand, keeps, autoreleased, values>>

SwapFlag(t) ==
  /\ Goto(t, "setFlag", "idle")
  /\ enabled' = [enabled EXCEPT ![flag[t]] = IF @ = flagRead[t] THEN flagValue[t] ELSE @]
  /\ flag' = [flag EXCEPT ![t] = None]
  /\ flagValue' = [flagValue EXCEPT ![t] = FALSE]
  /\ flagRead' = [flagRead EXCEPT ![t] = FALSE]
  /\ UNCHANGED <<cacheMapTable, objects, request, hand, keeps, autoreleased, values>>

-------------------------------------------------------------------------------
Next ==
  \E t \in Threads :
    \/ \E s \in Strings, keep \in BOOLEAN : BeginGet(t, s, keep)
    \/ Lookup(t) \/ Allocate(t) \/ Compiled(t) \/ CompileFailed(t)
    \/ Add(t) \/ RetainSelf(t) \/ Got(t) \/ Done(t)
    \/ \E o \in Objects : Drain(t, o)
    \/ \E s \in Strings : Remove(t, s)
    \/ Clear(t) \/ FreeValue(t) \/ CacheSet(t) \/ MakeSet(t)
    \/ \E f \in Settable, value \in BOOLEAN : ReadFlag(t, f, value)
    \/ SwapFlag(t)

Spec == Init /\ [][Next]_vars

-------------------------------------------------------------------------------
\* Properties.

Pcs == {"idle", "lookup", "allocate", "compile", "add", "retain", "got", "use",
        "draining", "freeing", "set", "setFlag"}

\* Every variable holds a value of its type.
TypeOK ==
  /\ cacheMapTable \in [Hashes -> Objects \cup {None}]
  /\ enabled \in [Flags -> BOOLEAN]
  /\ referenceCountMinusOne \in [Objects -> Nat \cup {-1}]
  /\ alive \in [Objects -> {"fresh", "live", "dead"}]
  /\ regexString \in [Objects -> Strings \cup {None}]
  /\ pc \in [Threads -> Pcs]
  /\ request \in [Threads -> Strings \cup {None}]
  /\ hand \in [Threads -> Objects \cup {None}]
  /\ keeps \in [Threads -> BOOLEAN]
  /\ autoreleased \in [Threads -> [Objects -> Nat]]
  /\ values \in [Threads -> SUBSET Objects]
  /\ flag \in [Threads -> Flags \cup {None}]
  /\ flagValue \in [Threads -> BOOLEAN] /\ flagRead \in [Threads -> BOOLEAN]

\* The reference a call holds on the object it works with.
Holds(t, o) ==
  hand[t] = o /\ (pc[t] = "got" \/ (pc[t] = "use" /\ keeps[t]))

References(o) ==
  Cardinality({h \in Hashes : cacheMapTable[h] = o})
  + Cardinality({t \in Threads : Holds(t, o)})
  + Cardinality({t \in Threads : o \in values[t]})
  + Cardinality(UNION {{t} \X (1..autoreleased[t][o]) : t \in Threads})

\* An object's count is the number of references to it, whichever thread or
\* table holds them: none is lost or counted twice when lookups, additions,
\* removals and clearings overlap (RKCache.m 292, 338, 379, 434; RKRegex.m 674
\* to 676).
CountsExact ==
  \A o \in Objects : alive[o] = "live" => referenceCountMinusOne[o] + 1 = References(o)

\* No thread works with, and no table or pool refers to, an object that has
\* been deallocated (the comment of RKFastCacheLookup: "Once we unlock, the map
\* table could vanish, taking the returned object with it").
NoDangling ==
  \A o \in Objects : alive[o] # "live" =>
    /\ o \notin Cached
    /\ \A t \in Threads :
         hand[t] # o /\ o \notin values[t] /\ autoreleased[t][o] = 0

\* Nothing is leaked: an object that no table, pool or thread refers to is gone.
NothingLeaked ==
  \A o \in Objects :
    (References(o) = 0 /\ \A t \in Threads : hand[t] # o) => alive[o] # "live"
===============================================================================
