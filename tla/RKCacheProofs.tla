----------------------------- MODULE RKCacheProofs -----------------------------
(***************************************************************************)
(* The references of the regex cache, for all sets of threads, strings and *)
(* objects and every hash of the strings.  The references to an object are *)
(* of four kinds (Tables, Calls, Freeing and Pools).  Every step that adds *)
(* or takes away one changes the count of the object by as much, or moves  *)
(* one from a kind to another (ObjectCounted); a thread that works with an *)
(* object without a reference of its call has it in its autorelease pool,  *)
(* which it does not release before the call is over (CallKeeps).          *)
(***************************************************************************)
EXTENDS RKCache, FiniteSetTheorems, TLAPS

\* The references to o of each kind: cached under a hash, in the hand of a call that
\* retained it, among the values a removal or clear releases, and autoreleased.
Tables(o) == {h \in Hashes : cacheMapTable[h] = o}
Calls(o) == {t \in Threads : Holds(t, o)}
Freeing(o) == {t \in Threads : o \in values[t]}
Pools(o) == UNION {{t} \X (1..autoreleased[t][o]) : t \in Threads}

AllFinite(o) ==
  /\ IsFiniteSet(Tables(o)) /\ IsFiniteSet(Calls(o))
  /\ IsFiniteSet(Freeing(o)) /\ IsFiniteSet(Pools(o))

\* An object that lives has the count of its references, one or more; one that
\* does not has no reference.
ObjectCounted(o) ==
  /\ AllFinite(o)
  /\ alive[o] = "live" =>
       /\ regexString[o] \in Strings /\ referenceCountMinusOne[o] \in Nat
       /\ referenceCountMinusOne[o] + 1 = References(o)
  /\ alive[o] # "live" =>
       Tables(o) = {} /\ Calls(o) = {} /\ Freeing(o) = {} /\ Pools(o) = {}
  /\ alive[o] = "fresh" => referenceCountMinusOne[o] = 0
  /\ alive[o] = "dead" => referenceCountMinusOne[o] = -1

\* An object is cached under its own hash only.
OwnHash == \A h \in Hashes : cacheMapTable[h] # None => HashOf[regexString[cacheMapTable[h]]] = h

\* What a thread has at each step of a call.
CallKeeps ==
  /\ \A t \in Threads :
       hand[t] # None <=> pc[t] \in {"compile", "add", "retain", "got", "use"}
  /\ \A t \in Threads : pc[t] \in {"lookup", "allocate"} => request[t] \in Strings
  /\ \A t \in Threads :
       pc[t] \in {"compile", "add", "retain"} \/ (pc[t] = "use" /\ ~keeps[t])
         => autoreleased[t][hand[t]] > 0
  /\ \A t \in Threads : pc[t] \notin {"set", "freeing"} => values[t] = {}

IInv ==
  /\ TypeOK
  /\ CallKeeps
  /\ OwnHash
  /\ \A o \in Objects : ObjectCounted(o)
-------------------------------------------------------------------------------
\* A finite set with one element more.
LEMMA OneMore ==
  ASSUME NEW S, IsFiniteSet(S), NEW x, x \notin S
  PROVE  /\ IsFiniteSet(S \cup {x}) /\ Cardinality(S) \in Nat
         /\ Cardinality(S \cup {x}) = Cardinality(S) + 1
BY FS_AddElement, FS_CardinalityType

\* A finite set with one element less.
LEMMA OneLess ==
  ASSUME NEW S, IsFiniteSet(S), NEW x \in S
  PROVE  /\ IsFiniteSet(S \ {x}) /\ Cardinality(S) \in Nat
         /\ Cardinality(S \ {x}) = Cardinality(S) - 1
BY FS_RemoveElement, FS_CardinalityType

\* Four finite sets have together no element only if each has none.
LEMMA FourSets ==
  ASSUME NEW A, NEW B, NEW C, NEW D,
         IsFiniteSet(A), IsFiniteSet(B), IsFiniteSet(C), IsFiniteSet(D),
         NEW n, n = Cardinality(A) + Cardinality(B) + Cardinality(C) + Cardinality(D)
  PROVE  n \in Nat /\ (n = 0 => A = {} /\ B = {} /\ C = {} /\ D = {})
<1>. DEFINE a0 == Cardinality(A)  b0 == Cardinality(B)  c0 == Cardinality(C)  d0 == Cardinality(D)
<1>1. a0 \in Nat /\ b0 \in Nat /\ c0 \in Nat /\ d0 \in Nat
  BY FS_CardinalityType
<1>2. n = a0 + b0 + c0 + d0
  OBVIOUS
<1>. HIDE DEF a0, b0, c0, d0
<1>3. \A a, b, c, d \in Nat :
        a + b + c + d \in Nat /\ (a + b + c + d = 0 => a = 0 /\ b = 0 /\ c = 0 /\ d = 0)
  OBVIOUS
<1>4. n \in Nat
  BY <1>1, <1>2, <1>3
<1>5. n = 0 => a0 = 0 /\ b0 = 0 /\ c0 = 0 /\ d0 = 0
  BY <1>1, <1>2, <1>3
<1>. QED BY <1>4, <1>5, FS_EmptySet DEF a0, b0, c0, d0

\* The references are those of the four kinds: a number, and none only if there
\* is none of any kind.
LEMMA ReferencesCount ==
  ASSUME NEW o, AllFinite(o)
  PROVE  /\ References(o) = Cardinality(Tables(o)) + Cardinality(Calls(o))
                            + Cardinality(Freeing(o)) + Cardinality(Pools(o))
         /\ References(o) \in Nat
         /\ References(o) = 0 =>
              Tables(o) = {} /\ Calls(o) = {} /\ Freeing(o) = {} /\ Pools(o) = {}
<1>1. References(o) = Cardinality(Tables(o)) + Cardinality(Calls(o))
                      + Cardinality(Freeing(o)) + Cardinality(Pools(o))
  BY DEF References, Tables, Calls, Freeing, Pools
<1>. QED BY <1>1, FourSets DEF AllFinite

\* The same in the next state.
LEMMA ReferencesCountNext ==
  ASSUME NEW o, AllFinite(o)'
  PROVE  /\ References(o)' = Cardinality(Tables(o)') + Cardinality(Calls(o)')
                             + Cardinality(Freeing(o)') + Cardinality(Pools(o)')
         /\ References(o)' \in Nat
         /\ References(o)' = 0 =>
              Tables(o)' = {} /\ Calls(o)' = {} /\ Freeing(o)' = {} /\ Pools(o)' = {}
<1>1. References(o)' = Cardinality(Tables(o)') + Cardinality(Calls(o)')
                       + Cardinality(Freeing(o)') + Cardinality(Pools(o)')
  BY DEF References, Tables, Calls, Freeing, Pools
<1>2. /\ IsFiniteSet(Tables(o)') /\ IsFiniteSet(Calls(o)')
      /\ IsFiniteSet(Freeing(o)') /\ IsFiniteSet(Pools(o)')
  BY DEF AllFinite
<1>. QED BY <1>1, <1>2, FourSets

\* An object whose references and whose count a step leaves alone.
LEMMA Untouched ==
  ASSUME NEW o \in Objects, ObjectCounted(o),
         Tables(o)' = Tables(o), Calls(o)' = Calls(o), Freeing(o)' = Freeing(o), Pools(o)' = Pools(o),
         referenceCountMinusOne'[o] = referenceCountMinusOne[o], alive'[o] = alive[o],
         regexString'[o] = regexString[o]
  PROVE  ObjectCounted(o)'
<1>1. AllFinite(o)'
  BY DEF ObjectCounted, AllFinite
<1>2. References(o)' = References(o)
  BY <1>1, ReferencesCount, ReferencesCountNext DEF ObjectCounted
<1>. QED BY <1>1, <1>2 DEF ObjectCounted

\* A living object whose count changes as its references do; without one it is
\* deallocated.
LEMMA Recounted ==
  ASSUME NEW o \in Objects, ObjectCounted(o), alive[o] = "live", AllFinite(o)',
         NEW d \in {-1, 0, 1},
         referenceCountMinusOne'[o] = referenceCountMinusOne[o] + d,
         References(o)' = References(o) + d,
         alive'[o] = IF referenceCountMinusOne'[o] = -1 THEN "dead" ELSE "live",
         regexString'[o] = regexString[o]
  PROVE  ObjectCounted(o)'
<1>1. References(o)' \in Nat
  BY ReferencesCountNext
<1>2. referenceCountMinusOne[o] \in Nat /\ referenceCountMinusOne[o] + 1 = References(o)
  BY DEF ObjectCounted
<1>3. referenceCountMinusOne'[o] + 1 = References(o)'
  BY <1>2
<1>4. CASE referenceCountMinusOne'[o] = -1
  <2>1. References(o)' = 0
    BY <1>3, <1>4
  <2>. QED BY <1>4, <2>1, ReferencesCountNext DEF ObjectCounted
<1>5. CASE referenceCountMinusOne'[o] # -1
  <2>1. referenceCountMinusOne'[o] \in Nat
    BY <1>1, <1>2, <1>3, <1>5
  <2>. QED BY <1>3, <1>5, <2>1 DEF ObjectCounted
<1>. QED BY <1>4, <1>5
-------------------------------------------------------------------------------
\* How the four kinds change.

\* The table gets another value under one hash.
LEMMA TablesChange ==
  ASSUME TypeOK, NEW h \in Hashes, NEW v, cacheMapTable' = [cacheMapTable EXCEPT ![h] = v], NEW o
  PROVE  Tables(o)' = IF v = o THEN Tables(o) \cup {h} ELSE Tables(o) \ {h}
BY DEF Tables, TypeOK

\* One thread takes a step in its call.
LEMMA CallsChange ==
  ASSUME NEW t \in Threads, NEW o,
         \A u \in Threads \ {t} : pc'[u] = pc[u] /\ hand'[u] = hand[u] /\ keeps'[u] = keeps[u]
  PROVE  /\ t \in Calls(o) <=> Holds(t, o)
         /\ Calls(o)' = IF Holds(t, o)' THEN Calls(o) \cup {t} ELSE Calls(o) \ {t}
BY DEF Calls, Holds

\* One thread gets or releases values.
LEMMA FreeingChanges ==
  ASSUME NEW t \in Threads, NEW o, \A u \in Threads \ {t} : values'[u] = values[u]
  PROVE  /\ t \in Freeing(o) <=> o \in values[t]
         /\ Freeing(o)' = IF o \in values'[t] THEN Freeing(o) \cup {t} ELSE Freeing(o) \ {t}
BY DEF Freeing

\* The threads that have an object among their values.
LEMMA FreeingStays ==
  ASSUME NEW t \in Threads, NEW o, \A u \in Threads \ {t} : values'[u] = values[u],
         o \in values'[t] <=> o \in values[t]
  PROVE  Freeing(o)' = Freeing(o)
BY DEF Freeing

\* One reference more in the autorelease pool of t.
LEMMA PoolsGain ==
  ASSUME TypeOK, NEW t \in Threads, NEW o \in Objects,
         autoreleased'[t][o] = autoreleased[t][o] + 1,
         \A u \in Threads \ {t} : autoreleased'[u][o] = autoreleased[u][o]
  PROVE  \E x : x \notin Pools(o) /\ Pools(o)' = Pools(o) \cup {x}
<1>. DEFINE x == <<t, autoreleased[t][o] + 1>>
<1>1. autoreleased[t][o] \in Nat
  BY DEF TypeOK
<1>2. 1..(autoreleased[t][o] + 1) = (1..autoreleased[t][o]) \cup {autoreleased[t][o] + 1}
  BY <1>1
<1>3. x \notin Pools(o)
  BY <1>1 DEF Pools
<1>4. \A y : y \in Pools(o)' <=> y \in Pools(o) \/ y = x
  BY <1>2 DEF Pools
<1>. QED BY <1>3, <1>4

\* One reference less in the autorelease pool of t.
LEMMA PoolsLose ==
  ASSUME TypeOK, NEW t \in Threads, NEW o \in Objects, autoreleased[t][o] > 0,
         autoreleased'[t][o] = autoreleased[t][o] - 1,
         \A u \in Threads \ {t} : autoreleased'[u][o] = autoreleased[u][o]
  PROVE  \E x \in Pools(o) : Pools(o)' = Pools(o) \ {x}
<1>. DEFINE x == <<t, autoreleased[t][o]>>
<1>1. autoreleased[t][o] \in Nat
  BY DEF TypeOK
<1>2. 1..(autoreleased[t][o] - 1) = (1..autoreleased[t][o]) \ {autoreleased[t][o]}
  BY <1>1
<1>3. x \in Pools(o)
  BY <1>1 DEF Pools
<1>4. \A y : y \in Pools(o)' <=> y \in Pools(o) /\ y # x
  BY <1>2 DEF Pools
<1>. QED BY <1>3, <1>4

\* The autorelease pools that keep their references.
LEMMA PoolsStay ==
  ASSUME NEW o, \A u \in Threads : autoreleased'[u][o] = autoreleased[u][o]
  PROVE  Pools(o)' = Pools(o)
BY DEF Pools

\* An object that is referred to lives.
LEMMA ReferredLives ==
  ASSUME TypeOK, NEW o \in Objects, ObjectCounted(o),
         \/ \E h \in Hashes : cacheMapTable[h] = o
         \/ \E t \in Threads : Holds(t, o) \/ o \in values[t] \/ autoreleased[t][o] > 0
  PROVE  alive[o] = "live"
<1>1. ASSUME NEW t \in Threads, autoreleased[t][o] > 0
      PROVE  <<t, 1>> \in Pools(o)
  BY <1>1 DEF TypeOK, Pools
<1>. QED BY <1>1 DEF ObjectCounted, Tables, Calls, Freeing

\* So does one that a thread works with.
LEMMA InHandLives ==
  ASSUME TypeOK, CallKeeps, NEW t \in Threads, hand[t] # None, ObjectCounted(hand[t])
  PROVE  hand[t] \in Objects /\ alive[hand[t]] = "live"
<1>1. hand[t] \in Objects
  BY DEF TypeOK
<1>2. Holds(t, hand[t]) \/ autoreleased[t][hand[t]] > 0
  BY DEF CallKeeps, Holds
<1>. QED BY <1>1, <1>2, ReferredLives
-------------------------------------------------------------------------------
\* How a step changes the references and the count of an object.

\* T has d elements more than S: one more, the same ones, or one less.
Changes(S, T, d) ==
  \/ d = 1 /\ \E x : x \notin S /\ T = S \cup {x}
  \/ d = 0 /\ T = S
  \/ d = -1 /\ \E x \in S : T = S \ {x}

\* The cardinality changes by as much.
LEMMA Changed ==
  ASSUME NEW S, NEW T, NEW d, IsFiniteSet(S), Changes(S, T, d)
  PROVE  IsFiniteSet(T) /\ Cardinality(S) \in Nat /\ Cardinality(T) = Cardinality(S) + d
<1>. USE FS_CardinalityType
<1>1. CASE d = 1 /\ \E x : x \notin S /\ T = S \cup {x}
  BY <1>1, OneMore
<1>2. CASE d = 0 /\ T = S
  BY <1>2
<1>3. CASE d = -1 /\ \E x \in S : T = S \ {x}
  BY <1>3, OneLess
<1>. QED BY <1>1, <1>2, <1>3 DEF Changes

\* The references change by what the four kinds change by.
LEMMA ReferencesChange ==
  ASSUME NEW o, AllFinite(o),
         NEW a \in {-1, 0, 1}, NEW b \in {-1, 0, 1}, NEW c \in {-1, 0, 1}, NEW d \in {-1, 0, 1},
         Changes(Tables(o), Tables(o)', a), Changes(Calls(o), Calls(o)', b),
         Changes(Freeing(o), Freeing(o)', c), Changes(Pools(o), Pools(o)', d)
  PROVE  AllFinite(o)' /\ References(o)' = References(o) + (a + b + c + d)
<1>1. AllFinite(o)'
  BY Changed DEF AllFinite
<1>. DEFINE A == Cardinality(Tables(o))  A1 == Cardinality(Tables(o)')
            B == Cardinality(Calls(o))   B1 == Cardinality(Calls(o)')
            C == Cardinality(Freeing(o)) C1 == Cardinality(Freeing(o)')
            D == Cardinality(Pools(o))   D1 == Cardinality(Pools(o)')
<1>2. A \in Nat /\ B \in Nat /\ C \in Nat /\ D \in Nat
  BY FS_CardinalityType DEF AllFinite
<1>3. A1 = A + a /\ B1 = B + b /\ C1 = C + c /\ D1 = D + d
  BY Changed DEF AllFinite
<1>4. References(o) = A + B + C + D
  BY ReferencesCount
<1>5. References(o)' = A1 + B1 + C1 + D1
  BY <1>1, ReferencesCountNext
<1>6. \A i, j, k, l \in Nat :
        (i + a) + (j + b) + (k + c) + (l + d) = (i + j + k + l) + (a + b + c + d)
  OBVIOUS
<1>. HIDE DEF A, B, C, D, A1, B1, C1, D1
<1>. QED BY <1>1, <1>2, <1>3, <1>4, <1>5, <1>6

\* A living object whose references and count change together stays counted.
LEMMA CountedStep ==
  ASSUME NEW o \in Objects, ObjectCounted(o), alive[o] = "live",
         NEW a \in {-1, 0, 1}, NEW b \in {-1, 0, 1}, NEW c \in {-1, 0, 1}, NEW d \in {-1, 0, 1},
         Changes(Tables(o), Tables(o)', a), Changes(Calls(o), Calls(o)', b),
         Changes(Freeing(o), Freeing(o)', c), Changes(Pools(o), Pools(o)', d),
         NEW n \in {-1, 0, 1}, n = a + b + c + d,
         referenceCountMinusOne'[o] = referenceCountMinusOne[o] + n,
         alive'[o] = IF referenceCountMinusOne'[o] = -1 THEN "dead" ELSE "live",
         regexString'[o] = regexString[o]
  PROVE  ObjectCounted(o)'
<1>1. AllFinite(o)
  BY DEF ObjectCounted
<1>2. AllFinite(o)' /\ References(o)' = References(o) + n
  BY <1>1, ReferencesChange
<1>. QED BY <1>2, Recounted

\* A retain of the objects of a set.
LEMMA RetainCounts ==
  ASSUME NEW os, Retain(os), NEW o \in Objects, ObjectCounted(o), alive[o] = "live"
  PROVE  /\ referenceCountMinusOne'[o] = referenceCountMinusOne[o] + (IF o \in os THEN 1 ELSE 0)
         /\ alive'[o] = IF referenceCountMinusOne'[o] = -1 THEN "dead" ELSE "live"
         /\ regexString'[o] = regexString[o]
BY DEF Retain, ObjectCounted

\* It leaves the others alone.
LEMMA RetainLeaves ==
  ASSUME TypeOK, NEW os, Retain(os), NEW o \in Objects, o \notin os
  PROVE  /\ referenceCountMinusOne'[o] = referenceCountMinusOne[o]
         /\ alive'[o] = alive[o] /\ regexString'[o] = regexString[o]
BY DEF Retain, TypeOK

\* A release of a living object, and what it leaves alone.
LEMMA ReleaseCounts ==
  ASSUME TypeOK, NEW q \in Objects, Release(q), NEW o \in Objects, ObjectCounted(o)
  PROVE  /\ o = q /\ alive[o] = "live" =>
              /\ referenceCountMinusOne'[o] = referenceCountMinusOne[o] + (-1)
              /\ alive'[o] = IF referenceCountMinusOne'[o] = -1 THEN "dead" ELSE "live"
         /\ o # q => referenceCountMinusOne'[o] = referenceCountMinusOne[o] /\ alive'[o] = alive[o]
         /\ regexString'[o] = regexString[o]
BY DEF Release, ObjectCounted, TypeOK

\* A step that leaves the objects alone.
LEMMA ObjectsStay ==
  ASSUME UNCHANGED objects, NEW o \in Objects, ObjectCounted(o)
  PROVE  /\ referenceCountMinusOne'[o] = referenceCountMinusOne[o]
         /\ alive'[o] = alive[o] /\ regexString'[o] = regexString[o]
         /\ alive[o] = "live" =>
              /\ referenceCountMinusOne'[o] = referenceCountMinusOne[o] + 0
              /\ alive'[o] = IF referenceCountMinusOne'[o] = -1 THEN "dead" ELSE "live"
BY DEF objects, ObjectCounted

-------------------------------------------------------------------------------
\* The invariant holds in the initial states: there are no references.
LEMMA InitIInv ==
  ASSUME CacheAssumption, Init
  PROVE  IInv
<1>1. TypeOK
  BY DEF Init, TypeOK, CacheAssumption, Hashes, Pcs
<1>2. CallKeeps /\ OwnHash
  BY DEF Init, CallKeeps, OwnHash
<1>3. ASSUME NEW o \in Objects
      PROVE  ObjectCounted(o)
  <2>1. Tables(o) = {} /\ Calls(o) = {} /\ Freeing(o) = {}
    BY DEF Init, Tables, Calls, Holds, Freeing, CacheAssumption
  <2>2. Pools(o) = {}
    BY DEF Init, Pools
  <2>. QED BY <2>1, <2>2, FS_EmptySet DEF Init, ObjectCounted, AllFinite
<1>. QED BY <1>1, <1>2, <1>3 DEF IInv

\* Every step leaves each thread with what the point of its call needs.
LEMMA NextCallKeeps ==
  ASSUME CacheAssumption, IInv, [Next]_vars
  PROVE  CallKeeps'
<1>. USE DEF IInv, TypeOK, CallKeeps, CacheAssumption, Goto
<1>0. CASE UNCHANGED vars
  BY <1>0 DEF vars, cache, objects, setter
<1>. SUFFICES ASSUME NEW t \in Threads,
         \/ \E s \in Strings, keep \in BOOLEAN : BeginGet(t, s, keep)
         \/ Lookup(t) \/ Allocate(t) \/ Compiled(t) \/ CompileFailed(t)
         \/ Add(t) \/ RetainSelf(t) \/ Got(t) \/ Done(t)
         \/ \E o \in Objects : Drain(t, o)
         \/ \E s \in Strings : Remove(t, s)
         \/ Clear(t) \/ FreeValue(t) \/ CacheSet(t) \/ MakeSet(t)
         \/ \E f \in Settable, value \in BOOLEAN : ReadFlag(t, f, value)
         \/ SwapFlag(t)
       PROVE CallKeeps'
  BY <1>0 DEF Next
<1>1. ASSUME NEW s \in Strings, NEW keep \in BOOLEAN, BeginGet(t, s, keep)
      PROVE  CallKeeps'
  BY <1>1 DEF BeginGet, cache, objects, setter
<1>2. CASE Lookup(t)
  <2>. DEFINE o == cacheMapTable[HashOf[request[t]]]
  <2>1. UNCHANGED <<request, keeps, autoreleased, values>> /\ pc[t] = "lookup"
    BY <1>2 DEF Lookup
  <2>2. CASE o # None /\ pc' = [pc EXCEPT ![t] = "got"] /\ hand' = [hand EXCEPT ![t] = o]
    BY <2>1, <2>2
  <2>3. CASE pc' = [pc EXCEPT ![t] = "allocate"] /\ hand' = hand
    BY <2>1, <2>3
  <2>. QED BY <1>2, <2>2, <2>3 DEF Lookup
<1>3. CASE Allocate(t)
  BY <1>3 DEF Allocate, Autorelease, cache, objects, setter
<1>4. CASE Compiled(t)
  BY <1>4 DEF Compiled, cache, objects, setter
<1>5. CASE CompileFailed(t)
  BY <1>5 DEF CompileFailed, cache, objects, setter
<1>6. CASE Add(t)
  BY <1>6 DEF Add, cache, objects, setter, Retain
<1>7. CASE RetainSelf(t)
  BY <1>7 DEF RetainSelf, cache, objects, setter, Retain
<1>8. CASE Got(t)
  BY <1>8 DEF Got, Autorelease, cache, objects, setter
<1>9. CASE Done(t)
  BY <1>9 DEF Done, Release, cache, objects, setter
<1>10. ASSUME NEW o \in Objects, Drain(t, o)
       PROVE  CallKeeps'
  BY <1>10 DEF Drain, Release, cache, objects, setter
<1>11. ASSUME NEW s \in Strings, Remove(t, s)
       PROVE  CallKeeps'
  BY <1>11 DEF Remove, cache, objects, setter, Hashes
<1>12. CASE Clear(t)
  BY <1>12 DEF Clear, cache, objects, setter
<1>13. CASE FreeValue(t)
  BY <1>13 DEF FreeValue, Release, cache, objects, setter
<1>14. CASE CacheSet(t)
  BY <1>14 DEF CacheSet, Retain, cache, objects, setter
<1>15. CASE MakeSet(t)
  BY <1>15 DEF MakeSet, Retain, cache, objects, setter
<1>16. ASSUME NEW f \in Settable, NEW value \in BOOLEAN, ReadFlag(t, f, value)
       PROVE  CallKeeps'
  BY <1>16 DEF ReadFlag, cache, objects, setter
<1>17. CASE SwapFlag(t)
  BY <1>17 DEF SwapFlag, cache, objects, setter
<1>. QED BY <1>1, <1>2, <1>3, <1>4, <1>5, <1>6, <1>7, <1>8, <1>9, <1>10, <1>11, <1>12,
            <1>13, <1>14, <1>15, <1>16, <1>17

\* An object is added under its own hash, and its string never changes.
LEMMA NextOwnHash ==
  ASSUME CacheAssumption, IInv, [Next]_vars
  PROVE  OwnHash'
<1>. USE DEF IInv, OwnHash
<1>1. \A h \in Hashes : cacheMapTable[h] # None =>
        cacheMapTable[h] \in Objects /\ alive[cacheMapTable[h]] = "live"
  BY ReferredLives DEF TypeOK
<1>2. CASE UNCHANGED <<cacheMapTable, regexString>>
  BY <1>2
<1>3. ASSUME NEW t \in Threads, Allocate(t)
      PROVE  OwnHash'
  <2>1. PICK o \in Objects : alive[o] = "fresh" /\ regexString' = [regexString EXCEPT ![o] = request[t]]
    BY <1>3 DEF Allocate
  <2>2. \A q \in Objects : q # o => regexString'[q] = regexString[q]
    BY <2>1 DEF TypeOK
  <2>. QED BY <1>1, <1>3, <2>1, <2>2 DEF Allocate, cache
<1>4. ASSUME NEW t \in Threads, Add(t)
      PROVE  OwnHash'
  <2>1. CASE UNCHANGED <<cacheMapTable, objects>>
    BY <1>2, <2>1 DEF objects
  <2>2. CASE /\ cacheMapTable' = [cacheMapTable EXCEPT ![HashOf[regexString[hand[t]]]] = hand[t]]
             /\ regexString' = regexString
    BY <2>2 DEF TypeOK
  <2>. QED BY <1>4, <2>1, <2>2 DEF Add, Retain
<1>5. ASSUME NEW t \in Threads, NEW s \in Strings, Remove(t, s)
      PROVE  OwnHash'
  BY <1>5 DEF Remove, objects, TypeOK
<1>6. ASSUME NEW t \in Threads, Clear(t)
      PROVE  OwnHash'
  BY <1>6 DEF Clear
<1>. QED
  BY <1>2, <1>3, <1>4, <1>5, <1>6
     DEF Next, vars, cache, objects, BeginGet, Lookup, Compiled, CompileFailed, RetainSelf, Got, Done,
         Drain, FreeValue, CacheSet, MakeSet, ReadFlag, SwapFlag, Retain, Release
-------------------------------------------------------------------------------
\* Every step keeps every object counted, one lemma per step.

\* What is the same in the four kinds when a step leaves their variables alone.
LEMMA KindsStay ==
  ASSUME NEW o
  PROVE  /\ UNCHANGED cacheMapTable => Tables(o)' = Tables(o)
         /\ (\A t \in Threads : Holds(t, o)' <=> Holds(t, o)) => Calls(o)' = Calls(o)
         /\ UNCHANGED values => Freeing(o)' = Freeing(o)
         /\ UNCHANGED autoreleased => Pools(o)' = Pools(o)
BY DEF Tables, Calls, Freeing, Pools

\* Steps that only move a call on: a lookup that begins or misses, a regex
\* compiled or refused, a flag read or swapped.
LEMMA QuietCounts ==
  ASSUME NEW o \in Objects, ObjectCounted(o),
         UNCHANGED <<cacheMapTable, objects, values, autoreleased>>,
         \A t \in Threads : Holds(t, o)' <=> Holds(t, o)
  PROVE  ObjectCounted(o)'
BY KindsStay, Untouched, ObjectsStay

\* Lookup: a hit is retained for the call.
LEMMA LookupCounts ==
  ASSUME CacheAssumption, IInv, NEW t \in Threads, Lookup(t), NEW o \in Objects
  PROVE  ObjectCounted(o)'
<1>. USE DEF IInv
<1>. DEFINE q == cacheMapTable[HashOf[request[t]]]
<1>1. /\ UNCHANGED <<cacheMapTable, request, keeps, values, autoreleased>> /\ pc[t] = "lookup"
      /\ HashOf[request[t]] \in Hashes
  BY DEF Lookup, cache, CallKeeps, Hashes
<1>2. CASE pc' = [pc EXCEPT ![t] = "allocate"] /\ UNCHANGED <<objects, hand>>
  <2>1. \A u \in Threads : Holds(u, o)' <=> Holds(u, o)
    BY <1>1, <1>2 DEF Holds, TypeOK
  <2>. QED BY <1>1, <1>2, <2>1, QuietCounts
<1>3. CASE /\ q # None /\ pc' = [pc EXCEPT ![t] = "got"] /\ hand' = [hand EXCEPT ![t] = q]
           /\ Retain({q})
  <2>1. \A u \in Threads \ {t} : pc'[u] = pc[u] /\ hand'[u] = hand[u] /\ keeps'[u] = keeps[u]
    BY <1>1, <1>3 DEF TypeOK
  <2>2. ~Holds(t, o) /\ (Holds(t, o)' <=> o = q)
    BY <1>1, <1>3 DEF Holds, TypeOK
  <2>3. Tables(o)' = Tables(o) /\ Freeing(o)' = Freeing(o) /\ Pools(o)' = Pools(o)
    BY <1>1, KindsStay
  <2>4. CASE o = q
    <3>1. alive[o] = "live"
      BY <1>1, <2>4, ReferredLives
    <3>2. Changes(Calls(o), Calls(o)', 1)
      BY <2>1, <2>2, <2>4, CallsChange DEF Changes
    <3>3. Changes(Tables(o), Tables(o)', 0) /\ Changes(Freeing(o), Freeing(o)', 0) /\ Changes(Pools(o), Pools(o)', 0)
      BY <2>3 DEF Changes
    <3>4. /\ referenceCountMinusOne'[o] = referenceCountMinusOne[o] + 1
          /\ alive'[o] = IF referenceCountMinusOne'[o] = -1 THEN "dead" ELSE "live"
          /\ regexString'[o] = regexString[o]
      BY <1>3, <2>4, <3>1, RetainCounts
    <3>. QED BY <3>1, <3>2, <3>3, <3>4, CountedStep
  <2>5. CASE o # q
    <3>1. Calls(o)' = Calls(o)
      BY <2>1, <2>2, <2>5, CallsChange
    <3>. QED BY <1>3, <2>3, <2>5, <3>1, RetainLeaves, Untouched
  <2>. QED BY <2>4, <2>5
<1>. QED BY <1>2, <1>3 DEF Lookup, Goto

\* RetainSelf: the object made is retained for the call.
LEMMA RetainSelfCounts ==
  ASSUME CacheAssumption, IInv, NEW t \in Threads, RetainSelf(t), NEW o \in Objects
  PROVE  ObjectCounted(o)'
<1>. USE DEF IInv
<1>1. /\ UNCHANGED <<cacheMapTable, hand, keeps, values, autoreleased>> /\ pc[t] = "retain"
      /\ pc' = [pc EXCEPT ![t] = "got"] /\ Retain({hand[t]}) /\ hand[t] # None
  BY DEF RetainSelf, cache, Goto, CallKeeps
<1>2. \A u \in Threads \ {t} : pc'[u] = pc[u] /\ hand'[u] = hand[u] /\ keeps'[u] = keeps[u]
  BY <1>1 DEF TypeOK
<1>3. ~Holds(t, o) /\ (Holds(t, o)' <=> o = hand[t])
  BY <1>1 DEF Holds, TypeOK
<1>4. Tables(o)' = Tables(o) /\ Freeing(o)' = Freeing(o) /\ Pools(o)' = Pools(o)
  BY <1>1, KindsStay
<1>5. CASE o = hand[t]
  <2>1. alive[o] = "live"
    BY <1>1, <1>5, InHandLives
  <2>2. Changes(Calls(o), Calls(o)', 1)
    BY <1>2, <1>3, <1>5, CallsChange DEF Changes
  <2>3. Changes(Tables(o), Tables(o)', 0) /\ Changes(Freeing(o), Freeing(o)', 0) /\ Changes(Pools(o), Pools(o)', 0)
    BY <1>4 DEF Changes
  <2>4. /\ referenceCountMinusOne'[o] = referenceCountMinusOne[o] + 1
        /\ alive'[o] = IF referenceCountMinusOne'[o] = -1 THEN "dead" ELSE "live"
        /\ regexString'[o] = regexString[o]
    BY <1>1, <1>5, <2>1, RetainCounts
  <2>. QED BY <2>1, <2>2, <2>3, <2>4, CountedStep
<1>6. CASE o # hand[t]
  <2>1. Calls(o)' = Calls(o)
    BY <1>2, <1>3, <1>6, CallsChange
  <2>. QED BY <1>1, <1>4, <1>6, <2>1, RetainLeaves, Untouched
<1>. QED BY <1>5, <1>6

\* Allocate: a new object has one reference, in the pool of its thread.
LEMMA AllocateCounts ==
  ASSUME CacheAssumption, IInv, NEW t \in Threads, Allocate(t), NEW o \in Objects
  PROVE  ObjectCounted(o)'
<1>. USE DEF IInv
<1>1. PICK q \in Objects :
        /\ alive[q] = "fresh" /\ alive' = [alive EXCEPT ![q] = "live"]
        /\ regexString' = [regexString EXCEPT ![q] = request[t]]
        /\ hand' = [hand EXCEPT ![t] = q]
        /\ autoreleased' = [autoreleased EXCEPT ![t][q] = @ + 1]
  BY DEF Allocate, Autorelease
<1>2. /\ UNCHANGED <<cacheMapTable, referenceCountMinusOne, keeps, values>>
      /\ pc[t] = "allocate" /\ pc' = [pc EXCEPT ![t] = "compile"] /\ request[t] \in Strings
  BY DEF Allocate, cache, Goto, CallKeeps
<1>3. \A u \in Threads : Holds(u, o)' <=> Holds(u, o)
  BY <1>1, <1>2 DEF Holds, TypeOK
<1>4. Tables(o)' = Tables(o) /\ Calls(o)' = Calls(o) /\ Freeing(o)' = Freeing(o)
  BY <1>2, <1>3, KindsStay
<1>5. CASE o = q
  <2>1. \E x : x \notin Pools(o) /\ Pools(o)' = Pools(o) \cup {x}
    BY <1>1, <1>5, PoolsGain DEF TypeOK
  <2>2. AllFinite(o) /\ Tables(o) = {} /\ Calls(o) = {} /\ Freeing(o) = {} /\ Pools(o) = {}
    BY <1>1, <1>5 DEF ObjectCounted
  <2>3. /\ Changes(Tables(o), Tables(o)', 0) /\ Changes(Calls(o), Calls(o)', 0)
        /\ Changes(Freeing(o), Freeing(o)', 0) /\ Changes(Pools(o), Pools(o)', 1)
    BY <1>4, <2>1 DEF Changes
  <2>4. AllFinite(o)' /\ References(o)' = References(o) + 1
    BY <2>2, <2>3, ReferencesChange
  <2>5. References(o) = 0
    <3>1. References(o) = Cardinality({}) + Cardinality({}) + Cardinality({}) + Cardinality({})
      BY <2>2, ReferencesCount
    <3>2. Cardinality({}) = 0
      BY FS_EmptySet
    <3>. QED BY <3>1, <3>2
  <2>6. referenceCountMinusOne'[o] = 0 /\ alive'[o] = "live" /\ regexString'[o] \in Strings
    BY <1>1, <1>2, <1>5 DEF ObjectCounted, TypeOK
  <2>. QED BY <2>4, <2>5, <2>6 DEF ObjectCounted
<1>6. CASE o # q
  <2>1. Pools(o)' = Pools(o)
    BY <1>1, <1>6, PoolsStay DEF TypeOK
  <2>2. alive'[o] = alive[o] /\ regexString'[o] = regexString[o]
    BY <1>1, <1>6 DEF TypeOK
  <2>. QED BY <1>2, <1>4, <2>1, <2>2, Untouched
<1>. QED BY <1>5, <1>6

\* Add: the table retains what it did not have.
LEMMA AddCounts ==
  ASSUME CacheAssumption, IInv, NEW t \in Threads, Add(t), NEW o \in Objects
  PROVE  ObjectCounted(o)'
<1>. USE DEF IInv
<1>. DEFINE h == HashOf[regexString[hand[t]]]
<1>1. /\ UNCHANGED <<hand, keeps, values, autoreleased>> /\ pc[t] = "add"
      /\ pc' = [pc EXCEPT ![t] = "retain"] /\ hand[t] # None
  BY DEF Add, Goto, CallKeeps
<1>2. hand[t] \in Objects /\ alive[hand[t]] = "live" /\ h \in Hashes
  <2>1. hand[t] \in Objects /\ alive[hand[t]] = "live"
    BY <1>1, InHandLives DEF TypeOK
  <2>. QED BY <2>1 DEF ObjectCounted, Hashes
<1>3. \A u \in Threads : Holds(u, o)' <=> Holds(u, o)
  BY <1>1 DEF Holds, TypeOK
<1>4. Calls(o)' = Calls(o) /\ Freeing(o)' = Freeing(o) /\ Pools(o)' = Pools(o)
  BY <1>1, <1>3, KindsStay
<1>5. CASE UNCHANGED <<cacheMapTable, objects>>
  BY <1>1, <1>3, <1>5, QuietCounts
<1>6. CASE /\ cacheMapTable[h] = None /\ cacheMapTable' = [cacheMapTable EXCEPT ![h] = hand[t]]
           /\ Retain({hand[t]})
  <2>1. Tables(o)' = IF hand[t] = o THEN Tables(o) \cup {h} ELSE Tables(o) \ {h}
    BY <1>2, <1>6, TablesChange
  <2>2. h \notin Tables(o)
    BY <1>6 DEF Tables, CacheAssumption
  <2>3. CASE o = hand[t]
    <3>1. Changes(Tables(o), Tables(o)', 1)
      BY <2>1, <2>2, <2>3 DEF Changes
    <3>2. Changes(Calls(o), Calls(o)', 0) /\ Changes(Freeing(o), Freeing(o)', 0) /\ Changes(Pools(o), Pools(o)', 0)
      BY <1>4 DEF Changes
    <3>3. /\ referenceCountMinusOne'[o] = referenceCountMinusOne[o] + 1
          /\ alive'[o] = IF referenceCountMinusOne'[o] = -1 THEN "dead" ELSE "live"
          /\ regexString'[o] = regexString[o]
      BY <1>2, <1>6, <2>3, RetainCounts
    <3>. QED BY <1>2, <2>3, <3>1, <3>2, <3>3, CountedStep
  <2>4. CASE o # hand[t]
    <3>1. Tables(o)' = Tables(o)
      BY <2>1, <2>2, <2>4
    <3>. QED BY <1>4, <1>6, <2>4, <3>1, RetainLeaves, Untouched
  <2>. QED BY <2>3, <2>4
<1>. QED BY <1>5, <1>6 DEF Add

\* Got: the call's reference goes to the caller, or to the pool.
LEMMA GotCounts ==
  ASSUME CacheAssumption, IInv, NEW t \in Threads, Got(t), NEW o \in Objects
  PROVE  ObjectCounted(o)'
<1>. USE DEF IInv
<1>1. /\ UNCHANGED <<cacheMapTable, objects, hand, keeps, values>> /\ pc[t] = "got"
      /\ pc' = [pc EXCEPT ![t] = "use"] /\ hand[t] \in Objects
      /\ IF keeps[t] THEN UNCHANGED autoreleased
                     ELSE autoreleased' = [autoreleased EXCEPT ![t][hand[t]] = @ + 1]
  BY DEF Got, Goto, CallKeeps, cache, Autorelease, TypeOK
<1>2. CASE keeps[t] \/ o # hand[t]
  <2>1. \A u \in Threads : Holds(u, o)' <=> Holds(u, o)
    BY <1>1, <1>2 DEF Holds, TypeOK
  <2>2. \A u \in Threads : autoreleased'[u][o] = autoreleased[u][o]
    BY <1>1, <1>2 DEF TypeOK
  <2>3. Tables(o)' = Tables(o) /\ Calls(o)' = Calls(o) /\ Freeing(o)' = Freeing(o) /\ Pools(o)' = Pools(o)
    BY <1>1, <2>1, <2>2, KindsStay, PoolsStay
  <2>. QED BY <1>1, <2>3, ObjectsStay, Untouched
<1>3. CASE ~keeps[t] /\ o = hand[t]
  <2>1. \A u \in Threads \ {t} : pc'[u] = pc[u] /\ hand'[u] = hand[u] /\ keeps'[u] = keeps[u]
    BY <1>1 DEF TypeOK
  <2>2. Holds(t, o) /\ ~Holds(t, o)'
    BY <1>1, <1>3 DEF Holds, TypeOK
  <2>3. Changes(Calls(o), Calls(o)', -1)
    BY <2>1, <2>2, CallsChange DEF Changes
  <2>4. Changes(Pools(o), Pools(o)', 1)
    <3>1. autoreleased'[t][o] = autoreleased[t][o] + 1
      BY <1>1, <1>3 DEF TypeOK
    <3>2. \A u \in Threads \ {t} : autoreleased'[u][o] = autoreleased[u][o]
      BY <1>1, <1>3 DEF TypeOK
    <3>. QED BY <3>1, <3>2, PoolsGain DEF Changes
  <2>5. Changes(Tables(o), Tables(o)', 0) /\ Changes(Freeing(o), Freeing(o)', 0)
    BY <1>1, KindsStay DEF Changes
  <2>6. alive[o] = "live"
    BY <2>2, ReferredLives
  <2>7. /\ referenceCountMinusOne'[o] = referenceCountMinusOne[o] + 0
        /\ alive'[o] = IF referenceCountMinusOne'[o] = -1 THEN "dead" ELSE "live"
        /\ regexString'[o] = regexString[o]
    BY <1>1, <2>6, ObjectsStay
  <2>. QED BY <2>3, <2>4, <2>5, <2>6, <2>7, CountedStep
<1>. QED BY <1>2, <1>3

\* Done: the caller releases the regex it owns.
LEMMA DoneCounts ==
  ASSUME CacheAssumption, IInv, NEW t \in Threads, Done(t), NEW o \in Objects
  PROVE  ObjectCounted(o)'
<1>. USE DEF IInv
<1>1. /\ UNCHANGED <<cacheMapTable, autoreleased, values>> /\ pc[t] = "use"
      /\ pc' = [pc EXCEPT ![t] = "idle"] /\ hand[t] \in Objects
      /\ hand' = [hand EXCEPT ![t] = None] /\ keeps' = [keeps EXCEPT ![t] = FALSE]
      /\ IF keeps[t] THEN Release(hand[t]) ELSE UNCHANGED objects
  BY DEF Done, Goto, CallKeeps, cache, TypeOK
<1>2. \A u \in Threads \ {t} : pc'[u] = pc[u] /\ hand'[u] = hand[u] /\ keeps'[u] = keeps[u]
  BY <1>1 DEF TypeOK
<1>3. ~Holds(t, o)' /\ (Holds(t, o) <=> keeps[t] /\ o = hand[t])
  BY <1>1 DEF Holds, TypeOK
<1>4. Tables(o)' = Tables(o) /\ Freeing(o)' = Freeing(o) /\ Pools(o)' = Pools(o)
  BY <1>1, KindsStay
<1>5. CASE keeps[t] /\ o = hand[t]
  <2>1. Changes(Calls(o), Calls(o)', -1)
    BY <1>2, <1>3, <1>5, CallsChange DEF Changes
  <2>2. Changes(Tables(o), Tables(o)', 0) /\ Changes(Freeing(o), Freeing(o)', 0) /\ Changes(Pools(o), Pools(o)', 0)
    BY <1>4 DEF Changes
  <2>3. alive[o] = "live"
    BY <1>3, <1>5, ReferredLives
  <2>4. /\ referenceCountMinusOne'[o] = referenceCountMinusOne[o] + (-1)
        /\ alive'[o] = IF referenceCountMinusOne'[o] = -1 THEN "dead" ELSE "live"
        /\ regexString'[o] = regexString[o]
    BY <1>1, <1>5, <2>3, ReleaseCounts
  <2>. QED BY <2>1, <2>2, <2>3, <2>4, CountedStep
<1>6. CASE ~(keeps[t] /\ o = hand[t])
  <2>1. Calls(o)' = Calls(o)
    BY <1>2, <1>3, <1>6, CallsChange
  <2>2. /\ referenceCountMinusOne'[o] = referenceCountMinusOne[o]
        /\ alive'[o] = alive[o] /\ regexString'[o] = regexString[o]
    BY <1>1, <1>6, ReleaseCounts, ObjectsStay
  <2>. QED BY <1>4, <2>1, <2>2, Untouched
<1>. QED BY <1>5, <1>6

\* Drain: a reference of the pool is released.
LEMMA DrainCounts ==
  ASSUME CacheAssumption, IInv, NEW t \in Threads, NEW q \in Objects, Drain(t, q), NEW o \in Objects
  PROVE  ObjectCounted(o)'
<1>. USE DEF IInv
<1>1. /\ UNCHANGED <<cacheMapTable, hand, keeps, values>> /\ autoreleased[t][q] > 0
      /\ pc[t] \in {"idle", "draining"} /\ Release(q)
      /\ autoreleased' = [autoreleased EXCEPT ![t][q] = @ - 1]
      /\ pc'[t] \in {"idle", "draining"} /\ \A u \in Threads \ {t} : pc'[u] = pc[u]
  BY DEF Drain, cache, TypeOK
<1>2. \A u \in Threads : Holds(u, o)' <=> Holds(u, o)
  BY <1>1 DEF Holds
<1>3. Tables(o)' = Tables(o) /\ Calls(o)' = Calls(o) /\ Freeing(o)' = Freeing(o)
  BY <1>1, <1>2, KindsStay
<1>4. CASE o = q
  <2>1. alive[o] = "live"
    BY <1>1, <1>4, ReferredLives
  <2>2. /\ autoreleased'[t][o] = autoreleased[t][o] - 1
        /\ \A u \in Threads \ {t} : autoreleased'[u][o] = autoreleased[u][o]
    BY <1>1, <1>4 DEF TypeOK
  <2>3. Changes(Pools(o), Pools(o)', -1)
    BY <1>1, <1>4, <2>2, PoolsLose DEF Changes
  <2>4. Changes(Tables(o), Tables(o)', 0) /\ Changes(Calls(o), Calls(o)', 0) /\ Changes(Freeing(o), Freeing(o)', 0)
    BY <1>3 DEF Changes
  <2>5. /\ referenceCountMinusOne'[o] = referenceCountMinusOne[o] + (-1)
        /\ alive'[o] = IF referenceCountMinusOne'[o] = -1 THEN "dead" ELSE "live"
        /\ regexString'[o] = regexString[o]
    BY <1>1, <1>4, <2>1, ReleaseCounts
  <2>. QED BY <2>1, <2>3, <2>4, <2>5, CountedStep
<1>5. CASE o # q
  <2>1. \A u \in Threads : autoreleased'[u][o] = autoreleased[u][o]
    BY <1>1, <1>5 DEF TypeOK
  <2>2. Pools(o)' = Pools(o)
    BY <2>1, PoolsStay
  <2>3. /\ referenceCountMinusOne'[o] = referenceCountMinusOne[o]
        /\ alive'[o] = alive[o] /\ regexString'[o] = regexString[o]
    BY <1>1, <1>5, ReleaseCounts
  <2>. QED BY <1>3, <2>2, <2>3, Untouched
<1>. QED BY <1>4, <1>5

\* Remove: the table's reference becomes the call's.
LEMMA RemoveCounts ==
  ASSUME CacheAssumption, IInv, NEW t \in Threads, NEW s \in Strings, Remove(t, s), NEW o \in Objects
  PROVE  ObjectCounted(o)'
<1>. USE DEF IInv
<1>. DEFINE h == HashOf[s]
            q == cacheMapTable[h]
<1>1. /\ UNCHANGED <<objects, keeps, autoreleased, values>> /\ pc[t] = "idle" /\ q # None
      /\ pc' = [pc EXCEPT ![t] = "got"] /\ hand' = [hand EXCEPT ![t] = q]
      /\ cacheMapTable' = [cacheMapTable EXCEPT ![h] = None] /\ h \in Hashes
  BY DEF Remove, Goto, Hashes
<1>2. \A u \in Threads \ {t} : pc'[u] = pc[u] /\ hand'[u] = hand[u] /\ keeps'[u] = keeps[u]
  BY <1>1 DEF TypeOK
<1>3. ~Holds(t, o) /\ (Holds(t, o)' <=> o = q)
  BY <1>1 DEF Holds, TypeOK
<1>4. Freeing(o)' = Freeing(o) /\ Pools(o)' = Pools(o)
  BY <1>1, KindsStay
<1>5. Tables(o)' = Tables(o) \ {h}
  <2>1. None # o
    BY DEF CacheAssumption
  <2>2. Tables(o)' = IF None = o THEN Tables(o) \cup {h} ELSE Tables(o) \ {h}
    BY <1>1, TablesChange
  <2>. QED BY <2>1, <2>2
<1>6. h \in Tables(o) <=> o = q
  BY <1>1 DEF Tables
<1>7. CASE o = q
  <2>1. Changes(Calls(o), Calls(o)', 1)
    BY <1>2, <1>3, <1>7, CallsChange DEF Changes
  <2>2. Changes(Tables(o), Tables(o)', -1)
    BY <1>5, <1>6, <1>7 DEF Changes
  <2>3. Changes(Freeing(o), Freeing(o)', 0) /\ Changes(Pools(o), Pools(o)', 0)
    BY <1>4 DEF Changes
  <2>4. alive[o] = "live"
    BY <1>1, <1>7, ReferredLives
  <2>5. /\ referenceCountMinusOne'[o] = referenceCountMinusOne[o] + 0
        /\ alive'[o] = IF referenceCountMinusOne'[o] = -1 THEN "dead" ELSE "live"
        /\ regexString'[o] = regexString[o]
    BY <1>1, <2>4, ObjectsStay
  <2>. QED BY <2>1, <2>2, <2>3, <2>4, <2>5, CountedStep
<1>8. CASE o # q
  <2>1. Calls(o)' = Calls(o)
    BY <1>2, <1>3, <1>8, CallsChange
  <2>2. Tables(o)' = Tables(o)
    BY <1>5, <1>6, <1>8
  <2>. QED BY <1>1, <1>4, <2>1, <2>2, ObjectsStay, Untouched
<1>. QED BY <1>7, <1>8

\* Clear: the table's references become those of the thread that frees it.
LEMMA ClearCounts ==
  ASSUME CacheAssumption, IInv, NEW t \in Threads, Clear(t), NEW o \in Objects
  PROVE  ObjectCounted(o)'
<1>. USE DEF IInv
<1>1. /\ UNCHANGED <<objects, hand, keeps, autoreleased>> /\ pc[t] = "idle"
      /\ pc' = [pc EXCEPT ![t] = "freeing"] /\ values' = [values EXCEPT ![t] = Cached]
      /\ cacheMapTable' = [h \in Hashes |-> None] /\ values[t] = {}
  BY DEF Clear, Goto, CallKeeps
<1>2. \A u \in Threads : Holds(u, o)' <=> Holds(u, o)
  BY <1>1 DEF Holds, TypeOK
<1>3. Calls(o)' = Calls(o) /\ Pools(o)' = Pools(o)
  BY <1>1, <1>2, KindsStay
<1>4. Tables(o)' = {}
  BY <1>1 DEF Tables, CacheAssumption
<1>5. values'[t] = Cached /\ \A u \in Threads \ {t} : values'[u] = values[u]
  BY <1>1 DEF TypeOK
<1>6. CASE o \in Cached
  <2>1. PICK h \in Hashes : cacheMapTable[h] = o
    BY <1>6 DEF Cached
  <2>2. Tables(o) = {h}
    BY <2>1 DEF Tables, OwnHash, CacheAssumption
  <2>3. Changes(Tables(o), Tables(o)', -1)
    BY <1>4, <2>2 DEF Changes
  <2>4. Changes(Freeing(o), Freeing(o)', 1)
    BY <1>1, <1>5, <1>6, FreeingChanges DEF Changes
  <2>5. Changes(Calls(o), Calls(o)', 0) /\ Changes(Pools(o), Pools(o)', 0)
    BY <1>3 DEF Changes
  <2>6. alive[o] = "live"
    BY <2>1, ReferredLives
  <2>7. /\ referenceCountMinusOne'[o] = referenceCountMinusOne[o] + 0
        /\ alive'[o] = IF referenceCountMinusOne'[o] = -1 THEN "dead" ELSE "live"
        /\ regexString'[o] = regexString[o]
    BY <1>1, <2>6, ObjectsStay
  <2>. QED BY <2>3, <2>4, <2>5, <2>6, <2>7, CountedStep
<1>7. CASE o \notin Cached
  <2>1. Tables(o) = {}
    BY <1>7 DEF Tables, Cached, CacheAssumption
  <2>2. Freeing(o)' = Freeing(o)
    BY <1>1, <1>5, <1>7, FreeingStays
  <2>. QED BY <1>1, <1>3, <1>4, <2>1, <2>2, ObjectsStay, Untouched
<1>. QED BY <1>6, <1>7

\* FreeValue: a value of the old table, or of the set, is released.
LEMMA FreeValueCounts ==
  ASSUME CacheAssumption, IInv, NEW t \in Threads, FreeValue(t), NEW o \in Objects
  PROVE  ObjectCounted(o)'
<1>. USE DEF IInv
<1>1. PICK q \in values[t] :
        /\ pc[t] = "freeing" /\ values' = [values EXCEPT ![t] = @ \ {q}] /\ Release(q)
        /\ pc' = [pc EXCEPT ![t] = IF values[t] = {q} THEN "idle" ELSE "freeing"]
        /\ UNCHANGED <<cacheMapTable, hand, keeps, autoreleased>>
  BY DEF FreeValue, cache
<1>2. q \in Objects
  BY DEF TypeOK
<1>3. \A u \in Threads : Holds(u, o)' <=> Holds(u, o)
  BY <1>1 DEF Holds, TypeOK
<1>4. Tables(o)' = Tables(o) /\ Calls(o)' = Calls(o) /\ Pools(o)' = Pools(o)
  BY <1>1, <1>3, KindsStay
<1>5. values'[t] = values[t] \ {q} /\ \A u \in Threads \ {t} : values'[u] = values[u]
  BY <1>1 DEF TypeOK
<1>6. CASE o = q
  <2>1. Changes(Freeing(o), Freeing(o)', -1)
    BY <1>5, <1>6, FreeingChanges DEF Changes
  <2>2. Changes(Tables(o), Tables(o)', 0) /\ Changes(Calls(o), Calls(o)', 0) /\ Changes(Pools(o), Pools(o)', 0)
    BY <1>4 DEF Changes
  <2>3. alive[o] = "live"
    BY <1>6, ReferredLives
  <2>4. /\ referenceCountMinusOne'[o] = referenceCountMinusOne[o] + (-1)
        /\ alive'[o] = IF referenceCountMinusOne'[o] = -1 THEN "dead" ELSE "live"
        /\ regexString'[o] = regexString[o]
    BY <1>1, <1>2, <1>6, <2>3, ReleaseCounts
  <2>. QED BY <2>1, <2>2, <2>3, <2>4, CountedStep
<1>7. CASE o # q
  <2>1. Freeing(o)' = Freeing(o)
    BY <1>5, <1>7, FreeingStays
  <2>2. /\ referenceCountMinusOne'[o] = referenceCountMinusOne[o]
        /\ alive'[o] = alive[o] /\ regexString'[o] = regexString[o]
    BY <1>1, <1>2, <1>7, ReleaseCounts
  <2>. QED BY <1>4, <2>1, <2>2, Untouched
<1>. QED BY <1>6, <1>7

\* CacheSet: the objects of the table are retained for the thread.
LEMMA CacheSetCounts ==
  ASSUME CacheAssumption, IInv, NEW t \in Threads, CacheSet(t), NEW o \in Objects
  PROVE  ObjectCounted(o)'
<1>. USE DEF IInv
<1>1. /\ UNCHANGED <<cacheMapTable, hand, keeps, autoreleased>> /\ pc[t] = "idle"
      /\ pc' = [pc EXCEPT ![t] = "set"] /\ values' = [values EXCEPT ![t] = Cached]
      /\ Retain(Cached) /\ values[t] = {}
  BY DEF CacheSet, Goto, CallKeeps, cache
<1>2. \A u \in Threads : Holds(u, o)' <=> Holds(u, o)
  BY <1>1 DEF Holds, TypeOK
<1>3. Tables(o)' = Tables(o) /\ Calls(o)' = Calls(o) /\ Pools(o)' = Pools(o)
  BY <1>1, <1>2, KindsStay
<1>4. values'[t] = Cached /\ \A u \in Threads \ {t} : values'[u] = values[u]
  BY <1>1 DEF TypeOK
<1>5. CASE o \in Cached
  <2>1. Changes(Freeing(o), Freeing(o)', 1)
    BY <1>1, <1>4, <1>5, FreeingChanges DEF Changes
  <2>2. Changes(Tables(o), Tables(o)', 0) /\ Changes(Calls(o), Calls(o)', 0) /\ Changes(Pools(o), Pools(o)', 0)
    BY <1>3 DEF Changes
  <2>3. alive[o] = "live"
    BY <1>5, ReferredLives DEF Cached
  <2>4. /\ referenceCountMinusOne'[o] = referenceCountMinusOne[o] + 1
        /\ alive'[o] = IF referenceCountMinusOne'[o] = -1 THEN "dead" ELSE "live"
        /\ regexString'[o] = regexString[o]
    BY <1>1, <1>5, <2>3, RetainCounts
  <2>. QED BY <2>1, <2>2, <2>3, <2>4, CountedStep
<1>6. CASE o \notin Cached
  <2>1. Freeing(o)' = Freeing(o)
    BY <1>1, <1>4, <1>6, FreeingStays
  <2>. QED BY <1>1, <1>3, <1>6, <2>1, RetainLeaves, Untouched
<1>. QED BY <1>5, <1>6

\* MakeSet: the autoreleased set retains them once more.
LEMMA MakeSetCounts ==
  ASSUME CacheAssumption, IInv, NEW t \in Threads, MakeSet(t), NEW o \in Objects
  PROVE  ObjectCounted(o)'
<1>. USE DEF IInv
<1>1. /\ UNCHANGED <<cacheMapTable, hand, keeps, values>> /\ pc[t] = "set"
      /\ pc' = [pc EXCEPT ![t] = "freeing"] /\ Retain(values[t])
      /\ autoreleased' = [autoreleased EXCEPT ![t] =
            [q \in Objects |-> @[q] + (IF q \in values[t] THEN 1 ELSE 0)]]
  BY DEF MakeSet, Goto, cache
<1>2. \A u \in Threads : Holds(u, o)' <=> Holds(u, o)
  BY <1>1 DEF Holds, TypeOK
<1>3. Tables(o)' = Tables(o) /\ Calls(o)' = Calls(o) /\ Freeing(o)' = Freeing(o)
  BY <1>1, <1>2, KindsStay
<1>4. /\ autoreleased'[t][o] = autoreleased[t][o] + (IF o \in values[t] THEN 1 ELSE 0)
      /\ \A u \in Threads \ {t} : autoreleased'[u][o] = autoreleased[u][o]
  BY <1>1 DEF TypeOK
<1>5. CASE o \in values[t]
  <2>1. Changes(Pools(o), Pools(o)', 1)
    BY <1>4, <1>5, PoolsGain DEF Changes
  <2>2. Changes(Tables(o), Tables(o)', 0) /\ Changes(Calls(o), Calls(o)', 0) /\ Changes(Freeing(o), Freeing(o)', 0)
    BY <1>3 DEF Changes
  <2>3. alive[o] = "live"
    BY <1>5, ReferredLives
  <2>4. /\ referenceCountMinusOne'[o] = referenceCountMinusOne[o] + 1
        /\ alive'[o] = IF referenceCountMinusOne'[o] = -1 THEN "dead" ELSE "live"
        /\ regexString'[o] = regexString[o]
    BY <1>1, <1>5, <2>3, RetainCounts
  <2>. QED BY <2>1, <2>2, <2>3, <2>4, CountedStep
<1>6. CASE o \notin values[t]
  <2>1. autoreleased'[t][o] = autoreleased[t][o]
    BY <1>4, <1>6 DEF TypeOK
  <2>2. Pools(o)' = Pools(o)
    BY <1>4, <2>1, PoolsStay
  <2>. QED BY <1>1, <1>3, <1>6, <2>2, RetainLeaves, Untouched
<1>. QED BY <1>5, <1>6

\* Every step leaves every object counted.
LEMMA NextCounted ==
  ASSUME CacheAssumption, IInv, [Next]_vars, NEW o \in Objects
  PROVE  ObjectCounted(o)'
<1>0. ObjectCounted(o)
  BY DEF IInv
<1>1. CASE UNCHANGED vars
  <2>1. UNCHANGED <<cacheMapTable, objects, values, autoreleased, pc, hand, keeps>>
    BY <1>1 DEF vars, cache
  <2>. QED BY <1>0, <2>1, QuietCounts DEF Holds
<1>2. ASSUME NEW t \in Threads,
             UNCHANGED <<cacheMapTable, objects, values, autoreleased>>,
             \A u \in Threads \ {t} : pc'[u] = pc[u] /\ hand'[u] = hand[u] /\ keeps'[u] = keeps[u],
             pc[t] \notin {"got", "use"}, pc'[t] \notin {"got", "use"}
      PROVE  ObjectCounted(o)'
  <2>1. \A u \in Threads : Holds(u, o)' <=> Holds(u, o)
    BY <1>2 DEF Holds
  <2>. QED BY <1>0, <1>2, <2>1, QuietCounts
<1>3. ASSUME NEW t \in Threads, NEW s \in Strings, NEW keep \in BOOLEAN, BeginGet(t, s, keep)
      PROVE  ObjectCounted(o)'
  <2>1. /\ UNCHANGED <<cacheMapTable, objects, values, autoreleased>>
        /\ \A u \in Threads \ {t} : pc'[u] = pc[u] /\ hand'[u] = hand[u] /\ keeps'[u] = keeps[u]
        /\ pc[t] = "idle" /\ pc'[t] = "lookup"
    BY <1>3 DEF BeginGet, Goto, IInv, TypeOK, cache
  <2>. QED BY <1>2, <2>1
<1>4. ASSUME NEW t \in Threads, Compiled(t)
      PROVE  ObjectCounted(o)'
  <2>1. /\ UNCHANGED <<cacheMapTable, objects, values, autoreleased>>
        /\ \A u \in Threads \ {t} : pc'[u] = pc[u] /\ hand'[u] = hand[u] /\ keeps'[u] = keeps[u]
        /\ pc[t] = "compile" /\ pc'[t] = "add"
    BY <1>4 DEF Compiled, Goto, IInv, TypeOK, cache
  <2>. QED BY <1>2, <2>1
<1>5. ASSUME NEW t \in Threads, CompileFailed(t)
      PROVE  ObjectCounted(o)'
  <2>1. /\ UNCHANGED <<cacheMapTable, objects, values, autoreleased>>
        /\ \A u \in Threads \ {t} : pc'[u] = pc[u] /\ hand'[u] = hand[u] /\ keeps'[u] = keeps[u]
        /\ pc[t] = "compile" /\ pc'[t] = "idle"
    BY <1>5 DEF CompileFailed, Goto, IInv, TypeOK, cache
  <2>. QED BY <1>2, <2>1
<1>6. ASSUME NEW t \in Threads, NEW f \in Settable, NEW value \in BOOLEAN, ReadFlag(t, f, value)
      PROVE  ObjectCounted(o)'
  <2>1. /\ UNCHANGED <<cacheMapTable, objects, values, autoreleased>>
        /\ \A u \in Threads \ {t} : pc'[u] = pc[u] /\ hand'[u] = hand[u] /\ keeps'[u] = keeps[u]
        /\ pc[t] = "idle" /\ pc'[t] = "setFlag"
    BY <1>6 DEF ReadFlag, Goto, IInv, TypeOK, cache
  <2>. QED BY <1>2, <2>1
<1>7. ASSUME NEW t \in Threads, SwapFlag(t)
      PROVE  ObjectCounted(o)'
  <2>1. /\ UNCHANGED <<cacheMapTable, objects, values, autoreleased>>
        /\ \A u \in Threads \ {t} : pc'[u] = pc[u] /\ hand'[u] = hand[u] /\ keeps'[u] = keeps[u]
        /\ pc[t] = "setFlag" /\ pc'[t] = "idle"
    BY <1>7 DEF SwapFlag, Goto, IInv, TypeOK, cache
  <2>. QED BY <1>2, <2>1
<1>. QED
  BY <1>1, <1>3, <1>4, <1>5, <1>6, <1>7, LookupCounts, AllocateCounts, AddCounts, RetainSelfCounts,
     GotCounts, DoneCounts, DrainCounts, RemoveCounts, ClearCounts, FreeValueCounts, CacheSetCounts,
     MakeSetCounts
     DEF Next

\* Every step leaves every variable a value of its type.  The counts are those
\* of counted objects.
LEMMA NextType ==
  ASSUME CacheAssumption, IInv, [Next]_vars
  PROVE  TypeOK'
<1>. USE DEF IInv, TypeOK, CacheAssumption, Goto, Pcs, CallKeeps
<1>0. CASE UNCHANGED vars
  BY <1>0 DEF vars, cache, objects, setter
<1>c. ASSUME alive' \in [Objects -> {"fresh", "live", "dead"}],
             referenceCountMinusOne' = [o \in Objects |-> referenceCountMinusOne'[o]]
      PROVE  referenceCountMinusOne' \in [Objects -> Nat \cup {-1}]
  <2>1. \A o \in Objects : referenceCountMinusOne'[o] \in Nat \cup {-1}
    BY <1>c, NextCounted DEF ObjectCounted
  <2>. HIDE DEF IInv, TypeOK
  <2>. QED BY <1>c, <2>1
<1>r. ASSUME NEW os, Retain(os)
      PROVE  /\ referenceCountMinusOne' \in [Objects -> Nat \cup {-1}]
             /\ alive' = alive /\ regexString' = regexString
  BY <1>r, <1>c DEF Retain
<1>d. ASSUME NEW o \in Objects, Release(o)
      PROVE  /\ referenceCountMinusOne' \in [Objects -> Nat \cup {-1}]
             /\ alive' \in [Objects -> {"fresh", "live", "dead"}] /\ regexString' = regexString
  BY <1>d, <1>c DEF Release
<1>. SUFFICES ASSUME NEW t \in Threads,
         \/ \E s \in Strings, keep \in BOOLEAN : BeginGet(t, s, keep)
         \/ Lookup(t) \/ Allocate(t) \/ Compiled(t) \/ CompileFailed(t)
         \/ Add(t) \/ RetainSelf(t) \/ Got(t) \/ Done(t)
         \/ \E o \in Objects : Drain(t, o)
         \/ \E s \in Strings : Remove(t, s)
         \/ Clear(t) \/ FreeValue(t) \/ CacheSet(t) \/ MakeSet(t)
         \/ \E f \in Settable, value \in BOOLEAN : ReadFlag(t, f, value)
         \/ SwapFlag(t)
       PROVE TypeOK'
  BY <1>0 DEF Next
<1>1. ASSUME NEW s \in Strings, NEW keep \in BOOLEAN, BeginGet(t, s, keep)
      PROVE  TypeOK'
  BY <1>1 DEF BeginGet, cache, objects, setter
<1>2. CASE Lookup(t)
  <2>. DEFINE o == cacheMapTable[HashOf[request[t]]]
  <2>1. UNCHANGED <<cache, request, keeps, autoreleased, values, setter>> /\ o \in Objects \cup {None}
    BY <1>2 DEF Lookup, Hashes
  <2>2. CASE pc' = [pc EXCEPT ![t] = "got"] /\ hand' = [hand EXCEPT ![t] = o] /\ Retain({o})
    BY <1>r, <2>1, <2>2 DEF cache, setter
  <2>3. CASE pc' = [pc EXCEPT ![t] = "allocate"] /\ UNCHANGED <<objects, hand>>
    BY <2>1, <2>3 DEF cache, objects, setter
  <2>. QED BY <1>2, <2>2, <2>3 DEF Lookup
<1>3. CASE Allocate(t)
  BY <1>3 DEF Allocate, Autorelease, cache, setter
<1>4. CASE Compiled(t)
  BY <1>4 DEF Compiled, cache, objects, setter
<1>5. CASE CompileFailed(t)
  BY <1>5 DEF CompileFailed, cache, objects, setter
<1>6. CASE Add(t)
  BY <1>6, <1>r DEF Add, cache, objects, setter
<1>7. CASE RetainSelf(t)
  BY <1>7, <1>r DEF RetainSelf, cache, setter
<1>8. CASE Got(t)
  <2>1. /\ UNCHANGED <<cache, objects, request, hand, keeps, values, setter>>
        /\ pc' = [pc EXCEPT ![t] = "use"] /\ hand[t] \in Objects
    BY <1>8 DEF Got
  <2>2. autoreleased' = autoreleased \/ autoreleased' = [autoreleased EXCEPT ![t][hand[t]] = @ + 1]
    BY <1>8 DEF Got, Autorelease
  <2>3. autoreleased' \in [Threads -> [Objects -> Nat]]
    BY <2>1, <2>2
  <2>. QED BY <2>1, <2>3 DEF cache, objects, setter
<1>9. CASE Done(t)
  BY <1>9, <1>d DEF Done, cache, objects, setter
<1>10. ASSUME NEW o \in Objects, Drain(t, o)
       PROVE  TypeOK'
  BY <1>10, <1>d DEF Drain, cache, setter
<1>11. ASSUME NEW s \in Strings, Remove(t, s)
       PROVE  TypeOK'
  BY <1>11 DEF Remove, cache, objects, setter, Hashes
<1>12. CASE Clear(t)
  BY <1>12 DEF Clear, cache, objects, setter, Cached
<1>13. CASE FreeValue(t)
  BY <1>13, <1>d DEF FreeValue, cache, setter
<1>14. CASE CacheSet(t)
  BY <1>14, <1>r DEF CacheSet, cache, setter, Cached
<1>15. CASE MakeSet(t)
  BY <1>15, <1>r DEF MakeSet, cache, setter
<1>16. ASSUME NEW f \in Settable, NEW value \in BOOLEAN, ReadFlag(t, f, value)
       PROVE  TypeOK'
  BY <1>16 DEF ReadFlag, cache, objects, setter
<1>17. CASE SwapFlag(t)
  BY <1>17 DEF SwapFlag, cache, objects, setter
<1>. QED BY <1>1, <1>2, <1>3, <1>4, <1>5, <1>6, <1>7, <1>8, <1>9, <1>10, <1>11, <1>12,
            <1>13, <1>14, <1>15, <1>16, <1>17

-------------------------------------------------------------------------------
\* The invariant holds in every state of every behaviour.
LEMMA InvariantHolds == ASSUME CacheAssumption PROVE Spec => []IInv
<1>1. Init => IInv
  BY InitIInv
<1>2. IInv /\ [Next]_vars => IInv'
  BY NextType, NextCallKeeps, NextOwnHash, NextCounted DEF IInv
<1>. QED BY <1>1, <1>2, PTL DEF Spec

\* Every variable holds a value of its type; in particular no count drops below
\* the -1 of a deallocated object (RKRegex.m 674 to 676).
THEOREM TypeCorrect == Spec => []TypeOK
<1>1. IInv => TypeOK
  BY DEF IInv
<1>. QED BY <1>1, CacheAssumption, InvariantHolds, PTL

\* Whatever the threads, strings and hashes, the count of a living object is the
\* number of references to it.
THEOREM CountsAreExact == Spec => []CountsExact
<1>1. IInv => CountsExact
  BY DEF IInv, CountsExact, ObjectCounted
<1>. QED BY <1>1, CacheAssumption, InvariantHolds, PTL

\* No thread, table or pool refers to an object that has been deallocated, or
\* that is not yet made.
THEOREM NothingDangles == Spec => []NoDangling
<1>1. IInv => NoDangling
  <2>. SUFFICES ASSUME IInv, NEW o \in Objects, alive[o] # "live"
                PROVE  /\ o \notin Cached
                       /\ \A t \in Threads : hand[t] # o /\ o \notin values[t] /\ autoreleased[t][o] = 0
    BY DEF NoDangling
  <2>. USE DEF IInv
  <2>1. o \notin Cached
    BY ReferredLives DEF Cached
  <2>2. ASSUME NEW t \in Threads
        PROVE  hand[t] # o /\ o \notin values[t] /\ autoreleased[t][o] = 0
    <3>1. hand[t] # o
      BY CacheAssumption, InHandLives DEF CacheAssumption
    <3>2. o \notin values[t] /\ ~(autoreleased[t][o] > 0)
      BY ReferredLives
    <3>. QED BY <3>1, <3>2 DEF TypeOK
  <2>. QED BY <2>1, <2>2
<1>. QED BY <1>1, CacheAssumption, InvariantHolds, PTL

\* An object without references is not alive: the release that takes the last
\* one deallocates it, whichever thread makes it.
THEOREM NothingLeaks == Spec => []NothingLeaked
<1>1. IInv => NothingLeaked
  <2>1. ASSUME IInv, NEW o \in Objects, References(o) = 0, alive[o] = "live"
        PROVE  FALSE
    BY <2>1 DEF IInv, ObjectCounted
  <2>. QED BY <2>1 DEF NothingLeaked
<1>. QED BY <1>1, CacheAssumption, InvariantHolds, PTL

===============================================================================
