-------------------------- MODULE RKEnumeratorProofs --------------------------
(***************************************************************************)
(* The ranges of an enumerator are those of what PCRE matched, for every   *)
(* string, every range and every regex, and a capture name yields the      *)
(* first capture of that name that is set.  The argument: the places of a  *)
(* string grow in both units (Grows), so a walk over a span that begins    *)
(* and ends with a character converts it; the loop over the buffer reads   *)
(* each pair before it writes there (OneStored); the search begins where   *)
(* the last match ends (AtMatch), behind what was converted when the       *)
(* enumerator was made (Made); and the binary search stays around the name *)
(* because the table is sorted.  The four recursive functions of the model *)
(* (the two sums, the loop, the search) are shown to have a value that     *)
(* satisfies their recursion, and induction then goes over the set of the  *)
(* numbers of which a statement holds (NatInduct).                         *)
(***************************************************************************)
EXTENDS RKEnumerator, FiniteSetTheorems, WellFoundedInduction, TLAPS

\* Numbers have a least one.
LEMMA LeastNat ==
  ASSUME NEW T \in SUBSET Nat, T # {}
  PROVE  \E n \in T : \A m \in T : n <= m
<1>1. PICK n \in T : \A m \in T : ~(<<m, n>> \in OpToRel(<, Nat))
  BY NatLessThanWellFounded, WFMin
<1>2. \A m \in T : ~(m < n)
  BY <1>1 DEF OpToRel
<1>. QED BY <1>2

\* Induction, over a set of numbers.
LEMMA NatInduct ==
  ASSUME NEW S, 0 \in S, \A n \in Nat : n \in S => n + 1 \in S
  PROVE  Nat \subseteq S
<1>. DEFINE T == Nat \ S
<1>. SUFFICES ASSUME T # {} PROVE FALSE
  OBVIOUS
<1>1. PICK n \in T : \A m \in T : n <= m
  BY LeastNat
<1>2. n # 0 /\ n - 1 \in Nat
  OBVIOUS
<1>3. n - 1 \notin T
  BY <1>1, <1>2
<1>. QED BY <1>2, <1>3

-------------------------------------------------------------------------------
\* Sums: SumFunctionOnSet is the number of tokens when every element of the set
\* has as many as the function says, in whatever order it adds them.
Tokens(f, S) == UNION {{x} \X (1..f[x]) : x \in S}
Total(f, S) == Cardinality(Tokens(f, S))

\* There are finitely many tokens.
LEMMA TokensFinite ==
  ASSUME NEW S, IsFiniteSet(S), NEW f, \A x \in S : f[x] \in Nat
  PROVE  IsFiniteSet(Tokens(f, S)) /\ Total(f, S) \in Nat
<1>. DEFINE g == [x \in S |-> {x} \X (1..f[x])]
            R == {{x} \X (1..f[x]) : x \in S}
<1>1. g \in Surjection(S, R)
  BY DEF Surjection
<1>2. IsFiniteSet(R)
  BY <1>1, FS_Surjection
<1>3. \A r \in R : IsFiniteSet(r)
  <2>. TAKE r \in R
  <2>1. PICK x \in S : r = {x} \X (1..f[x])
    OBVIOUS
  <2>2. IsFiniteSet({x}) /\ IsFiniteSet(1..f[x])
    <3>1. 1 \in Int /\ f[x] \in Int
      OBVIOUS
    <3>. QED BY <3>1, FS_Singleton, FS_Interval
  <2>3. IsFiniteSet({x} \X (1..f[x]))
    BY <2>2, FS_Product
  <2>. QED BY <2>1, <2>3
<1>4. Tokens(f, S) = UNION R
  BY DEF Tokens
<1>. HIDE DEF g, R
<1>5. IsFiniteSet(Tokens(f, S))
  BY <1>2, <1>3, <1>4, FS_UNION
<1>. QED BY <1>5, FS_CardinalityType DEF Total

\* An element has its own tokens.
LEMMA TotalWithout ==
  ASSUME NEW S, IsFiniteSet(S), NEW f, \A x \in S : f[x] \in Nat, NEW x \in S
  PROVE  Total(f, S) = f[x] + Total(f, S \ {x})
<1>. DEFINE one == {x} \X (1..f[x])
            rest == Tokens(f, S \ {x})
<1>1. IsFiniteSet(S \ {x})
  BY FS_RemoveElement
<1>2. IsFiniteSet(rest) /\ Cardinality(rest) \in Nat
  BY <1>1, TokensFinite DEF Total
<1>3. IsFiniteSet(one) /\ Cardinality(one) = f[x]
  <2>1. IsFiniteSet({x}) /\ Cardinality({x}) = 1
    BY FS_Singleton
  <2>2. IsFiniteSet(1..f[x]) /\ Cardinality(1..f[x]) = f[x]
    <3>1. 1 \in Int /\ f[x] \in Int /\ f[x] \in Nat
      OBVIOUS
    <3>2. IsFiniteSet(1..f[x]) /\ Cardinality(1..f[x]) = IF 1 > f[x] THEN 0 ELSE f[x] - 1 + 1
      BY <3>1, FS_Interval
    <3>. QED BY <3>1, <3>2
  <2>3. Cardinality(one) = Cardinality({x}) * Cardinality(1..f[x]) /\ IsFiniteSet(one)
    BY <2>1, <2>2, FS_Product
  <2>4. f[x] \in Nat
    OBVIOUS
  <2>. HIDE DEF one
  <2>. QED BY <2>1, <2>2, <2>3, <2>4
<1>4. one \cap rest = {}
  BY DEF Tokens
<1>5. Tokens(f, S) = one \cup rest
  BY DEF Tokens
<1>6. Cardinality(one \cup rest) = Cardinality(one) + Cardinality(rest) - Cardinality(one \cap rest)
  BY <1>2, <1>3, FS_Union
<1>7. Cardinality(one \cap rest) = 0
  BY <1>4, FS_EmptySet
<1>8. f[x] \in Nat /\ Total(f, S \ {x}) = Cardinality(rest) /\ Total(f, S) = Cardinality(one \cup rest)
  BY <1>5 DEF Total
<1>. HIDE DEF one, rest
<1>. QED BY <1>2, <1>3, <1>6, <1>7, <1>8

\* No elements, no tokens.
LEMMA TotalOfNone == ASSUME NEW f PROVE Total(f, {}) = 0
BY FS_EmptySet DEF Total, Tokens

\* The fold that adds up a function is the number of tokens.
LEMMA SumIsTotal ==
  ASSUME NEW S, IsFiniteSet(S), NEW f, \A x \in S : f[x] \in Nat
  PROVE  SumFunctionOnSet(f, S) = Total(f, S)
<1>. DEFINE Fold(iter) == iter = [s \in SUBSET S |->
               IF s = {} THEN 0
               ELSE f[CHOOSE x \in s : TRUE] + iter[s \ {CHOOSE x \in s : TRUE}]]
            total == [s \in SUBSET S |-> Total(f, s)]
<1>1. SumFunctionOnSet(f, S) = (CHOOSE iter : Fold(iter))[S]
  BY DEF SumFunctionOnSet, FoldFunctionOnSet, MapThenFoldSet
<1>2. \A s \in SUBSET S : IsFiniteSet(s) /\ (\A x \in s : f[x] \in Nat)
  BY FS_Subset
<1>3. Fold(total)
  <2>. SUFFICES ASSUME NEW s \in SUBSET S
                PROVE  total[s] = IF s = {} THEN 0
                         ELSE f[CHOOSE x \in s : TRUE] + total[s \ {CHOOSE x \in s : TRUE}]
    OBVIOUS
  <2>1. CASE s = {}
    BY <2>1, TotalOfNone
  <2>2. CASE s # {}
    <3>. DEFINE x == CHOOSE x \in s : TRUE
    <3>1. x \in s
      BY <2>2
    <3>. HIDE DEF x
    <3>2. Total(f, s) = f[x] + Total(f, s \ {x})
      BY <1>2, <3>1, TotalWithout
    <3>3. s \ {x} \in SUBSET S
      OBVIOUS
    <3>4. total[s] = f[x] + total[s \ {x}]
      BY <3>2, <3>3
    <3>. QED BY <2>2, <3>4 DEF x
  <2>. QED BY <2>1, <2>2
<1>. DEFINE iter == CHOOSE iter : Fold(iter)
<1>4. Fold(iter)
  <2>. HIDE DEF Fold, total
  <2>. QED BY <1>3
<1>5. \A s \in SUBSET S : s # {} =>
        \E x \in s : iter[s] = f[x] + iter[s \ {x}]
  <2>. TAKE s \in SUBSET S
  <2>. HAVE s # {}
  <2>. HIDE DEF iter
  <2>1. iter[s] = f[CHOOSE x \in s : TRUE] + iter[s \ {CHOOSE x \in s : TRUE}]
    BY <1>4
  <2>2. (CHOOSE x \in s : TRUE) \in s
    OBVIOUS
  <2>. QED BY <2>1, <2>2
<1>6. iter[{}] = 0
  <2>. HIDE DEF iter
  <2>. QED BY <1>4
<1>. HIDE DEF iter, Fold
<1>. DEFINE P == {n \in Nat : \A s \in SUBSET S : Cardinality(s) = n => iter[s] = Total(f, s)}
<1>7. 0 \in P
  <2>1. \A s \in SUBSET S : Cardinality(s) = 0 => s = {}
    BY <1>2, FS_EmptySet
  <2>2. iter[{}] = Total(f, {})
    BY <1>6, TotalOfNone
  <2>. QED BY <2>1, <2>2
<1>8. ASSUME NEW n \in Nat, n \in P
      PROVE  n + 1 \in P
  <2>. SUFFICES ASSUME NEW s \in SUBSET S, Cardinality(s) = n + 1
                PROVE  iter[s] = Total(f, s)
    OBVIOUS
  <2>1. s # {}
    BY FS_EmptySet
  <2>2. PICK x \in s : iter[s] = f[x] + iter[s \ {x}]
    BY <1>5, <2>1
  <2>3. Cardinality(s \ {x}) = n
    <3>1. IsFiniteSet(s)
      BY <1>2
    <3>2. x \in s => Cardinality(s \ {x}) = Cardinality(s) - 1
      BY <3>1, FS_RemoveElement
    <3>. QED BY <2>2, <3>2
  <2>4. iter[s \ {x}] = Total(f, s \ {x})
    BY <1>8, <2>3
  <2>5. Total(f, s) = f[x] + Total(f, s \ {x})
    BY <1>2, TotalWithout
  <2>. QED BY <2>2, <2>4, <2>5
<1>9. Nat \subseteq P
  <2>. HIDE DEF P
  <2>. QED BY <1>7, <1>8, NatInduct
<1>10. Cardinality(S) \in P
  BY <1>9, FS_CardinalityType
<1>11. iter[S] = Total(f, S)
  BY <1>10
<1>. QED BY <1>1, <1>11 DEF iter

-------------------------------------------------------------------------------
\* Offsets: sums over the first elements of a sequence.

\* One more element adds its number to the sum of those before it.
LEMMA SumOfOneMore ==
  ASSUME NEW n \in Nat, NEW f, \A k \in 1..n : f[k] \in Nat
  PROVE  /\ SumFunctionOnSet(f, 1..0) = 0
         /\ \A i \in 0..n : SumFunctionOnSet(f, 1..i) \in Nat
         /\ \A i \in 0..n : i < n =>
              SumFunctionOnSet(f, 1..(i + 1)) = SumFunctionOnSet(f, 1..i) + f[i + 1]
<1>1. \A i \in 0..n : IsFiniteSet(1..i) /\ \A k \in 1..i : f[k] \in Nat
  <2>. TAKE i \in 0..n
  <2>1. 1 \in Int /\ i \in Int
    OBVIOUS
  <2>2. IsFiniteSet(1..i)
    BY <2>1, FS_Interval
  <2>. QED BY <2>2
<1>2. \A i \in 0..n : SumFunctionOnSet(f, 1..i) = Total(f, 1..i) /\ Total(f, 1..i) \in Nat
  BY <1>1, SumIsTotal, TokensFinite
<1>3. SumFunctionOnSet(f, 1..0) = 0
  <2>1. 1..0 = {} /\ 0 \in 0..n
    OBVIOUS
  <2>. QED BY <1>2, <2>1, TotalOfNone
<1>4. ASSUME NEW i \in 0..n, i < n
      PROVE  SumFunctionOnSet(f, 1..(i + 1)) = SumFunctionOnSet(f, 1..i) + f[i + 1]
  <2>1. /\ i + 1 \in 0..n
        /\ i + 1 \in 1..(i + 1)
        /\ (1..(i + 1)) \ {i + 1} = 1..i
        /\ f[i + 1] \in Nat
    BY <1>4
  <2>2. Total(f, 1..(i + 1)) = f[i + 1] + Total(f, (1..(i + 1)) \ {i + 1})
    BY <1>1, <2>1, TotalWithout
  <2>3. SumFunctionOnSet(f, 1..(i + 1)) = f[i + 1] + SumFunctionOnSet(f, 1..i)
    BY <1>2, <2>1, <2>2
  <2>4. SumFunctionOnSet(f, 1..i) \in Nat
    BY <1>2
  <2>. QED BY <2>1, <2>3, <2>4
<1>. QED BY <1>2, <1>3, <1>4

\* Sums of elements that are at least 1 grow from one place to the next.
LEMMA SumsGrow ==
  ASSUME NEW n \in Nat, NEW f, \A k \in 1..n : f[k] \in Nat /\ f[k] >= 1
  PROVE  \A i, j \in 0..n : i < j => SumFunctionOnSet(f, 1..i) < SumFunctionOnSet(f, 1..j)
<1>. DEFINE Sum(i) == SumFunctionOnSet(f, 1..i)
            P == {d \in Nat : \A i \in 0..n : i + d + 1 \in 0..n => Sum(i) < Sum(i + d + 1)}
<1>1. /\ \A i \in 0..n : Sum(i) \in Nat
      /\ \A i \in 0..n : i < n => Sum(i + 1) = Sum(i) + f[i + 1]
  BY SumOfOneMore
<1>. HIDE DEF Sum
<1>2. \A i \in 0..n : i < n => Sum(i) < Sum(i + 1)
  BY <1>1
<1>3. 0 \in P
  BY <1>2
<1>4. ASSUME NEW d \in Nat, d \in P PROVE d + 1 \in P
  <2>. SUFFICES ASSUME NEW i \in 0..n, i + (d + 1) + 1 \in 0..n
                PROVE  Sum(i) < Sum(i + (d + 1) + 1)
    OBVIOUS
  <2>1. i + d + 1 \in 0..n /\ i + d + 1 < n /\ i + (d + 1) + 1 = (i + d + 1) + 1
    OBVIOUS
  <2>2. Sum(i) < Sum(i + d + 1)
    BY <1>4, <2>1
  <2>3. Sum(i + d + 1) < Sum((i + d + 1) + 1)
    BY <1>2, <2>1
  <2>. QED BY <1>1, <2>1, <2>2, <2>3
<1>5. Nat \subseteq P
  <2>. HIDE DEF P
  <2>. QED BY <1>3, <1>4, NatInduct
<1>. SUFFICES ASSUME NEW i \in 0..n, NEW j \in 0..n, i < j
              PROVE  Sum(i) < Sum(j)
  BY DEF Sum
<1>6. PICK d \in Nat : d = j - i - 1
  OBVIOUS
<1>7. i + d + 1 = j
  BY <1>6
<1>8. d \in P
  <2>. HIDE DEF P
  <2>. QED BY <1>5
<1>. QED BY <1>7, <1>8

\* Every place of a string is behind the one before it.
Grows(offset, n) ==
  /\ offset \in [0..n -> Nat]
  /\ offset[0] = 0
  /\ \A i, j \in 0..n : i < j => offset[i] < offset[j]

\* The places of a string grow, in bytes and in UTF-16 units.
LEMMA Offsets ==
  ASSUME NEW s \in Strings
  PROVE  /\ Len(s.characters) \in Nat
         /\ Steps(s) = 0..Len(s.characters)
         /\ Grows([i \in Steps(s) |-> Bytes(s, i)], Len(s.characters))
         /\ Grows([i \in Steps(s) |-> UTF16(s, i)], Len(s.characters))
<1>. DEFINE n == Len(s.characters)
            units == [k \in DOMAIN s.characters |-> Units(s.characters[k])]
<1>1. n \in Nat /\ DOMAIN s.characters = 1..n /\ \A k \in 1..n : s.characters[k] \in 1..4
  BY StringsAssumption
<1>2. \A k \in 1..n : units[k] \in Nat /\ units[k] >= 1
  BY <1>1 DEF Units
<1>3. Steps(s) = 0..n
  BY DEF Steps
<1>. HIDE DEF units, n
<1>4. Grows([i \in 0..n |-> Bytes(s, i)], n)
  <2>1. \A k \in 1..n : s.characters[k] \in Nat /\ s.characters[k] >= 1
    BY <1>1
  <2>2. /\ Bytes(s, 0) = 0
        /\ \A i \in 0..n : Bytes(s, i) \in Nat
    BY <1>1, <2>1, SumOfOneMore DEF Bytes
  <2>3. \A i, j \in 0..n : i < j => Bytes(s, i) < Bytes(s, j)
    BY <1>1, <2>1, SumsGrow DEF Bytes
  <2>. QED BY <1>1, <2>2, <2>3 DEF Grows
<1>5. Grows([i \in 0..n |-> UTF16(s, i)], n)
  <2>1. \A i : UTF16(s, i) = SumFunctionOnSet(units, 1..i)
    BY DEF UTF16, units
  <2>2. /\ UTF16(s, 0) = 0
        /\ \A i \in 0..n : UTF16(s, i) \in Nat
    BY <1>1, <1>2, <2>1, SumOfOneMore
  <2>3. \A i, j \in 0..n : i < j => UTF16(s, i) < UTF16(s, j)
    BY <1>1, <1>2, <2>1, SumsGrow
  <2>. QED BY <1>1, <2>2, <2>3 DEF Grows
<1>. QED BY <1>1, <1>3, <1>4, <1>5 DEF n

\* An ASCII character is one byte and one UTF-16 unit; no character has more
\* UTF-16 units than bytes.
LEMMA UnitsAndBytes ==
  ASSUME NEW s \in Strings
  PROVE  /\ \A i \in Steps(s) : UTF16(s, i) <= Bytes(s, i)
         /\ s.encoding = "ASCII" => \A i \in Steps(s) : UTF16(s, i) = i /\ Bytes(s, i) = i
<1>. DEFINE n == Len(s.characters)
            units == [k \in DOMAIN s.characters |-> Units(s.characters[k])]
<1>1. n \in Nat /\ DOMAIN s.characters = 1..n /\ \A k \in 1..n : s.characters[k] \in 1..4
  BY StringsAssumption
<1>2. \A k \in 1..n : units[k] \in Nat /\ units[k] <= s.characters[k]
  BY <1>1 DEF Units
<1>3. Steps(s) = 0..n
  BY DEF Steps
<1>4. s.encoding = "ASCII" => \A k \in 1..n : s.characters[k] = 1 /\ units[k] = 1
  BY <1>1, StringsAssumption DEF Units
<1>. HIDE DEF units, n
<1>5. /\ Bytes(s, 0) = 0
      /\ \A i \in 0..n : Bytes(s, i) \in Nat
      /\ \A i \in 0..n : i < n => Bytes(s, i + 1) = Bytes(s, i) + s.characters[i + 1]
  <2>1. \A k \in 1..n : s.characters[k] \in Nat
    BY <1>1
  <2>. QED BY <1>1, <2>1, SumOfOneMore DEF Bytes
<1>6. /\ UTF16(s, 0) = 0
      /\ \A i \in 0..n : UTF16(s, i) \in Nat
      /\ \A i \in 0..n : i < n => UTF16(s, i + 1) = UTF16(s, i) + units[i + 1]
  <2>1. \A i : UTF16(s, i) = SumFunctionOnSet(units, 1..i)
    BY DEF UTF16, units
  <2>. QED BY <1>1, <1>2, <2>1, SumOfOneMore
<1>. DEFINE P == {i \in Nat : i \in 0..n =>
                    /\ UTF16(s, i) <= Bytes(s, i)
                    /\ s.encoding = "ASCII" => UTF16(s, i) = i /\ Bytes(s, i) = i}
<1>7. 0 \in P
  BY <1>5, <1>6
<1>8. ASSUME NEW i \in Nat, i \in P PROVE i + 1 \in P
  <2>. SUFFICES ASSUME i + 1 \in 0..n
                PROVE  /\ UTF16(s, i + 1) <= Bytes(s, i + 1)
                       /\ s.encoding = "ASCII" => UTF16(s, i + 1) = i + 1 /\ Bytes(s, i + 1) = i + 1
    OBVIOUS
  <2>1. i \in 0..n /\ i < n /\ i + 1 \in 1..n
    BY <1>1
  <2>2. /\ UTF16(s, i) <= Bytes(s, i)
        /\ s.encoding = "ASCII" => UTF16(s, i) = i /\ Bytes(s, i) = i
    BY <1>8, <2>1
  <2>3. s.characters[i + 1] \in Nat /\ units[i + 1] \in Nat /\ units[i + 1] <= s.characters[i + 1]
    BY <1>1, <1>2, <2>1
  <2>4. s.encoding = "ASCII" => s.characters[i + 1] = 1 /\ units[i + 1] = 1
    BY <1>4, <2>1
  <2>5. /\ UTF16(s, i + 1) = UTF16(s, i) + units[i + 1]
        /\ Bytes(s, i + 1) = Bytes(s, i) + s.characters[i + 1]
        /\ UTF16(s, i) \in Nat /\ Bytes(s, i) \in Nat
    BY <1>5, <1>6, <2>1
  <2>. QED BY <2>2, <2>3, <2>4, <2>5
<1>9. Nat \subseteq P
  <2>. HIDE DEF P
  <2>. QED BY <1>7, <1>8, NatInduct
<1>. QED BY <1>1, <1>3, <1>9
-------------------------------------------------------------------------------
\* The walk over the characters.

\* Min of numbers is their least.
LEMMA MinIsLeast ==
  ASSUME NEW S \in SUBSET Nat, S # {}
  PROVE  Min(S) \in S /\ \A x \in S : Min(S) <= x
BY LeastNat DEF Min

\* The only number of a set that no other is below is Min of it.
LEMMA LeastIsMin ==
  ASSUME NEW S \in SUBSET Nat, NEW x \in S, \A y \in S : x <= y
  PROVE  Min(S) = x
<1>1. Min(S) \in S /\ \A y \in S : Min(S) <= y
  BY MinIsLeast
<1>2. Min(S) <= x /\ x <= Min(S) /\ x \in Nat /\ Min(S) \in Nat
  BY <1>1
<1>. QED BY <1>2

\* Max of bounded numbers is their greatest.
LEMMA MaxIsGreatest ==
  ASSUME NEW n \in Nat, NEW S \in SUBSET (0..n), S # {}
  PROVE  Max(S) \in S /\ \A x \in S : x <= Max(S)
<1>. DEFINE T == {d \in 0..n : n - d \in S}
<1>1. \A x \in S : x \in 0..n /\ n - x \in 0..n /\ n - (n - x) = x
  OBVIOUS
<1>2. \A x \in S : n - x \in T
  BY <1>1
<1>3. T \in SUBSET Nat /\ T # {}
  <2>1. \A d \in T : d \in 0..n
    OBVIOUS
  <2>2. PICK x \in S : TRUE
    OBVIOUS
  <2>3. n - x \in T
    BY <1>2
  <2>. HIDE DEF T
  <2>. QED BY <2>1, <2>3
<1>4. PICK m \in T : \A d \in T : m <= d
  BY <1>3, LeastNat
<1>5. \A y \in S : m <= n - y
  BY <1>2, <1>4
<1>6. n - m \in S /\ \A y \in S : n - m >= y
  BY <1>1, <1>5
<1>7. Max(S) \in S /\ \A y \in S : Max(S) >= y
  BY <1>6 DEF Max
<1>8. \A x \in S : x \in Int
  BY <1>1
<1>9. Max(S) \in Int
  BY <1>7, <1>8
<1>. QED BY <1>7, <1>8, <1>9

\* Words: what NSMakeRange and NSMaxRange do with numbers that fit, and with
\* the difference of two of them.
LEMMA RangeOfWords ==
  ASSUME NEW a \in 0..(Word - 1), NEW b \in 0..(Word - 1)
  PROVE  /\ NSMakeRange(a, b - a).location = a
         /\ a <= b => NSMakeRange(a, b - a).length = b - a
         /\ NSMaxRange(NSMakeRange(a, b - a)) = b
<1>1. Word \in Nat /\ Word > 3
  BY WordAssumption
<1>2. a % Word = a
  BY <1>1
<1>3. a <= b => (b - a) % Word = b - a
  BY <1>1
<1>4. (a + ((b - a) % Word)) % Word = b
  BY <1>1
<1>. QED BY <1>2, <1>3, <1>4 DEF NSMakeRange, NSMaxRange

\* Both functions make ranges of words.
LEMMA MakeRangeType ==
  ASSUME NEW a \in Int, NEW b \in Int
  PROVE  NSMakeRange(a, b) \in [location : 0..(Word - 1), length : 0..(Word - 1)]
<1>1. Word \in Nat /\ Word > 3
  BY WordAssumption
<1>2. a % Word \in 0..(Word - 1) /\ b % Word \in 0..(Word - 1)
  BY <1>1
<1>. QED BY <1>2 DEF NSMakeRange

\* NSNotFound is a word, and no length of a string PCRE takes.
LEMMA NotFoundIsLarge ==
  /\ NSNotFound \in 0..(Word - 1)
  /\ INT_MAX \in 0..(Word - 1)
  /\ INT_MAX < NSNotFound
  /\ NotFound = [location |-> NSNotFound, length |-> 0]
<1>1. Word \in Nat /\ Word > 3 /\ INT_MAX \in Nat /\ INT_MAX < NSNotFound
  BY WordAssumption, EnumeratorAssumption
<1>2. NSNotFound \in 0..(Word - 1)
  BY <1>1 DEF NSNotFound
<1>3. NSNotFound % Word = NSNotFound /\ 0 % Word = 0
  BY <1>1, <1>2
<1>. QED BY <1>1, <1>2, <1>3 DEF NotFound, NSMakeRange

\* Larger offsets are at later places, and the same at the same.
LEMMA GrowsBack ==
  ASSUME NEW n \in Nat, NEW offset, Grows(offset, n)
  PROVE  /\ \A i \in 0..n : offset[i] \in Nat
         /\ \A i, j \in 0..n : offset[i] <= offset[j] <=> i <= j
         /\ \A i, j \in 0..n : offset[i] = offset[j] <=> i = j
<1>1. \A i \in 0..n : offset[i] \in Nat
  BY DEF Grows
<1>2. \A i, j \in 0..n : i < j => offset[i] < offset[j]
  BY DEF Grows
<1>. QED BY <1>1, <1>2

\* The walk over a span that begins and ends with a character converts it.
LEMMA WalkOfSpan ==
  ASSUME NEW n \in Nat, NEW from, NEW to, Grows(from, n), Grows(to, n),
         NEW first \in 0..n, NEW last \in 0..n, first <= last,
         NEW r, r.location = from[first], NSMaxRange(r) = from[last]
  PROVE  Walk(from, to, r, 0..n) = NSMakeRange(to[first], to[last] - to[first])
<1>. DEFINE ends == {i \in 0..n : from[i] >= NSMaxRange(r)}
            on == {i \in 0..n : i <= Min(ends) /\ from[i] = r.location}
<1>1. \A i \in 0..n : from[i] \in Nat
  BY GrowsBack
<1>2. Min(ends) = last
  <2>1. \A i \in 0..n : i \in ends <=> last <= i
    BY <1>1, GrowsBack
  <2>. HIDE DEF ends
  <2>2. {i \in ends : TRUE} = ends /\ \A i \in ends : i \in 0..n
    BY DEF ends
  <2>3. ends \in SUBSET Nat /\ last \in ends /\ \A i \in ends : last <= i
    BY <2>1, <2>2
  <2>. QED BY <2>3, LeastIsMin
<1>. HIDE DEF ends
<1>3. on = {first}
  BY <1>2, GrowsBack
<1>4. Min(on) = first
  <2>. HIDE DEF on
  <2>. QED BY <1>3, LeastIsMin
<1>5. on # {}
  BY <1>3
<1>. QED BY <1>2, <1>4, <1>5 DEF Walk, ends
-------------------------------------------------------------------------------
\* The conversion of the pairs of ints into ranges, in one buffer.

Words == 0..(4 * captureCount - 1)

\* A word of the ranges of a buffer of pairs.
Image(memory, word) ==
  CASE word % 4 = 0 -> Converted(memory, word \div 4).location
    [] word % 4 = 2 -> Converted(memory, word \div 4).length
    [] OTHER -> 0

\* The buffer when the ranges from x on have been stored.
Stored(memory, count, x) ==
  [word \in Words |-> IF 4 * x <= word /\ word < 4 * count THEN Image(memory, word)
                      ELSE memory[word]]

\* One step of the loop: the pair that is read is still there, because 2x + 1 is
\* below 4(x + 1).
LEMMA OneStored ==
  ASSUME NEW memory \in [Words -> Int], NEW count \in 0..captureCount,
         NEW x \in 0..count, x < count
  PROVE  Stored(memory, count, x) =
           Store(Stored(memory, count, x + 1), x, Converted(Stored(memory, count, x + 1), x))
<1>. DEFINE before == Stored(memory, count, x + 1)
            r == Converted(memory, x)
<1>1. captureCount \in Nat
  BY EnumeratorAssumption
<1>2. 2 * x \in Words /\ 2 * x + 1 \in Words
  BY <1>1 DEF Words
<1>3. before[2 * x] = memory[2 * x] /\ before[2 * x + 1] = memory[2 * x + 1]
  BY <1>2 DEF Stored
<1>4. Converted(before, x) = r
  BY <1>3 DEF Converted
<1>. HIDE DEF r
<1>5. \A word \in Words :
        Store(before, x, r)[word] =
          IF word = 4 * x THEN r.location
          ELSE IF word = 4 * x + 2 THEN r.length
          ELSE IF word \in {4 * x + 1, 4 * x + 3} THEN 0
          ELSE before[word]
  <2>1. before = [word \in Words |-> before[word]]
    BY DEF Stored
  <2>2. x \in Nat
    BY <1>1
  <2>. HIDE DEF before, Words
  <2>. QED BY <2>1, <2>2 DEF Store
<1>6. ASSUME NEW word \in Words PROVE Stored(memory, count, x)[word] = Store(before, x, r)[word]
  <2>1. word \in Nat /\ word <= 4 * captureCount - 1
    BY <1>1 DEF Words
  <2>2. CASE word \in (4 * x)..(4 * x + 3)
    <3>1. word \div 4 = x /\ 4 * x <= word /\ word < 4 * count
      BY <2>1, <2>2
    <3>2. Stored(memory, count, x)[word] = Image(memory, word)
      BY <3>1 DEF Stored
    <3>3. word % 4 = word - 4 * x
      BY <2>1, <2>2
    <3>4. Image(memory, word) = IF word = 4 * x THEN r.location
                                ELSE IF word = 4 * x + 2 THEN r.length ELSE 0
      BY <2>1, <3>1, <3>3 DEF Image, r
    <3>. QED BY <1>5, <2>1, <2>2, <3>2, <3>4
  <2>3. CASE word \notin (4 * x)..(4 * x + 3)
    <3>1. 4 * x <= word <=> 4 * (x + 1) <= word
      BY <2>1, <2>3
    <3>2. Stored(memory, count, x)[word] = before[word]
      BY <3>1 DEF Stored
    <3>3. Store(before, x, r)[word] = before[word]
      BY <1>5, <2>1, <2>3
    <3>. QED BY <3>2, <3>3
  <2>. QED BY <2>2, <2>3
<1>7. Store(before, x, r) = [word \in Words |-> Store(before, x, r)[word]]
  BY DEF Store, Stored
<1>8. Stored(memory, count, x) = [word \in Words |-> Stored(memory, count, x)[word]]
  BY DEF Stored
<1>. QED BY <1>4, <1>6, <1>7, <1>8

\* The whole loop, from the last result to the first, stores every range.
LEMMA ConvertInPlace ==
  ASSUME NEW memory \in [Words -> Int], NEW count \in 0..captureCount
  PROVE  Convert(memory, count) = Stored(memory, count, 0)
<1>. DEFINE Loop(done) == done = [x \in 0..count |->
               IF x = count THEN memory
               ELSE Store(done[x + 1], x, Converted(done[x + 1], x))]
            stored == [x \in 0..count |-> Stored(memory, count, x)]
            done == CHOOSE done : Loop(done)
<1>1. Convert(memory, count) = done[0]
  BY DEF Convert
<1>2. captureCount \in Nat
  BY EnumeratorAssumption
<1>3. Stored(memory, count, count) = memory
  BY <1>2 DEF Stored, Words
<1>4. Loop(stored)
  <2>. SUFFICES ASSUME NEW x \in 0..count
                PROVE  stored[x] = IF x = count THEN memory
                         ELSE Store(stored[x + 1], x, Converted(stored[x + 1], x))
    OBVIOUS
  <2>1. CASE x = count
    BY <1>3, <2>1
  <2>2. CASE x # count
    <3>1. x < count /\ x + 1 \in 0..count
      BY <1>2, <2>2
    <3>. QED BY <2>2, <3>1, OneStored
  <2>. QED BY <2>1, <2>2
<1>5. Loop(done)
  <2>. HIDE DEF Loop, stored
  <2>. QED BY <1>4
<1>. HIDE DEF done
<1>6. done[count] = memory
  BY <1>2, <1>5
<1>7. \A x \in 0..count : x < count =>
        done[x] = Store(done[x + 1], x, Converted(done[x + 1], x))
  BY <1>2, <1>5
<1>. DEFINE P == {d \in Nat : d <= count => done[count - d] = Stored(memory, count, count - d)}
<1>8. 0 \in P
  BY <1>2, <1>3, <1>6
<1>9. ASSUME NEW d \in Nat, d \in P PROVE d + 1 \in P
  <2>. SUFFICES ASSUME d + 1 <= count
                PROVE  done[count - (d + 1)] = Stored(memory, count, count - (d + 1))
    OBVIOUS
  <2>1. PICK x \in 0..count : x = count - (d + 1)
    BY <1>2
  <2>2. x < count /\ x + 1 = count - d /\ d <= count
    BY <1>2, <2>1
  <2>3. done[x + 1] = Stored(memory, count, x + 1)
    BY <1>9, <2>2
  <2>4. done[x] = Stored(memory, count, x)
    BY <1>7, <2>2, <2>3, OneStored
  <2>. QED BY <2>1, <2>4
<1>10. Nat \subseteq P
  <2>. HIDE DEF P
  <2>. QED BY <1>8, <1>9, NatInduct
<1>11. count \in P /\ count - count = 0 /\ count <= count
  <2>. HIDE DEF P
  <2>. QED BY <1>2, <1>10
<1>. QED BY <1>1, <1>11
-------------------------------------------------------------------------------
\* The inductive invariant.

\* The inputs are those of an enumerator, and they stay.
Inputs ==
  /\ regex \in Regexes
  /\ string \in Strings
  /\ initRange \in InitRanges

\* The range in bytes is the one asked for, converted, and it has been checked.
Made ==
  /\ state # "ready" => ~HasMatch
  /\ state = "new" => ~hasPerformedMatch
  /\ state = "ready" =>
       /\ ~InitRaises
       /\ searchByteRange = RKutf16to8(string, initRange)
       /\ ~hasPerformedMatch => atBufferLocation = searchByteRange.location

\* What pcre_exec may answer, the match and its captures.
Matches == {match \in [Captures -> Spans(0, Len(string.characters)) \cup {None}] : match[0] # None}

\* The next search starts where the match ends, and the match lies in the range
\* asked for.
AtMatch ==
  HasMatch =>
    /\ ByteLength(string) <= INT_MAX
    /\ matched \in Matches
    /\ atBufferLocation = Bytes(string, matched[0].last)
    /\ UTF16(string, matched[0].first) >= initRange.location
    /\ matched[0].first < matched[0].last =>
         UTF16(string, matched[0].last - 1) < NSMaxRange(initRange)

IInv == TypeOK /\ Inputs /\ Made /\ AtMatch /\ RangesAgree

-------------------------------------------------------------------------------
\* The ranges of a match.

\* The range of a capture in each unit, as RangesAgree has it.
ByteRange(span) ==
  IF span = None THEN NotFound
  ELSE NSMakeRange(Bytes(string, span.first), Bytes(string, span.last) - Bytes(string, span.first))

UnitRange(span) ==
  IF span = None THEN NotFound
  ELSE NSMakeRange(UTF16(string, span.first), UTF16(string, span.last) - UTF16(string, span.first))

\* A capture is a span of characters or is not set.
LEMMA SpansOf ==
  ASSUME string \in Strings, NEW match \in Matches, NEW x \in Captures, match[x] # None
  PROVE  /\ match[x].first \in Steps(string) /\ match[x].last \in Steps(string)
         /\ match[x].first <= match[x].last
BY DEF Matches, Spans, Steps

\* Every capture that is set is among the pairs pcre_exec returns.
LEMMA ReturnCodeCovers ==
  ASSUME NEW match \in Matches
  PROVE  /\ ReturnCode(match) \in 1..captureCount
         /\ \A x \in Captures : match[x] # None => x < ReturnCode(match)
<1>. DEFINE set == {x \in Captures : match[x] # None}
<1>1. captureCount \in Nat /\ captureCount - 1 \in Nat /\ 0 \in Captures
  BY EnumeratorAssumption DEF Captures
<1>2. set \in SUBSET (0..(captureCount - 1)) /\ 0 \in set
  BY <1>1 DEF Captures, Matches
<1>3. Max(set) \in set /\ \A x \in set : x <= Max(set)
  <2>. HIDE DEF set
  <2>. QED BY <1>1, <1>2, MaxIsGreatest
<1>4. ReturnCode(match) = 1 + Max(set)
  BY DEF ReturnCode
<1>5. \A x \in set : x \in 0..(captureCount - 1)
  BY <1>2
<1>6. Max(set) \in 0..(captureCount - 1)
  BY <1>3, <1>5
<1>. DEFINE m == Max(set)
<1>7. \A x \in Captures : match[x] # None => x <= m /\ x \in Int
  BY <1>3, <1>5
<1>8. m \in 0..(captureCount - 1) /\ ReturnCode(match) = 1 + m
  BY <1>4, <1>6
<1>. HIDE DEF m
<1>. QED BY <1>1, <1>7, <1>8

\* What pcre_exec leaves in the buffer are ints, and the pair of a capture it
\* returns are the ends of its span, or -1.
LEMMA VectorsOf ==
  ASSUME string \in Strings, NEW match \in Matches
  PROVE  /\ Vectors(match) \in [Words -> Int]
         /\ \A x \in Captures : x < ReturnCode(match) =>
              Converted(Vectors(match), x) = ByteRange(match[x])
<1>1. captureCount \in Nat /\ INT_MAX \in Int
  BY EnumeratorAssumption
<1>2. \A i \in Steps(string) : Bytes(string, i) \in Nat
  BY Offsets DEF Grows
<1>3. \A word \in Words : word \div 2 \in Nat /\ (word < 2 * captureCount => word \div 2 \in Captures)
  BY <1>1 DEF Words, Captures
<1>4. ReturnCode(match) \in 1..captureCount
  BY ReturnCodeCovers
<1>5. ASSUME NEW word \in Words PROVE Vectors(match)[word] \in Int
  <2>. DEFINE x == word \div 2
  <2>1. x \in Nat /\ word \in Nat
    BY <1>1, <1>3 DEF Words
  <2>2. CASE x >= ReturnCode(match)
    BY <1>1, <2>2 DEF Vectors, Words
  <2>3. CASE ~(x >= ReturnCode(match))
    <3>1. x \in Captures
      BY <1>1, <1>4, <2>1, <2>3 DEF Captures
    <3>2. match[x] # None => Bytes(string, match[x].first) \in Int /\ Bytes(string, match[x].last) \in Int
      BY <1>2, <3>1, SpansOf
    <3>. QED BY <2>3, <3>2 DEF Vectors, Words
  <2>. QED BY <2>2, <2>3
<1>6. Vectors(match) \in [Words -> Int]
  <2>1. Vectors(match) = [word \in Words |-> Vectors(match)[word]]
    BY DEF Vectors, Words
  <2>. QED BY <1>5, <2>1
<1>7. ASSUME NEW x \in Captures, x < ReturnCode(match)
      PROVE  Converted(Vectors(match), x) = ByteRange(match[x])
  <2>1. x \in Nat /\ x < captureCount
    BY <1>1 DEF Captures
  <2>2. 2 * x \in Words /\ 2 * x + 1 \in Words
    BY <1>1, <2>1 DEF Words
  <2>3. (2 * x) \div 2 = x /\ (2 * x + 1) \div 2 = x /\ (2 * x) % 2 = 0 /\ (2 * x + 1) % 2 = 1
    BY <2>1
  <2>4. ~(x >= ReturnCode(match))
    BY <1>4, <1>7, <2>1
  <2>5. CASE match[x] = None
    <3>1. Vectors(match)[2 * x] = -1
      BY <2>2, <2>3, <2>4, <2>5 DEF Vectors, Words
    <3>. QED BY <2>5, <3>1 DEF Converted, ByteRange
  <2>6. CASE match[x] # None
    <3>1. /\ Vectors(match)[2 * x] = Bytes(string, match[x].first)
          /\ Vectors(match)[2 * x + 1] = Bytes(string, match[x].last)
      BY <2>2, <2>3, <2>4, <2>6 DEF Vectors, Words
    <3>2. Bytes(string, match[x].first) \in Nat
      BY <1>2, <2>6, SpansOf
    <3>3. Vectors(match)[2 * x] # -1
      BY <3>1, <3>2
    <3>. QED BY <2>6, <3>1, <3>3 DEF Converted, ByteRange
  <2>. QED BY <2>5, <2>6
<1>. QED BY <1>6, <1>7

\* The ranges getRanges: returns are those of the captures, in bytes.
LEMMA ResultsOf ==
  ASSUME string \in Strings, NEW match \in Matches
  PROVE  ResultRanges(match) = [x \in Captures |-> ByteRange(match[x])]
<1>. DEFINE vectors == Vectors(match)
            count == ReturnCode(match)
            memory == Convert(vectors, count)
<1>1. count \in 0..captureCount /\ vectors \in [Words -> Int] /\ captureCount \in Nat
  BY ReturnCodeCovers, VectorsOf, EnumeratorAssumption
<1>2. memory = Stored(vectors, count, 0)
  <2>. HIDE DEF vectors, count
  <2>. QED BY <1>1, ConvertInPlace
<1>3. ASSUME NEW x \in Captures, x < count
      PROVE  Load(memory, x) = ByteRange(match[x])
  <2>1. x \in Nat /\ x < captureCount
    BY <1>1 DEF Captures
  <2>2. 4 * x \in Words /\ 4 * x + 2 \in Words
    BY <1>1, <2>1 DEF Words
  <2>3. (4 * x) \div 4 = x /\ (4 * x + 2) \div 4 = x /\ (4 * x) % 4 = 0 /\ (4 * x + 2) % 4 = 2
    BY <2>1
  <2>4. 4 * x < 4 * count /\ 4 * x + 2 < 4 * count /\ 4 * 0 <= 4 * x /\ 4 * 0 <= 4 * x + 2
    BY <1>1, <1>3, <2>1
  <2>5. Load(memory, x) = [location |-> Converted(vectors, x).location,
                           length |-> Converted(vectors, x).length]
    <3>. HIDE DEF vectors, count
    <3>. QED BY <1>2, <2>2, <2>3, <2>4 DEF Load, Stored, Image
  <2>6. Converted(vectors, x) = [location |-> Converted(vectors, x).location,
                                 length |-> Converted(vectors, x).length]
    BY DEF Converted, NotFound, NSMakeRange
  <2>7. Converted(vectors, x) = ByteRange(match[x])
    BY <1>3, VectorsOf
  <2>. QED BY <2>5, <2>6, <2>7
<1>4. ASSUME NEW x \in Captures, ~(x < count)
      PROVE  ByteRange(match[x]) = NotFound
  BY <1>4, ReturnCodeCovers DEF ByteRange
<1>. QED BY <1>3, <1>4 DEF ResultRanges
\* The places of a string that PCRE takes are words, and none is NSNotFound.
LEMMA OffsetsAreWords ==
  ASSUME string \in Strings, ByteLength(string) <= INT_MAX
  PROVE  \A i \in Steps(string) :
           /\ Bytes(string, i) \in 0..(Word - 1) /\ Bytes(string, i) < NSNotFound
           /\ UTF16(string, i) \in 0..(Word - 1)
           /\ UTF16(string, i) <= Bytes(string, i)
<1>. DEFINE n == Len(string.characters)
            bytes == [i \in Steps(string) |-> Bytes(string, i)]
<1>1. n \in Nat /\ Steps(string) = 0..n /\ Grows(bytes, n)
  BY Offsets
<1>2. \A i \in Steps(string) : Bytes(string, i) \in Nat /\ UTF16(string, i) \in Nat
  BY Offsets DEF Grows
<1>3. \A i \in 0..n : bytes[i] <= bytes[n]
  <2>. HIDE DEF bytes
  <2>. QED BY <1>1, GrowsBack
<1>4. bytes[n] = ByteLength(string) /\ n \in 0..n
  BY <1>1 DEF ByteLength
<1>5. ASSUME NEW i \in Steps(string) PROVE Bytes(string, i) <= ByteLength(string)
  BY <1>1, <1>3, <1>4
<1>6. \A i \in Steps(string) : UTF16(string, i) <= Bytes(string, i)
  BY UnitsAndBytes
<1>7. /\ NSNotFound \in 0..(Word - 1) /\ INT_MAX \in 0..(Word - 1) /\ INT_MAX < NSNotFound
      /\ ByteLength(string) \in Nat /\ Word \in Nat
  BY <1>1, <1>2, NotFoundIsLarge, WordAssumption DEF ByteLength
<1>. QED BY <1>2, <1>5, <1>6, <1>7

\* RKutf8to16 of the bytes of a capture are the UTF-16 units of that capture.
LEMMA UnitsOfMatch ==
  ASSUME string \in Strings, ByteLength(string) <= INT_MAX,
         NEW match \in Matches, NEW x \in Captures
  PROVE  RKutf8to16(string, ByteRange(match[x])) = UnitRange(match[x])
<1>. DEFINE n == Len(string.characters)
            bytes == [i \in Steps(string) |-> Bytes(string, i)]
            units == [i \in Steps(string) |-> UTF16(string, i)]
            r == ByteRange(match[x])
            first == match[x].first
            last == match[x].last
<1>1. CASE match[x] = None
  BY <1>1, NotFoundIsLarge DEF ByteRange, UnitRange, RKutf8to16
<1>2. CASE match[x] # None
  <2>1. first \in Steps(string) /\ last \in Steps(string) /\ first <= last
    BY <1>2, SpansOf
  <2>2. r = NSMakeRange(Bytes(string, first), Bytes(string, last) - Bytes(string, first))
    BY <1>2 DEF ByteRange
  <2>3. /\ Bytes(string, first) \in 0..(Word - 1) /\ Bytes(string, first) < NSNotFound
        /\ Bytes(string, last) \in 0..(Word - 1)
    BY <2>1, OffsetsAreWords
  <2>4. r.location = Bytes(string, first) /\ NSMaxRange(r) = Bytes(string, last)
    BY <2>2, <2>3, RangeOfWords
  <2>5. r.location # NSNotFound
    BY <2>3, <2>4, NotFoundIsLarge
  <2>6. UnitRange(match[x]) = NSMakeRange(units[first], units[last] - units[first])
    BY <1>2, <2>1 DEF UnitRange
  <2>7. CASE string.encoding = "ASCII"
    <3>1. /\ units[first] = Bytes(string, first)
          /\ units[last] = Bytes(string, last)
      BY <2>1, <2>7, UnitsAndBytes
    <3>. QED BY <2>2, <2>6, <2>7, <3>1 DEF RKutf8to16
  <2>8. CASE string.encoding # "ASCII"
    <3>1. RKutf8to16(string, r) = Walk(bytes, units, r, Steps(string))
      BY <2>5, <2>8 DEF RKutf8to16
    <3>2. /\ n \in Nat /\ Steps(string) = 0..n /\ Grows(bytes, n) /\ Grows(units, n)
          /\ r.location = bytes[first] /\ NSMaxRange(r) = bytes[last]
      BY <2>1, <2>4, Offsets
    <3>. HIDE DEF bytes, units, r, first, last, n
    <3>3. Walk(bytes, units, r, 0..n) = NSMakeRange(units[first], units[last] - units[first])
      BY <2>1, <3>2, WalkOfSpan
    <3>. QED BY <2>6, <3>1, <3>2, <3>3 DEF r
  <2>. QED BY <2>7, <2>8
<1>. QED BY <1>1, <1>2

\* A range of either kind is one of words.
LEMMA RangeTypes ==
  ASSUME string \in Strings, NEW match \in Matches, NEW x \in Captures
  PROVE  /\ ByteRange(match[x]) \in [location : 0..(Word - 1), length : 0..(Word - 1)]
         /\ UnitRange(match[x]) \in [location : 0..(Word - 1), length : 0..(Word - 1)]
<1>1. \A i \in Steps(string) : Bytes(string, i) \in Nat /\ UTF16(string, i) \in Nat
  BY Offsets DEF Grows
<1>2. NotFound \in [location : 0..(Word - 1), length : 0..(Word - 1)]
  <2>1. 0 \in 0..(Word - 1)
    BY WordAssumption
  <2>. QED BY <2>1, NotFoundIsLarge
<1>3. CASE match[x] = None
  BY <1>2, <1>3 DEF ByteRange, UnitRange
<1>4. CASE match[x] # None
  <2>1. match[x].first \in Steps(string) /\ match[x].last \in Steps(string)
    BY <1>4, SpansOf
  <2>2. /\ Bytes(string, match[x].first) \in Int /\ Bytes(string, match[x].last) - Bytes(string, match[x].first) \in Int
        /\ UTF16(string, match[x].first) \in Int /\ UTF16(string, match[x].last) - UTF16(string, match[x].first) \in Int
    BY <1>1, <2>1
  <2>. QED BY <1>4, <2>2, MakeRangeType DEF ByteRange, UnitRange
<1>. QED BY <1>3, <1>4
-------------------------------------------------------------------------------
\* The range asked for.

\* A walk ends at the first character at or behind the end of the range, and
\* either begins where the range does or finds no such character.
LEMMA WalkOfRange ==
  ASSUME NEW n \in Nat, NEW from, NEW to, Grows(from, n), Grows(to, n),
         NEW r, NSMaxRange(r) \in Nat, NSMaxRange(r) <= from[n]
  PROVE  \E last \in 0..n :
           /\ \A i \in 0..n : i < last => from[i] < NSMaxRange(r)
           /\ \/ Walk(from, to, r, 0..n) = NSMakeRange(NSNotFound, to[last] - NSNotFound)
              \/ \E first \in 0..n :
                   /\ from[first] = r.location
                   /\ Walk(from, to, r, 0..n) = NSMakeRange(to[first], to[last] - to[first])
<1>. DEFINE ends == {i \in 0..n : from[i] >= NSMaxRange(r)}
            last == Min(ends)
            on == {i \in 0..n : i <= last /\ from[i] = r.location}
<1>1. \A i \in 0..n : from[i] \in Nat
  BY GrowsBack
<1>2. ends \in SUBSET Nat /\ n \in ends
  BY <1>1
<1>3. last \in ends /\ \A i \in ends : last <= i
  <2>. HIDE DEF ends
  <2>. QED BY <1>2, MinIsLeast
<1>4. last \in 0..n /\ \A i \in 0..n : i < last => from[i] < NSMaxRange(r)
  <2>1. last \in 0..n
    BY <1>3
  <2>2. ASSUME NEW i \in 0..n, i < last PROVE from[i] < NSMaxRange(r)
    <3>1. i \notin ends
      <4>. HIDE DEF ends
      <4>. QED BY <1>3, <2>1, <2>2
    <3>. QED BY <1>1, <3>1
  <2>. QED BY <2>1, <2>2
<1>5. Walk(from, to, r, 0..n) =
        NSMakeRange(IF on = {} THEN NSNotFound ELSE to[Min(on)],
                    to[last] - (IF on = {} THEN NSNotFound ELSE to[Min(on)]))
  BY DEF Walk
<1>6. on # {} => Min(on) \in on
  <2>1. on \in SUBSET Nat
    OBVIOUS
  <2>. HIDE DEF on
  <2>. QED BY <2>1, MinIsLeast
<1>7. on # {} => Min(on) \in 0..n /\ from[Min(on)] = r.location
  BY <1>6
<1>. HIDE DEF on, last
<1>. QED BY <1>4, <1>5, <1>7

\* What begins inside the range in bytes begins inside the one asked for, and
\* what ends there has its last character inside it.
LEMMA AskedRange ==
  ASSUME Inputs, ~InitRaises, ByteLength(string) <= INT_MAX,
         RKutf16to8(string, initRange).location # NSNotFound
  PROVE  \A i \in Steps(string) :
           /\ Bytes(string, i) >= RKutf16to8(string, initRange).location =>
                UTF16(string, i) >= initRange.location
           /\ i > 0 /\ Bytes(string, i) <= NSMaxRange(RKutf16to8(string, initRange)) =>
                UTF16(string, i - 1) < NSMaxRange(initRange)
<1>. DEFINE r == RKutf16to8(string, initRange)
            n == Len(string.characters)
            bytes == [i \in Steps(string) |-> Bytes(string, i)]
            units == [i \in Steps(string) |-> UTF16(string, i)]
<1>1. string \in Strings /\ initRange \in [location : 0..(Word - 1), length : 0..(Word - 1)]
  BY RangesAssumption DEF Inputs
<1>2. Word \in Nat /\ Word > 3 /\ NSNotFound \in Nat
  BY WordAssumption, NotFoundIsLarge
<1>3. NSMaxRange(initRange) \in Nat
  BY <1>1, <1>2 DEF NSMaxRange
<1>4. initRange.location # NSNotFound
  BY DEF RKutf16to8
<1>5. ~(ByteLength(string) < r.location) /\ NSMaxRange(initRange) <= Length(string)
  BY <1>4 DEF InitRaises, InString
<1>6. n \in Nat /\ Steps(string) = 0..n /\ Grows(bytes, n) /\ Grows(units, n)
  BY <1>1, Offsets
<1>7. /\ \A i \in 0..n : bytes[i] = Bytes(string, i) /\ units[i] = UTF16(string, i)
      /\ units[n] = Length(string) /\ bytes[n] = ByteLength(string)
  BY <1>6 DEF Length, ByteLength
<1>8. \A i \in 0..n : bytes[i] \in 0..(Word - 1) /\ bytes[i] < NSNotFound /\ units[i] \in Nat
  BY <1>1, <1>6, <1>7, OffsetsAreWords
<1>. HIDE DEF bytes, units, n
<1>. SUFFICES ASSUME NEW i \in 0..n
              PROVE  /\ bytes[i] >= r.location => units[i] >= initRange.location
                     /\ i > 0 /\ bytes[i] <= NSMaxRange(r) => units[i - 1] < NSMaxRange(initRange)
  <2>1. \A i \in 0..n : i > 0 => i - 1 \in 0..n
    BY <1>6
  <2>. QED BY <1>6, <1>7, <2>1
<1>9. CASE string.encoding = "ASCII"
  <2>1. \A j \in 0..n : bytes[j] = j /\ units[j] = j
    BY <1>1, <1>6, <1>7, <1>9, UnitsAndBytes
  <2>2. r = initRange
    BY <1>9 DEF RKutf16to8
  <2>3. bytes[i] = i /\ units[i] = i /\ (i > 0 => i - 1 \in 0..n /\ units[i - 1] = i - 1)
    BY <1>6, <2>1
  <2>4. initRange.location \in Nat
    BY <1>1
  <2>. HIDE DEF r
  <2>. QED BY <1>3, <1>6, <2>2, <2>3, <2>4
<1>10. CASE string.encoding # "ASCII"
  <2>1. r = Walk(units, bytes, initRange, 0..n)
    BY <1>4, <1>6, <1>10 DEF RKutf16to8, bytes, units
  <2>. HIDE DEF r
  <2>2. PICK last \in 0..n :
          /\ \A j \in 0..n : j < last => units[j] < NSMaxRange(initRange)
          /\ \/ r = NSMakeRange(NSNotFound, bytes[last] - NSNotFound)
             \/ \E first \in 0..n :
                  /\ units[first] = initRange.location
                  /\ r = NSMakeRange(bytes[first], bytes[last] - bytes[first])
    BY <1>3, <1>5, <1>6, <1>7, <2>1, WalkOfRange
  <2>3. r # NSMakeRange(NSNotFound, bytes[last] - NSNotFound)
    <3>1. bytes[last] \in 0..(Word - 1) /\ NSNotFound \in 0..(Word - 1)
      BY <1>8, NotFoundIsLarge
    <3>2. NSMakeRange(NSNotFound, bytes[last] - NSNotFound).location = NSNotFound
      BY <3>1, RangeOfWords
    <3>3. r.location # NSNotFound
      BY DEF r
    <3>. QED BY <3>2, <3>3
  <2>4. PICK first \in 0..n :
          /\ units[first] = initRange.location
          /\ r = NSMakeRange(bytes[first], bytes[last] - bytes[first])
    BY <2>2, <2>3
  <2>5. r.location = bytes[first] /\ NSMaxRange(r) = bytes[last]
    BY <1>8, <2>4, RangeOfWords
  <2>6. bytes[i] >= r.location => units[i] >= initRange.location
    <3>1. bytes[first] <= bytes[i] <=> first <= i
      BY <1>6, GrowsBack
    <3>2. units[first] <= units[i] <=> first <= i
      BY <1>6, GrowsBack
    <3>3. bytes[first] \in Nat /\ bytes[i] \in Nat /\ units[first] \in Nat /\ units[i] \in Nat
      BY <1>8
    <3>. QED BY <2>4, <2>5, <3>1, <3>2, <3>3
  <2>7. i > 0 /\ bytes[i] <= NSMaxRange(r) => units[i - 1] < NSMaxRange(initRange)
    <3>1. bytes[i] <= bytes[last] <=> i <= last
      BY <1>6, GrowsBack
    <3>2. i > 0 /\ i <= last => i - 1 \in 0..n /\ i - 1 < last
      BY <1>6
    <3>. QED BY <2>2, <2>5, <3>1, <3>2
  <2>. QED BY <2>6, <2>7
<1>. QED BY <1>9, <1>10
\* The range asked for, in bytes, is a range of words.
LEMMA AskedRangeType ==
  ASSUME Inputs, ~InitRaises
  PROVE  RKutf16to8(string, initRange) \in [location : 0..(Word - 1), length : 0..(Word - 1)]
<1>. DEFINE r == RKutf16to8(string, initRange)
            n == Len(string.characters)
            bytes == [i \in Steps(string) |-> Bytes(string, i)]
            units == [i \in Steps(string) |-> UTF16(string, i)]
<1>1. string \in Strings /\ initRange \in [location : 0..(Word - 1), length : 0..(Word - 1)]
  BY RangesAssumption DEF Inputs
<1>2. CASE initRange.location = NSNotFound \/ string.encoding = "ASCII"
  BY <1>1, <1>2 DEF RKutf16to8
<1>3. CASE ~(initRange.location = NSNotFound \/ string.encoding = "ASCII")
  <2>1. n \in Nat /\ Steps(string) = 0..n /\ Grows(bytes, n) /\ Grows(units, n)
    BY <1>1, Offsets
  <2>2. NSMaxRange(initRange) \in Nat
    BY <1>1, WordAssumption DEF NSMaxRange
  <2>3. NSMaxRange(initRange) <= units[n]
    BY <1>3, <2>1 DEF InitRaises, InString, Length
  <2>4. r = Walk(units, bytes, initRange, 0..n)
    BY <1>3, <2>1 DEF RKutf16to8
  <2>. HIDE DEF r, bytes, units, n
  <2>5. PICK last \in 0..n :
          \/ r = NSMakeRange(NSNotFound, bytes[last] - NSNotFound)
          \/ \E first \in 0..n : r = NSMakeRange(bytes[first], bytes[last] - bytes[first])
    BY <2>1, <2>2, <2>3, <2>4, WalkOfRange
  <2>6. \A i \in 0..n : bytes[i] \in Nat
    BY <2>1, GrowsBack
  <2>7. NSNotFound \in Int
    BY NotFoundIsLarge
  <2>8. PICK a \in Int, b \in Int : r = NSMakeRange(a, b)
    BY <2>5, <2>6, <2>7
  <2>9. r \in [location : 0..(Word - 1), length : 0..(Word - 1)]
    BY <2>8, MakeRangeType
  <2>. QED BY <2>9 DEF r
<1>. QED BY <1>2, <1>3

-------------------------------------------------------------------------------
\* Every step keeps the invariant.

\* A new enumerator has no match.
LEMMA Initially == Init => IInv
<1>. SUFFICES ASSUME Init PROVE IInv
  OBVIOUS
<1>1. 0 \in 0..(Word - 1) /\ NotFound \in [location : 0..(Word - 1), length : 0..(Word - 1)]
  <2>1. 0 \in 0..(Word - 1)
    BY WordAssumption
  <2>. QED BY <2>1, NotFoundIsLarge
<1>2. TypeOK
  BY <1>1 DEF Init, TypeOK
<1>. QED BY <1>2 DEF Init, IInv, Inputs, Made, AtMatch, RangesAgree, HasMatch

\* initWithRegex:string:inRange: converts the range and has no match yet.
LEMMA InitWithRegexKeeps == IInv /\ InitWithRegex => IInv'
<1>. SUFFICES ASSUME IInv, InitWithRegex PROVE IInv'
  OBVIOUS
<1>. DEFINE r == RKutf16to8(string, initRange)
<1>1. Inputs /\ TypeOK /\ ~hasPerformedMatch
  BY DEF IInv, Made, InitWithRegex
<1>2. r \in [location : 0..(Word - 1), length : 0..(Word - 1)]
  BY <1>1, AskedRangeType DEF InitWithRegex
<1>3. ~HasMatch'
  BY <1>1 DEF HasMatch, InitWithRegex
<1>4. NoRanges \in [Captures -> [location : 0..(Word - 1), length : 0..(Word - 1)]]
  <2>1. NotFound \in [location : 0..(Word - 1), length : 0..(Word - 1)]
    <3>1. 0 \in 0..(Word - 1)
      BY WordAssumption
    <3>. QED BY <3>1, NotFoundIsLarge
  <2>. QED BY <2>1 DEF NoRanges
<1>5. /\ searchByteRange' = r /\ atBufferLocation' = r.location
      /\ state' = "ready" /\ ~InitRaises
      /\ UNCHANGED <<regex, string, initRange, hasPerformedMatch, matched>>
      /\ resultUTF8Ranges' = NoRanges /\ resultUTF16Ranges' = NoRanges
  BY DEF InitWithRegex
<1>. HIDE DEF r
<1>6. TypeOK'
  BY <1>1, <1>2, <1>4, <1>5 DEF TypeOK
<1>7. Inputs'
  BY <1>1, <1>5 DEF Inputs
<1>8. Made'
  BY <1>3, <1>5 DEF Made, InitRaises, r
<1>. QED BY <1>3, <1>6, <1>7, <1>8 DEF IInv, AtMatch, RangesAgree

\* An exception, the end of the matches and dealloc leave no match.
LEMMA EndKeeps == IInv /\ (InitFails \/ NoMoreMatches \/ Dealloc) => IInv'
<1>. SUFFICES ASSUME IInv, InitFails \/ NoMoreMatches \/ Dealloc PROVE IInv'
  OBVIOUS
<1>1. ~HasMatch'
  BY DEF IInv, Made, HasMatch, InitFails, NoMoreMatches, Dealloc, Release
<1>2. NSNotFound \in 0..(Word - 1)
  BY NotFoundIsLarge
<1>3. TypeOK'
  <2>1. CASE InitFails
    BY <2>1 DEF IInv, TypeOK, InitFails, arguments, results
  <2>2. CASE NoMoreMatches \/ Dealloc
    BY <1>2, <2>2 DEF IInv, TypeOK, NoMoreMatches, Dealloc, Release, arguments
  <2>. QED BY <2>1, <2>2
<1>4. UNCHANGED arguments /\ Inputs'
  BY DEF IInv, Inputs, InitFails, NoMoreMatches, Dealloc, arguments
<1>5. Made'
  <2>1. CASE NoMoreMatches
    BY <1>1, <1>4, <2>1 DEF IInv, Made, NoMoreMatches, CanSearch, InitRaises, arguments
  <2>2. CASE InitFails \/ Dealloc
    BY <1>1, <2>2 DEF IInv, Made, InitFails, Dealloc
  <2>. QED BY <2>1, <2>2
<1>. QED BY <1>1, <1>3, <1>4, <1>5 DEF IInv, AtMatch, RangesAgree

\* A step of nobody keeps it.
LEMMA StutterKeeps == IInv /\ UNCHANGED vars => IInv'
<1>. SUFFICES ASSUME IInv, UNCHANGED vars PROVE IInv'
  OBVIOUS
<1>1. UNCHANGED <<state, regex, string, initRange, searchByteRange, atBufferLocation,
                  hasPerformedMatch, resultUTF8Ranges, resultUTF16Ranges, matched>>
  BY DEF vars, arguments, results
<1>2. TypeOK' /\ Inputs' /\ Made'
  BY <1>1 DEF IInv, TypeOK, Inputs, Made, HasMatch, InitRaises
<1>3. AtMatch'
  BY <1>1 DEF IInv, AtMatch, HasMatch, Matches
<1>4. RangesAgree'
  BY <1>1 DEF IInv, RangesAgree, HasMatch, Between
<1>. QED BY <1>2, <1>3, <1>4 DEF IInv
\* What a match does: its ranges are stored, and the next search starts where it
\* ends.
LEMMA MatchStep ==
  ASSUME IInv, NextMatch
  PROVE  /\ state = "ready" /\ state' = state
         /\ ByteLength(string) <= INT_MAX
         /\ atBufferLocation # NSNotFound
         /\ hasPerformedMatch' = TRUE
         /\ UNCHANGED <<regex, string, initRange, searchByteRange>>
         /\ matched' \in Matches
         /\ Bytes(string, matched'[0].first) >= atBufferLocation
         /\ Bytes(string, matched'[0].last) <= NSMaxRange(searchByteRange)
         /\ atBufferLocation' = Bytes(string, matched'[0].last)
         /\ resultUTF8Ranges' = [x \in Captures |-> ByteRange(matched'[x])]
         /\ resultUTF16Ranges' = [x \in Captures |-> UnitRange(matched'[x])]
<1>. DEFINE n == Len(string.characters)
<1>1. /\ state = "ready" /\ ~MatchRaises(SearchRange) /\ atBufferLocation # NSNotFound
      /\ hasPerformedMatch' = TRUE
      /\ UNCHANGED <<state, regex, string, initRange, searchByteRange>>
  BY DEF NextMatch, CanSearch, arguments
<1>2. string \in Strings /\ TypeOK
  BY DEF IInv, Inputs
<1>3. n \in Nat /\ Steps(string) = 0..n /\ \A i \in Steps(string) : Bytes(string, i) \in Nat
  BY <1>2, Offsets DEF Grows
<1>4. ByteLength(string) <= INT_MAX
  <2>1. ~(ByteLength(string) > INT_MAX)
    BY <1>1 DEF MatchRaises
  <2>2. ByteLength(string) \in Nat /\ INT_MAX \in Nat
    BY <1>3, EnumeratorAssumption DEF ByteLength
  <2>. QED BY <2>1, <2>2
<1>5. NSMaxRange(SearchRange) = NSMaxRange(searchByteRange)
  <2>1. NSMaxRange(searchByteRange) \in 0..(Word - 1) /\ atBufferLocation \in 0..(Word - 1)
    BY <1>2, WordAssumption DEF TypeOK, NSMaxRange
  <2>. QED BY <2>1, RangeOfWords DEF SearchRange
<1>6. PICK whole \in Spans(0, n) :
        /\ Bytes(string, whole.first) >= atBufferLocation
        /\ Admissible(whole)
        /\ \E groups \in [Captures \ {0} -> Spans(whole.first, whole.last) \cup {None}] :
             Update([x \in Captures |-> IF x = 0 THEN whole ELSE groups[x]])
  BY DEF NextMatch
<1>. PICK groups \in [Captures \ {0} -> Spans(whole.first, whole.last) \cup {None}] :
       Update([x \in Captures |-> IF x = 0 THEN whole ELSE groups[x]])
  BY <1>6
<1>. DEFINE match == [x \in Captures |-> IF x = 0 THEN whole ELSE groups[x]]
<1>7. match \in Matches /\ match[0] = whole
  <2>1. 0 \in Captures
    BY EnumeratorAssumption DEF Captures
  <2>2. whole # None
    BY <1>3, EnumeratorAssumption DEF Spans
  <2>3. \A x \in Captures : match[x] \in Spans(0, n) \cup {None}
    <3>1. whole.first \in 0..n /\ whole.last \in 0..n
      BY DEF Spans
    <3>2. Spans(whole.first, whole.last) \subseteq Spans(0, n)
      <4>1. \A i \in (whole.first)..(whole.last) : i \in 0..n
        BY <1>3, <3>1
      <4>2. [first : (whole.first)..(whole.last), last : (whole.first)..(whole.last)] \subseteq [first : 0..n, last : 0..n]
        BY <4>1
      <4>. QED BY <4>2 DEF Spans
    <3>3. \A x \in Captures \ {0} : groups[x] \in Spans(0, n) \cup {None}
      BY <3>2
    <3>. QED BY <3>3
  <2>4. match[0] = whole
    BY <2>1
  <2>. QED BY <2>2, <2>3, <2>4 DEF Matches
<1>. HIDE DEF match
<1>8. Update(match)
  BY DEF match
<1>9. ResultRanges(match) = [x \in Captures |-> ByteRange(match[x])]
  BY <1>2, <1>7, ResultsOf
<1>10. \A x \in Captures : RKutf8to16(string, ByteRange(match[x])) = UnitRange(match[x])
  BY <1>2, <1>4, <1>7, UnitsOfMatch
<1>11. /\ matched' = match
       /\ resultUTF8Ranges' = [x \in Captures |-> ByteRange(match[x])]
       /\ resultUTF16Ranges' = [x \in Captures |-> UnitRange(match[x])]
       /\ atBufferLocation' = NSMaxRange(ByteRange(match[0]))
  <2>1. 0 \in Captures
    BY EnumeratorAssumption DEF Captures
  <2>. QED BY <1>8, <1>9, <1>10, <2>1 DEF Update
<1>12. NSMaxRange(ByteRange(match[0])) = Bytes(string, match[0].last)
  <2>1. 0 \in Captures /\ match[0] # None
    BY <1>7, EnumeratorAssumption DEF Captures, Matches
  <2>2. match[0].first \in Steps(string) /\ match[0].last \in Steps(string)
    BY <1>2, <1>7, <2>1, SpansOf
  <2>3. Bytes(string, match[0].first) \in 0..(Word - 1) /\ Bytes(string, match[0].last) \in 0..(Word - 1)
    BY <1>2, <1>4, <2>2, OffsetsAreWords
  <2>. QED BY <2>1, <2>3, RangeOfWords DEF ByteRange
<1>13. Bytes(string, match[0].last) <= NSMaxRange(searchByteRange)
  BY <1>5, <1>6, <1>7 DEF Admissible
<1>. QED BY <1>1, <1>4, <1>6, <1>7, <1>11, <1>12, <1>13

\* A match begins at or behind the end of the one before it, and its characters
\* begin inside the range asked for.
LEMMA MatchInOrder ==
  ASSUME IInv, NextMatch
  PROVE  /\ HasMatch => matched'[0].first >= matched[0].last
         /\ UTF16(string, matched'[0].first) >= initRange.location
         /\ matched'[0].first < matched'[0].last =>
              UTF16(string, matched'[0].last - 1) < NSMaxRange(initRange)
<1>. DEFINE n == Len(string.characters)
            bytes == [i \in Steps(string) |-> Bytes(string, i)]
            units == [i \in Steps(string) |-> UTF16(string, i)]
            first == matched'[0].first
            last == matched'[0].last
            r == RKutf16to8(string, initRange)
<1>1. string \in Strings /\ Inputs
  BY DEF IInv, Inputs
<1>2. n \in Nat /\ Steps(string) = 0..n /\ Grows(bytes, n) /\ Grows(units, n)
  BY <1>1, Offsets
<1>3. \A i \in 0..n : bytes[i] = Bytes(string, i) /\ units[i] = UTF16(string, i)
  BY <1>2
<1>4. 0 \in Captures
  BY EnumeratorAssumption DEF Captures
<1>5. first \in 0..n /\ last \in 0..n /\ first <= last
  BY <1>1, <1>2, <1>4, MatchStep, SpansOf DEF Matches
<1>6. /\ ByteLength(string) <= INT_MAX /\ atBufferLocation # NSNotFound
      /\ bytes[first] >= atBufferLocation
      /\ bytes[last] <= NSMaxRange(searchByteRange)
  BY <1>3, <1>5, MatchStep
<1>7. ~InitRaises /\ searchByteRange = r /\ (~hasPerformedMatch => atBufferLocation = r.location)
  BY MatchStep DEF IInv, Made
<1>8. HasMatch => /\ matched[0].first \in 0..n /\ matched[0].last \in 0..n
                  /\ matched[0].first <= matched[0].last
                  /\ atBufferLocation = bytes[matched[0].last]
                  /\ units[matched[0].first] >= initRange.location
  <2>. SUFFICES ASSUME HasMatch
                PROVE  /\ matched[0].first \in 0..n /\ matched[0].last \in 0..n
                       /\ matched[0].first <= matched[0].last
                       /\ atBufferLocation = bytes[matched[0].last]
                       /\ units[matched[0].first] >= initRange.location
    OBVIOUS
  <2>1. /\ matched \in Matches /\ matched[0] # None
        /\ atBufferLocation = Bytes(string, matched[0].last)
        /\ UTF16(string, matched[0].first) >= initRange.location
    BY DEF IInv, AtMatch, Matches
  <2>2. matched[0].first \in 0..n /\ matched[0].last \in 0..n /\ matched[0].first <= matched[0].last
    BY <1>1, <1>2, <1>4, <2>1, SpansOf
  <2>. QED BY <1>3, <2>1, <2>2
<1>9. \A i \in 0..n : bytes[i] \in Nat /\ units[i] \in Nat
  <2>. HIDE DEF bytes, units, n
  <2>. QED BY <1>2, GrowsBack
<1>10. initRange.location \in Nat /\ NSNotFound \in Nat
  BY <1>1, RangesAssumption, NotFoundIsLarge DEF Inputs
<1>11. \A i, j \in 0..n : (bytes[i] <= bytes[j] <=> i <= j) /\ (units[i] <= units[j] <=> i <= j)
  <2>. HIDE DEF bytes, units, n
  <2>. QED BY <1>2, GrowsBack
<1>12. r.location # NSNotFound
  <2>1. CASE r.location = NSNotFound
    <3>1. ~(ByteLength(string) < r.location)
      <4>1. CASE initRange.location = NSNotFound
        <5>1. r = initRange
          BY <4>1 DEF RKutf16to8
        <5>. QED BY <1>7, <4>1, <5>1 DEF InitRaises, InString
      <4>2. CASE initRange.location # NSNotFound
        BY <1>7, <4>2 DEF InitRaises, InString
      <4>. QED BY <4>1, <4>2
    <3>2. ByteLength(string) = bytes[n] /\ n \in 0..n
      BY <1>2 DEF ByteLength
    <3>3. ByteLength(string) \in Nat
      BY <1>9, <3>2
    <3>4. INT_MAX < NSNotFound /\ INT_MAX \in Nat
      BY EnumeratorAssumption
    <3>. QED BY <1>6, <1>10, <2>1, <3>1, <3>3, <3>4
  <2>. QED BY <2>1
<1>13. \A i \in 0..n :
         /\ bytes[i] >= r.location => units[i] >= initRange.location
         /\ i > 0 /\ bytes[i] <= NSMaxRange(r) => UTF16(string, i - 1) < NSMaxRange(initRange)
  BY <1>1, <1>2, <1>3, <1>6, <1>7, <1>12, AskedRange
<1>. HIDE DEF bytes, units, n, first, last, r
<1>14. HasMatch => first >= matched[0].last
  BY <1>5, <1>6, <1>8, <1>9, <1>11
<1>15. units[first] >= initRange.location
  <2>1. CASE HasMatch
    <3>1. matched[0].first <= first
      BY <1>5, <1>8, <1>14, <2>1
    <3>2. units[matched[0].first] <= units[first]
      BY <1>5, <1>8, <1>11, <2>1, <3>1
    <3>. QED BY <1>5, <1>8, <1>9, <1>10, <2>1, <3>2
  <2>2. CASE ~HasMatch
    <3>1. atBufferLocation = r.location
      BY <1>6, <1>7, <2>2 DEF HasMatch, IInv, TypeOK
    <3>. QED BY <1>5, <1>6, <1>13, <3>1
  <2>. QED BY <2>1, <2>2
<1>16. first < last => UTF16(string, last - 1) < NSMaxRange(initRange)
  <2>1. first < last => last > 0
    BY <1>2, <1>5
  <2>. QED BY <1>5, <1>6, <1>7, <1>13, <2>1
<1>17. units[first] = UTF16(string, first)
  BY <1>3, <1>5
<1>. QED BY <1>14, <1>15, <1>16, <1>17 DEF first, last

\* A match keeps it: what is stored is what was matched.
LEMMA NextMatchKeeps == IInv /\ NextMatch => IInv'
<1>. SUFFICES ASSUME IInv, NextMatch PROVE IInv'
  OBVIOUS
<1>1. string \in Strings /\ TypeOK /\ Inputs
  BY DEF IInv, Inputs
<1>2. /\ state = "ready" /\ state' = state
      /\ ByteLength(string) <= INT_MAX
      /\ hasPerformedMatch' = TRUE
      /\ UNCHANGED <<regex, string, initRange, searchByteRange>>
      /\ matched' \in Matches
      /\ atBufferLocation' = Bytes(string, matched'[0].last)
      /\ resultUTF8Ranges' = [x \in Captures |-> ByteRange(matched'[x])]
      /\ resultUTF16Ranges' = [x \in Captures |-> UnitRange(matched'[x])]
  BY MatchStep
<1>3. TypeOK'
  <2>1. \A x \in Captures :
           /\ ByteRange(matched'[x]) \in [location : 0..(Word - 1), length : 0..(Word - 1)]
           /\ UnitRange(matched'[x]) \in [location : 0..(Word - 1), length : 0..(Word - 1)]
    BY <1>1, <1>2, RangeTypes
  <2>2. matched'[0].last \in Steps(string)
    <3>1. 0 \in Captures /\ matched'[0] # None
      BY <1>2, EnumeratorAssumption DEF Captures, Matches
    <3>. QED BY <1>1, <1>2, <3>1, SpansOf
  <2>3. Bytes(string, matched'[0].last) \in 0..(Word - 1)
    BY <1>1, <1>2, <2>2, OffsetsAreWords
  <2>4. matched' \in [Captures -> [first : 0..Len(string.characters), last : 0..Len(string.characters)] \cup {None}]
    BY <1>2 DEF Matches, Spans
  <2>. QED BY <1>1, <1>2, <2>1, <2>3, <2>4 DEF TypeOK
<1>4. Inputs'
  BY <1>1, <1>2 DEF Inputs
<1>5. Made'
  BY <1>2 DEF IInv, Made, InitRaises
<1>6. AtMatch'
  BY <1>2, MatchInOrder DEF AtMatch, Matches
<1>7. RangesAgree'
  BY <1>2 DEF RangesAgree, Between, ByteRange, UnitRange
<1>. QED BY <1>3, <1>4, <1>5, <1>6, <1>7 DEF IInv

\* The invariant holds in every state.
LEMMA Invariance == Spec => []IInv
<1>1. IInv /\ [Next]_vars => IInv'
  BY InitWithRegexKeeps, EndKeeps, NextMatchKeeps, StutterKeeps DEF Next
<1>. QED BY Initially, <1>1, PTL DEF Spec

\* The values each variable may have, for any strings, regexes and ranges.
THEOREM TypeCorrect == Spec => []TypeOK
<1>1. IInv => TypeOK
  BY DEF IInv
<1>. QED BY Invariance, <1>1, PTL

\* The ranges of a match, in bytes and in UTF-16 units, are those of the captures
\* PCRE matched: the conversion in place and the walk over the characters do not
\* mix them up, whatever the string.
THEOREM RangesCorrect == Spec => []RangesAgree
<1>1. IInv => RangesAgree
  BY DEF IInv
<1>. QED BY Invariance, <1>1, PTL

\* Matches come in the order of the string and their characters begin inside the
\* range the enumerator was made for, counted as its user counts.
THEOREM OrderCorrect == Spec => MatchesInOrder
<1>. DEFINE Ordered ==
       HasMatch' =>
         LET match == matched'[0] IN
         /\ HasMatch /\ matched' # matched => match.first >= matched[0].last
         /\ UTF16(string, match.first) >= initRange.location
         /\ match.first < match.last =>
              UTF16(string, match.last - 1) < NSMaxRange(initRange)
<1>1. IInv /\ IInv' /\ [Next]_vars => [Ordered]_vars
  <2>. SUFFICES ASSUME IInv, IInv', Next PROVE Ordered
    OBVIOUS
  <2>1. CASE NextMatch
    BY <2>1, MatchInOrder
  <2>2. CASE ~NextMatch
    BY <2>2
         DEF Next, IInv, Made, HasMatch, InitWithRegex, InitFails, NoMoreMatches,
         Dealloc, Release
  <2>. QED BY <2>1, <2>2
<1>. QED BY Invariance, <1>1, PTL DEF Spec, MatchesInOrder
-------------------------------------------------------------------------------
\* The names of captures.

AllNames == Seq(Nat \ {0})

\* A capture name table as PCRE makes it.
IsTable(table) ==
  /\ table \in Seq([name : AllNames, capture : Captures \ {0}])
  /\ \A i, j \in DOMAIN table : i < j =>
       \/ Precedes(table[i].name, table[j].name)
       \/ table[i].name = table[j].name /\ table[i].capture < table[j].capture

\* strncmp over the length of the name tells a name from every other, one that it
\* is a prefix of included.
LEMMA CompareIsZero ==
  ASSUME NEW a \in AllNames, NEW b \in AllNames
  PROVE  Compare(a, b) \in Int /\ (Compare(a, b) = 0 <=> a = b)
<1>. DEFINE differ == {i \in DOMAIN a : CharacterAt(b, i) # a[i]}
            d == Min(differ)
<1>1. /\ Len(a) \in Nat /\ DOMAIN a = 1..Len(a) /\ \A i \in 1..Len(a) : a[i] \in Nat /\ a[i] # 0
      /\ Len(b) \in Nat /\ DOMAIN b = 1..Len(b) /\ \A i \in 1..Len(b) : b[i] \in Nat /\ b[i] # 0
  BY DEF AllNames
<1>2. \A i \in 1..Len(a) : CharacterAt(b, i) \in Nat
  BY <1>1 DEF CharacterAt
<1>3. CASE differ # {}
  <2>1. differ \in SUBSET Nat
    BY <1>1
  <2>2. d \in differ
    <3>. HIDE DEF differ
    <3>. QED BY <1>3, <2>1, MinIsLeast
  <2>3. d \in 1..Len(a) /\ CharacterAt(b, d) # a[d]
    BY <1>1, <2>2
  <2>4. Compare(a, b) = a[d] - CharacterAt(b, d)
    BY <1>3 DEF Compare
  <2>5. a[d] \in Nat /\ CharacterAt(b, d) \in Nat
    BY <1>1, <1>2, <2>3
  <2>6. a # b
    <3>1. a = b => CharacterAt(b, d) = a[d]
      BY <1>1, <2>3 DEF CharacterAt
    <3>. QED BY <2>3, <3>1
  <2>. HIDE DEF d, differ
  <2>. QED BY <2>3, <2>4, <2>5, <2>6
<1>4. CASE differ = {}
  <2>1. \A i \in 1..Len(a) : CharacterAt(b, i) = a[i]
    BY <1>1, <1>4
  <2>2. \A i \in 1..Len(a) : i <= Len(b) /\ b[i] = a[i]
    BY <1>1, <2>1 DEF CharacterAt
  <2>3. Len(a) <= Len(b)
    BY <1>1, <2>2
  <2>4. Compare(a, b) = IF Len(b) > Len(a) THEN -1 ELSE 0
    BY <1>4 DEF Compare
  <2>5. Len(a) = Len(b) => a = b
    <3>1. a = [i \in 1..Len(a) |-> a[i]] /\ b = [i \in 1..Len(b) |-> b[i]]
      BY DEF AllNames
    <3>. QED BY <2>2, <3>1
  <2>6. Len(a) \in Nat /\ Len(b) \in Nat
    BY <1>1
  <2>7. a = b => Len(a) = Len(b)
    OBVIOUS
  <2>. QED BY <2>3, <2>4, <2>5, <2>6, <2>7
<1>. QED BY <1>3, <1>4

\* It has the sign the order of the table gives it, asked for either name.
LEMMA CompareInOrder ==
  ASSUME NEW a \in AllNames, NEW b \in AllNames, Precedes(a, b)
  PROVE  Compare(a, b) < 0 /\ Compare(b, a) > 0
<1>. PICK la \in Nat, lb \in Nat :
       /\ la = Len(a) /\ DOMAIN a = 1..la /\ \A i \in 1..la : a[i] \in Nat /\ a[i] # 0
       /\ lb = Len(b) /\ DOMAIN b = 1..lb /\ \A i \in 1..lb : b[i] \in Nat /\ b[i] # 0
  BY DEF AllNames
<1>1. /\ la = Len(a) /\ DOMAIN a = 1..la /\ \A i \in 1..la : a[i] \in Nat /\ a[i] # 0
      /\ lb = Len(b) /\ DOMAIN b = 1..lb /\ \A i \in 1..lb : b[i] \in Nat /\ b[i] # 0
  OBVIOUS
<1>2. PICK n \in Nat :
        /\ n <= la /\ n < lb
        /\ \A i \in 1..n : a[i] = b[i]
        /\ n = la \/ a[n + 1] < b[n + 1]
  BY DEF Precedes
<1>. DEFINE d == n + 1
            here == {i \in DOMAIN a : CharacterAt(b, i) # a[i]}
            there == {i \in DOMAIN b : CharacterAt(a, i) # b[i]}
<1>3. d \in 1..lb /\ \A i \in Nat : i < d /\ i > 0 => i \in 1..n
  BY <1>1, <1>2
<1>4. \A i \in 1..n : CharacterAt(b, i) = a[i] /\ CharacterAt(a, i) = b[i]
  BY <1>1, <1>2 DEF CharacterAt
<1>5. CharacterAt(b, d) = b[d] /\ CharacterAt(a, d) < b[d] /\ CharacterAt(a, d) \in Nat
  BY <1>1, <1>2, <1>3 DEF CharacterAt
<1>6. Compare(b, a) > 0
  <2>1. there \in SUBSET Nat /\ d \in there
    BY <1>1, <1>3, <1>5
  <2>2. \A i \in there : d <= i
    BY <1>1, <1>2, <1>4
  <2>3. Min(there) = d
    <3>. HIDE DEF there, d
    <3>. QED BY <2>1, <2>2, LeastIsMin
  <2>4. Compare(b, a) = b[d] - CharacterAt(a, d)
    BY <2>1, <2>3 DEF Compare
  <2>5. b[d] \in Nat
    BY <1>1, <1>3
  <2>. HIDE DEF there, d
  <2>. QED BY <1>5, <2>4, <2>5
<1>7. CASE n = la
  <2>1. here = {}
    BY <1>1, <1>4, <1>7
  <2>2. Compare(a, b) = -1
    BY <1>2, <1>7, <2>1 DEF Compare
  <2>. QED BY <1>6, <2>2
<1>8. CASE n # la
  <2>1. d \in 1..la /\ CharacterAt(a, d) = a[d]
    BY <1>1, <1>2, <1>8 DEF CharacterAt
  <2>2. here \in SUBSET Nat /\ d \in here
    BY <1>1, <1>5, <2>1
  <2>3. \A i \in here : d <= i
    BY <1>1, <1>2, <1>4
  <2>4. Min(here) = d
    <3>. HIDE DEF here, d
    <3>. QED BY <2>2, <2>3, LeastIsMin
  <2>5. Compare(a, b) = a[d] - b[d]
    BY <1>5, <2>2, <2>4 DEF Compare
  <2>6. a[d] < b[d] /\ a[d] \in Nat /\ b[d] \in Nat
    BY <1>1, <1>3, <1>5, <2>1
  <2>. HIDE DEF here, d
  <2>. QED BY <1>6, <2>5, <2>6
<1>. QED BY <1>7, <1>8
\* The entries of a table have a name and a capture.
LEMMA TableEntries ==
  ASSUME NEW table, IsTable(table)
  PROVE  /\ Len(table) \in Nat /\ DOMAIN table = 1..Len(table)
         /\ \A k \in DOMAIN table : table[k].name \in AllNames /\ table[k].capture \in Captures \ {0}
<1>. DEFINE entries == [name : AllNames, capture : Captures \ {0}]
<1>1. table \in Seq(entries)
  BY DEF IsTable
<1>. HIDE DEF entries
<1>2. Len(table) \in Nat /\ DOMAIN table = 1..Len(table) /\ \A k \in DOMAIN table : table[k] \in entries
  BY <1>1
<1>3. \A e \in entries : e.name \in AllNames /\ e.capture \in Captures \ {0}
  BY DEF entries
<1>. QED BY <1>2, <1>3

\* The binary search hits an entry of the name, if the table has one.
LEMMA HitFinds ==
  ASSUME NEW table, IsTable(table), NEW name \in AllNames
  PROVE  /\ Hit(table, name) \in 0..Len(table)
         /\ Hit(table, name) = 0 => \A k \in DOMAIN table : table[k].name # name
         /\ Hit(table, name) # 0 => table[Hit(table, name)].name = name
<1>. DEFINE Within(n) == [bottom : 0..n, top : 0..n]
            Middle(r) == (r.top + r.bottom) \div 2
            Result(r) == Compare(name, table[Middle(r) + 1].name)
            Step(search, r) ==
              IF r.top <= r.bottom THEN 0
              ELSE IF Result(r) = 0 THEN Middle(r) + 1
              ELSE IF Result(r) > 0 THEN search[[r EXCEPT !.bottom = Middle(r) + 1]]
              ELSE search[[r EXCEPT !.top = Middle(r)]]
            Search(search, n) == search = [r \in Within(n) |-> Step(search, r)]
<1>. PICK n \in Nat : n = Len(table)
  BY DEF IsTable
<1>1. n = Len(table) /\ DOMAIN table = 1..n /\ \A k \in 1..n : table[k].name \in AllNames
  BY TableEntries
<1>. DEFINE search == CHOOSE search : Search(search, n)
<1>2. Hit(table, name) = search[[bottom |-> 0, top |-> n]]
  BY <1>1 DEF Hit
<1>3. ASSUME NEW r \in Within(n), r.bottom < r.top
      PROVE  /\ Middle(r) \in 0..n /\ Middle(r) + 1 \in 1..n
             /\ r.bottom <= Middle(r) /\ Middle(r) < r.top
             /\ [r EXCEPT !.bottom = Middle(r) + 1] \in Within(n)
             /\ [r EXCEPT !.top = Middle(r)] \in Within(n)
  <2>1. r.bottom \in 0..n /\ r.top \in 0..n
    OBVIOUS
  <2>2. /\ Middle(r) \in 0..n /\ Middle(r) + 1 \in 1..n
        /\ r.bottom <= Middle(r) /\ Middle(r) < r.top
    BY <1>3, <2>1
  <2>. HIDE DEF Middle
  <2>. QED BY <2>2
\* There is a function that satisfies the recursion.
<1>4. Search(search, n)
  <2>. DEFINE Upto(d, f) == \A r \in Within(n) : r.top - r.bottom <= d => f[r] = Step(f, r)
              P == {d \in Nat : \E f : Upto(d, f)}
  <2>1. 0 \in P
    <3>. DEFINE f == [r \in Within(n) |-> 0]
    <3>1. Upto(0, f)
      OBVIOUS
    <3>. QED BY <3>1
  <2>2. ASSUME NEW d \in Nat, d \in P PROVE d + 1 \in P
    <3>1. PICK f : Upto(d, f)
      BY <2>2
    <3>. DEFINE g == [r \in Within(n) |-> IF r.top - r.bottom <= d THEN f[r] ELSE Step(f, r)]
    <3>2. ASSUME NEW r \in Within(n) PROVE g[r] = Step(f, r)
      BY <3>1
    <3>3. ASSUME NEW r \in Within(n), r.top - r.bottom <= d + 1 PROVE Step(g, r) = Step(f, r)
      <4>1. CASE r.top <= r.bottom
        BY <4>1
      <4>2. CASE r.bottom < r.top
        <5>. DEFINE up == [r EXCEPT !.bottom = Middle(r) + 1]
                    down == [r EXCEPT !.top = Middle(r)]
        <5>1. /\ Middle(r) \in 0..n /\ r.bottom <= Middle(r) /\ Middle(r) < r.top
              /\ up \in Within(n) /\ down \in Within(n)
          BY <1>3, <4>2
        <5>2. /\ up.top = r.top /\ up.bottom = Middle(r) + 1
              /\ down.top = Middle(r) /\ down.bottom = r.bottom
          OBVIOUS
        <5>3. r.bottom \in Int /\ r.top \in Int
          OBVIOUS
        <5>. HIDE DEF Middle, up, down
        <5>4. up.top - up.bottom <= d /\ down.top - down.bottom <= d
          BY <3>3, <5>1, <5>2, <5>3
        <5>5. g[up] = f[up] /\ g[down] = f[down]
          BY <5>1, <5>4
        <5>. HIDE DEF Result, g
        <5>. QED BY <5>5 DEF up, down
      <4>3. r.bottom \in Int /\ r.top \in Int
        OBVIOUS
      <4>. HIDE DEF Step
      <4>. QED BY <4>1, <4>2, <4>3
    <3>4. Upto(d + 1, g)
      <4>. HIDE DEF g, Step
      <4>. QED BY <3>2, <3>3
    <3>. HIDE DEF g, Upto
    <3>. QED BY <3>4
  <2>3. Nat \subseteq P
    <3>. HIDE DEF P
    <3>. QED BY <2>1, <2>2, NatInduct
  <2>4. n \in P
    <3>. HIDE DEF P
    <3>. QED BY <2>3
  <2>5. PICK f : Upto(n, f)
    BY <2>4
  <2>6. \A r \in Within(n) : r.top - r.bottom <= n
    OBVIOUS
  <2>. DEFINE g == [r \in Within(n) |-> f[r]]
  <2>7. \A r \in Within(n) : f[r] = Step(f, r)
    <3>. HIDE DEF Step
    <3>. QED BY <2>5, <2>6
  <2>8. \A r \in Within(n) : Step(g, r) = Step(f, r)
    <3>. TAKE r \in Within(n)
    <3>1. CASE r.top <= r.bottom
      BY <3>1
    <3>2. CASE r.bottom < r.top
      <4>1. /\ [r EXCEPT !.bottom = Middle(r) + 1] \in Within(n)
            /\ [r EXCEPT !.top = Middle(r)] \in Within(n)
        BY <1>3, <3>2
      <4>. HIDE DEF Result, Middle
      <4>. QED BY <4>1
    <3>. QED BY <3>1, <3>2
  <2>9. Search(g, n)
    <3>. HIDE DEF Step
    <3>. QED BY <2>7, <2>8
  <2>. HIDE DEF Search, g
  <2>. QED BY <2>9
\* And every one that does finds the name between bottom and top.
<1>. HIDE DEF search
<1>5. \A r \in Within(n) : search[r] = Step(search, r)
  <2>. HIDE DEF Step
  <2>. QED BY <1>4
<1>6. ASSUME NEW m \in 1..n, NEW k \in 1..n, table[k].name = name
      PROVE  /\ Compare(name, table[m].name) \in Int
             /\ Compare(name, table[m].name) > 0 => k > m
             /\ Compare(name, table[m].name) < 0 => k < m
             /\ Compare(name, table[m].name) = 0 => table[m].name = name
  <2>1. table[m].name \in AllNames
    BY <1>1
  <2>2. /\ Compare(name, table[m].name) \in Int
        /\ Compare(name, table[m].name) = 0 <=> table[m].name = name
    BY <2>1, CompareIsZero
  <2>3. CASE k = m
    BY <1>6, <2>2, <2>3
  <2>4. CASE k < m
    <3>1. Precedes(name, table[m].name) \/ name = table[m].name
      BY <1>1, <1>6, <2>4 DEF IsTable
    <3>2. Compare(name, table[m].name) < 0 \/ name = table[m].name
      BY <2>1, <3>1, CompareInOrder
    <3>. QED BY <2>2, <2>4, <3>2
  <2>5. CASE k > m
    <3>1. Precedes(table[m].name, name) \/ name = table[m].name
      BY <1>1, <1>6, <2>5 DEF IsTable
    <3>2. Compare(name, table[m].name) > 0 \/ name = table[m].name
      BY <2>1, <3>1, CompareInOrder
    <3>. QED BY <2>2, <2>5, <3>2
  <2>. QED BY <2>3, <2>4, <2>5
<1>. DEFINE Right(r) ==
       /\ search[r] \in 0..n
       /\ search[r] = 0 => \A k \in 1..n : r.bottom < k /\ k <= r.top => table[k].name # name
       /\ search[r] # 0 => table[search[r]].name = name
            Q == {d \in Nat : \A r \in Within(n) : r.top - r.bottom <= d => Right(r)}
<1>7. \A r \in Within(n) : r.top <= r.bottom => Right(r)
  <2>. TAKE r \in Within(n)
  <2>. HAVE r.top <= r.bottom
  <2>1. search[r] = 0
    BY <1>5
  <2>. QED BY <2>1
<1>8. 0 \in Q
  <2>1. \A r \in Within(n) : r.top - r.bottom <= 0 => r.top <= r.bottom
    OBVIOUS
  <2>. HIDE DEF Right
  <2>. QED BY <1>7, <2>1
<1>9. ASSUME NEW d \in Nat, d \in Q PROVE d + 1 \in Q
  <2>. SUFFICES ASSUME NEW r \in Within(n), r.top - r.bottom <= d + 1
                PROVE  Right(r)
    OBVIOUS
  <2>1. CASE r.top <= r.bottom
    BY <1>7, <2>1
  <2>2. CASE r.bottom < r.top
    <3>. DEFINE up == [r EXCEPT !.bottom = Middle(r) + 1]
                down == [r EXCEPT !.top = Middle(r)]
                m == Middle(r)
    <3>1. /\ m \in 0..n /\ m + 1 \in 1..n /\ r.bottom <= m /\ m < r.top
          /\ up \in Within(n) /\ down \in Within(n)
      BY <1>3, <2>2
    <3>2. /\ up.top = r.top /\ up.bottom = m + 1
          /\ down.top = m /\ down.bottom = r.bottom
      OBVIOUS
    <3>3. r.bottom \in Int /\ r.top \in Int
      OBVIOUS
    <3>4. search[r] = IF Result(r) = 0 THEN m + 1 ELSE IF Result(r) > 0 THEN search[up] ELSE search[down]
      BY <1>5, <2>2, <3>3
    <3>. HIDE DEF up, down
    <3>5. up.top - up.bottom <= d /\ down.top - down.bottom <= d
      <4>. HIDE DEF m
      <4>. QED BY <3>1, <3>2, <3>3
    <3>6. Right(up) /\ Right(down)
      <4>. HIDE DEF Right
      <4>. QED BY <1>9, <3>1, <3>5
    <3>7. Result(r) \in Int /\ (Result(r) = 0 => table[m + 1].name = name)
      BY <1>1, <3>1, CompareIsZero
    <3>8. \A k \in 1..n : table[k].name = name =>
            /\ Result(r) > 0 => k > m + 1
            /\ Result(r) < 0 => k < m + 1
      BY <1>6, <3>1
    <3>. HIDE DEF Result, m
    <3>9. CASE Result(r) = 0
      BY <3>1, <3>4, <3>7, <3>9
    <3>10. CASE Result(r) > 0
      BY <3>1, <3>2, <3>3, <3>4, <3>6, <3>8, <3>10
    <3>11. CASE Result(r) < 0
      BY <3>1, <3>2, <3>3, <3>4, <3>6, <3>7, <3>8, <3>11
    <3>. QED BY <3>7, <3>9, <3>10, <3>11
  <2>. QED BY <2>1, <2>2
<1>10. Nat \subseteq Q
  <2>. HIDE DEF Q
  <2>. QED BY <1>8, <1>9, NatInduct
<1>. DEFINE all == [bottom |-> 0, top |-> n]
<1>11. all \in Within(n) /\ all.top - all.bottom <= n /\ all.bottom = 0 /\ all.top = n
  OBVIOUS
<1>12. n \in Q
  <2>. HIDE DEF Q
  <2>. QED BY <1>10
<1>13. Right(all)
  <2>. HIDE DEF Right, all
  <2>. QED BY <1>11, <1>12
<1>. QED BY <1>1, <1>2, <1>11, <1>13
\* The two bytes of a capture below 128 are read as that capture.
LEMMA SmallCapture ==
  ASSUME captureCount <= 128, NEW entry, entry.capture \in Captures
  PROVE  CaptureIndex(entry) = entry.capture
<1>1. entry.capture \in Nat /\ entry.capture < 128 /\ entry.capture < Word
  BY EnumeratorAssumption, NotFoundIsLarge, WordAssumption DEF Captures
<1>2. entry.capture \div 256 = 0 /\ entry.capture % 256 = entry.capture
  BY <1>1
<1>3. Signed(0) = 0 /\ Signed(entry.capture) = entry.capture
  BY <1>1 DEF Signed, Byte
<1>4. CaptureIndex(entry) = (0 * 256 + entry.capture) % Word
  BY <1>2, <1>3 DEF CaptureIndex, Byte
<1>. QED BY <1>1, <1>4, WordAssumption

\* The entries around the hit that have the name are all that have it.
LEMMA NamesakesAreAll ==
  ASSUME NEW table, IsTable(table), NEW name \in AllNames,
         NEW k \in DOMAIN table, table[k].name = name
  PROVE  /\ Hit(table, name) # 0
         /\ Namesakes(table, name) = {i \in DOMAIN table : table[i].name = name}
<1>. DEFINE hit == Hit(table, name)
<1>. PICK n \in Nat : n = Len(table)
  BY TableEntries
<1>1. n = Len(table) /\ DOMAIN table = 1..n /\ \A i \in 1..n : table[i].name \in AllNames
  BY TableEntries
<1>2. hit \in 1..n /\ table[hit].name = name
  BY <1>1, HitFinds
<1>. HIDE DEF hit
<1>3. ASSUME NEW i \in 1..n
      PROVE  /\ Min({i, hit}) = IF i <= hit THEN i ELSE hit
             /\ Max({i, hit}) = IF i <= hit THEN hit ELSE i
  <2>1. {i, hit} \in SUBSET Nat /\ {i, hit} \in SUBSET (0..n) /\ {i, hit} # {}
    BY <1>2
  <2>2. Min({i, hit}) \in {i, hit} /\ Min({i, hit}) <= i /\ Min({i, hit}) <= hit
    BY <2>1, MinIsLeast
  <2>3. Max({i, hit}) \in {i, hit} /\ i <= Max({i, hit}) /\ hit <= Max({i, hit})
    BY <2>1, MaxIsGreatest
  <2>4. i \in Int /\ hit \in Int
    BY <1>2
  <2>. QED BY <2>2, <2>3, <2>4
\* What lies between two entries of one name has that name.
<1>4. ASSUME NEW i \in 1..n, NEW j \in 1..n, NEW l \in 1..n, i <= j, j <= l,
             table[i].name = name, table[l].name = name
      PROVE  table[j].name = name
  <2>1. CASE i = j \/ j = l
    BY <1>4, <2>1
  <2>2. CASE i < j /\ j < l
    <3>1. Precedes(name, table[j].name) \/ table[j].name = name
      BY <1>1, <1>4, <2>2 DEF IsTable
    <3>2. Precedes(table[j].name, name) \/ table[j].name = name
      BY <1>1, <1>4, <2>2 DEF IsTable
    <3>3. table[j].name \in AllNames
      BY <1>1
    <3>4. Precedes(name, table[j].name) => Compare(name, table[j].name) < 0
      BY <3>3, CompareInOrder
    <3>5. Precedes(table[j].name, name) => Compare(name, table[j].name) > 0
      BY <3>3, CompareInOrder
    <3>6. Compare(name, table[j].name) \in Int
      BY <3>3, CompareIsZero
    <3>. QED BY <3>1, <3>2, <3>4, <3>5, <3>6
  <2>. QED BY <1>4, <2>1, <2>2
<1>5. ASSUME NEW i \in 1..n
      PROVE  i \in Namesakes(table, name) <=> table[i].name = name
  <2>1. i \in Namesakes(table, name) <=>
          \A j \in Min({i, hit})..Max({i, hit}) : table[j].name = name
    BY <1>1 DEF Namesakes, hit
  <2>2. i \in Min({i, hit})..Max({i, hit})
    BY <1>2, <1>3
  <2>3. ASSUME table[i].name = name, NEW j \in Min({i, hit})..Max({i, hit})
        PROVE  table[j].name = name
    <3>1. CASE i <= hit
      <4>1. j \in 1..n /\ i <= j /\ j <= hit
        BY <1>2, <1>3, <2>3, <3>1
      <4>. QED BY <1>2, <1>4, <2>3, <4>1
    <3>2. CASE ~(i <= hit)
      <4>1. j \in 1..n /\ hit <= j /\ j <= i
        BY <1>2, <1>3, <2>3, <3>2
      <4>. QED BY <1>2, <1>4, <2>3, <4>1
    <3>. QED BY <3>1, <3>2
  <2>. QED BY <2>1, <2>2, <2>3
<1>6. Namesakes(table, name) \subseteq DOMAIN table
  BY DEF Namesakes
<1>7. hit # 0
  BY <1>2
<1>. QED BY <1>1, <1>5, <1>6, <1>7 DEF hit

\* A regex has a table, and without duplicate names no two entries of one name.
LEMMA TableOf ==
  ASSUME NEW r \in Regexes
  PROVE  /\ IsTable(r.captureNameTable)
         /\ ~r.dupNames => \A i, j \in DOMAIN r.captureNameTable :
              r.captureNameTable[i].name = r.captureNameTable[j].name => i = j
<1>. DEFINE table == r.captureNameTable
<1>1. IsTable(table)
  BY NamesAssumption DEF IsTable, AllNames
<1>2. ASSUME NEW a \in AllNames PROVE ~Precedes(a, a)
  <2>1. Precedes(a, a) => Compare(a, a) < 0 /\ Compare(a, a) > 0
    BY CompareInOrder
  <2>2. Compare(a, a) \in Int
    BY CompareIsZero
  <2>. QED BY <2>1, <2>2
<1>3. ASSUME ~r.dupNames, NEW i \in DOMAIN table, NEW j \in DOMAIN table, i < j
      PROVE  table[i].name # table[j].name
  <2>1. Precedes(table[i].name, table[j].name)
    BY <1>3, NamesAssumption
  <2>2. table[i].name \in AllNames
    BY <1>1, TableEntries
  <2>. QED BY <1>2, <2>1, <2>2
<1>4. \A i \in DOMAIN table : i \in Int
  <2>1. DOMAIN table = 1..Len(table) /\ Len(table) \in Nat
    BY <1>1, TableEntries
  <2>. QED BY <2>1
<1>5. ASSUME ~r.dupNames, NEW i \in DOMAIN table, NEW j \in DOMAIN table,
             table[i].name = table[j].name, i # j
      PROVE  FALSE
  <2>1. i < j \/ j < i
    BY <1>4, <1>5
  <2>. QED BY <1>3, <1>5, <2>1
<1>. QED BY <1>1, <1>5

\* The walk over the entries of a name yields the first capture of it that is set.
LEMMA FirstOfName ==
  ASSUME captureCount <= 128,
         NEW r \in Regexes, NEW name \in AllNames, NEW capturesSet \in SUBSET Captures,
         NEW k \in DOMAIN r.captureNameTable,
         r.captureNameTable[k].name = name, r.captureNameTable[k].capture \in capturesSet
  PROVE  MatchedIndex(r.captureNameTable, r.dupNames, name, capturesSet) =
           Min({r.captureNameTable[i].capture : i \in
                  {i \in DOMAIN r.captureNameTable :
                     /\ r.captureNameTable[i].name = name
                     /\ r.captureNameTable[i].capture \in capturesSet}})
<1>. DEFINE table == r.captureNameTable
            hit == Hit(table, name)
            asked == IF r.dupNames THEN Namesakes(table, name) ELSE {hit}
            entries == {i \in DOMAIN table : table[i].name = name /\ table[i].capture \in capturesSet}
            captures == {table[i].capture : i \in entries}
            matching == {i \in asked : CaptureIndex(table[i]) \in capturesSet}
            down == {i \in matching : i <= hit}
            from == IF down # {} THEN down ELSE matching
<1>1. IsTable(table)
  BY TableOf
<1>2. Len(table) \in Nat /\ DOMAIN table = 1..Len(table) /\
      \A i \in DOMAIN table : table[i].name \in AllNames /\ table[i].capture \in Captures \ {0}
  BY <1>1, TableEntries
<1>3. \A i \in DOMAIN table : CaptureIndex(table[i]) = table[i].capture
  BY <1>2, SmallCapture
<1>4. asked = {i \in DOMAIN table : table[i].name = name}
  <2>1. CASE r.dupNames
    BY <1>1, <2>1, NamesakesAreAll
  <2>2. CASE ~r.dupNames
    <3>1. hit # 0 /\ hit \in 0..Len(table) /\ table[hit].name = name
      BY <1>1, NamesakesAreAll, HitFinds
    <3>2. hit \in DOMAIN table
      BY <1>2, <3>1
    <3>3. \A i \in DOMAIN table : table[i].name = name => i = hit
      BY <2>2, <3>1, <3>2, TableOf
    <3>. HIDE DEF hit, table
    <3>. QED BY <2>2, <3>1, <3>2, <3>3
  <2>. QED BY <2>1, <2>2
<1>5. matching = entries
  BY <1>3, <1>4
<1>6. entries \in SUBSET Nat /\ k \in entries
  BY <1>2
<1>7. MatchedIndex(table, r.dupNames, name, capturesSet) = CaptureIndex(table[Min(from)])
  <2>1. matching # {}
    BY <1>5, <1>6
  <2>. QED BY <2>1 DEF MatchedIndex
<1>. DEFINE m == Min(entries)
<1>8. m \in entries /\ \A i \in entries : m <= i
  <2>. HIDE DEF entries
  <2>. QED BY <1>6, MinIsLeast
<1>9. Min(from) = m
  <2>1. from \in SUBSET Nat /\ \A i \in from : m <= i
    <3>1. \A i \in from : i \in entries
      BY <1>5
    <3>. HIDE DEF from, entries, m
    <3>. QED BY <1>6, <1>8, <3>1
  <2>2. m \in from
    <3>. HIDE DEF entries, matching, m
    <3>1. CASE down = {}
      BY <1>5, <1>8, <3>1
    <3>2. CASE down # {}
      <4>1. PICK d \in down : TRUE
        BY <3>2
      <4>2. d \in entries /\ d <= hit
        BY <1>5
      <4>3. hit \in Int /\ d \in Int /\ m \in Int
        BY <1>1, <1>6, <1>8, <4>2, HitFinds
      <4>4. m <= hit
        BY <1>8, <4>2, <4>3
      <4>. QED BY <1>5, <1>8, <3>2, <4>4
    <3>. QED BY <3>1, <3>2
  <2>. HIDE DEF from, m
  <2>. QED BY <2>1, <2>2, LeastIsMin
<1>10. Min(captures) = table[m].capture
  <2>1. \A x \in Captures : x \in Nat
    BY EnumeratorAssumption DEF Captures
  <2>2. captures \in SUBSET Nat /\ table[m].capture \in captures
    BY <1>2, <1>8, <2>1
  <2>3. ASSUME NEW i \in entries PROVE table[m].capture <= table[i].capture
    <3>1. /\ i \in DOMAIN table /\ m \in DOMAIN table /\ i \in Int /\ m \in Int
          /\ table[i].name = name /\ table[m].name = name
      BY <1>2, <1>8
    <3>2. table[i].capture \in Nat /\ table[m].capture \in Nat
      BY <1>2, <2>1, <3>1
    <3>3. CASE m = i
      <4>1. table[m].capture = table[i].capture
        BY <3>3
      <4>. HIDE DEF m, table
      <4>. QED BY <3>2, <4>1
    <3>4. CASE m # i
      <4>1. m < i
        BY <1>8, <3>1, <3>4
      <4>2. ~Precedes(name, name)
        <5>1. Precedes(name, name) => Compare(name, name) < 0 /\ Compare(name, name) > 0
          BY CompareInOrder
        <5>2. Compare(name, name) \in Int
          BY CompareIsZero
        <5>. QED BY <5>1, <5>2
      <4>3. table[m].capture < table[i].capture
        BY <1>1, <3>1, <4>1, <4>2 DEF IsTable
      <4>. QED BY <3>2, <4>3
    <3>. QED BY <3>3, <3>4
  <2>4. \A x \in captures : table[m].capture <= x
    BY <2>3
  <2>. HIDE DEF captures, m, table
  <2>. QED BY <2>2, <2>4, LeastIsMin
<1>11. m \in DOMAIN table
  BY <1>8
<1>. QED BY <1>3, <1>7, <1>9, <1>10, <1>11
\* For a regex whose captures are below 128, where the sign of the bytes does not
\* matter, the binary search and the walk over the entries of one name find the
\* range of the first capture of that name that is set, and a name no capture has
\* raises, for every table PCRE can make.
THEOREM NamedRangeCorrect ==
  ASSUME captureCount <= 128
  PROVE  Spec => []NamedRange
<1>1. ASSUME IInv PROVE NamedRange
  <2>. SUFFICES ASSUME HasMatch, NEW name \in Names,
                       NEW named, named =
                         {entry.capture : entry \in
                           {regex.captureNameTable[k] : k \in
                              {k \in DOMAIN regex.captureNameTable :
                                 regex.captureNameTable[k].name = name}}},
                       NEW set, set = {x \in named : matched[x] # None}
                PROVE  /\ named = {} => currentRangeForCaptureName(name) = Raises
                       /\ set # {} => currentRangeForCaptureName(name) = currentRangeForCapture(Min(set))
    BY DEF NamedRange
  <2>. DEFINE table == regex.captureNameTable
              capturesSet == {x \in Captures : resultUTF8Ranges[x].location # NSNotFound}
              entries == {k \in DOMAIN table : table[k].name = name /\ table[k].capture \in capturesSet}
              captureIndex == MatchedIndex(table, regex.dupNames, name, capturesSet)
  <2>1. regex \in Regexes /\ string \in Strings /\ name \in AllNames
    BY <1>1, NamesAssumption DEF IInv, Inputs, AllNames
  <2>2. /\ matched \in Matches /\ ByteLength(string) <= INT_MAX
        /\ \A x \in Captures : resultUTF8Ranges[x] = ByteRange(matched[x])
    BY <1>1 DEF IInv, AtMatch, RangesAgree, Between, ByteRange
  <2>3. \A x \in Captures : x \in capturesSet <=> matched[x] # None
    <3>. TAKE x \in Captures
    <3>1. CASE matched[x] = None
      BY <2>2, <3>1, NotFoundIsLarge DEF ByteRange
    <3>2. CASE matched[x] # None
      <4>1. matched[x].first \in Steps(string) /\ matched[x].last \in Steps(string)
        BY <2>1, <2>2, <3>2, SpansOf
      <4>2. /\ Bytes(string, matched[x].first) \in 0..(Word - 1)
            /\ Bytes(string, matched[x].first) < NSNotFound
            /\ Bytes(string, matched[x].last) \in 0..(Word - 1)
        BY <2>1, <2>2, <4>1, OffsetsAreWords
      <4>3. resultUTF8Ranges[x].location = Bytes(string, matched[x].first)
        BY <2>2, <3>2, <4>2, RangeOfWords DEF ByteRange
      <4>4. NSNotFound \in Int /\ Bytes(string, matched[x].first) \in Int
        BY <4>2, NotFoundIsLarge
      <4>5. resultUTF8Ranges[x].location # NSNotFound
        BY <4>2, <4>3, <4>4
      <4>. QED BY <3>2, <4>5
    <3>. QED BY <3>1, <3>2
  <2>4. IsTable(table) /\ DOMAIN table = 1..Len(table) /\ Len(table) \in Nat
    BY <2>1, TableOf, TableEntries
  <2>5. named = {table[k].capture : k \in {k \in DOMAIN table : table[k].name = name}}
    OBVIOUS
  <2>6. ASSUME named = {} PROVE currentRangeForCaptureName(name) = Raises
    <3>1. \A k \in DOMAIN table : table[k].name # name
      BY <2>5, <2>6
    <3>2. Hit(table, name) = 0
      <4>1. Hit(table, name) # 0 => Hit(table, name) \in DOMAIN table /\ table[Hit(table, name)].name = name
        BY <2>1, <2>4, HitFinds
      <4>. QED BY <3>1, <4>1
    <3>3. ~isValidCaptureName(table, name)
      BY <3>2 DEF isValidCaptureName
    <3>. QED BY <3>3 DEF currentRangeForCaptureName, HasMatch
  <2>7. ASSUME set # {} PROVE currentRangeForCaptureName(name) = currentRangeForCapture(Min(set))
    <3>1. \A k \in DOMAIN table : table[k].capture \in Captures
      BY <2>4, TableEntries
    <3>2. set = {table[k].capture : k \in entries}
      <4>1. ASSUME NEW x \in set PROVE x \in {table[k].capture : k \in entries}
        <5>1. PICK k \in DOMAIN table : table[k].name = name /\ x = table[k].capture
          BY <2>5
        <5>2. x \in capturesSet
          BY <2>3, <3>1, <5>1
        <5>. QED BY <5>1, <5>2
      <4>2. ASSUME NEW k \in entries PROVE table[k].capture \in set
        <5>1. table[k].capture \in named
          BY <2>5
        <5>2. matched[table[k].capture] # None
          BY <2>3, <3>1
        <5>. QED BY <5>1, <5>2
      <4>. HIDE DEF entries, table
      <4>. QED BY <4>1, <4>2
    <3>3. PICK k \in DOMAIN table : table[k].name = name /\ table[k].capture \in capturesSet
      BY <2>7, <3>2
    <3>4. captureIndex = Min({table[i].capture : i \in
                  {i \in DOMAIN table :
                     /\ table[i].name = name
                     /\ table[i].capture \in capturesSet}})
      <4>1. capturesSet \in SUBSET Captures
        OBVIOUS
      <4>. HIDE DEF capturesSet
      <4>. QED BY <2>1, <3>3, <4>1, FirstOfName
    <3>5. captureIndex = Min(set)
      BY <3>2, <3>4
    <3>6. \A x \in set : x \in Captures /\ x \in Nat /\ x < captureCount
      <4>1. \A x \in set : x \in Captures
        BY <3>1, <3>2
      <4>2. \A x \in Captures : x \in Nat /\ x < captureCount
        BY EnumeratorAssumption DEF Captures
      <4>. QED BY <4>1, <4>2
    <3>7. Min(set) \in set
      BY <2>7, <3>6, MinIsLeast
    <3>8. Min(set) \in Captures /\ ~(Min(set) >= captureCount)
      <4>1. captureCount \in Int
        BY EnumeratorAssumption
      <4>. QED BY <3>6, <3>7, <4>1
    <3>9. isValidCaptureName(table, name)
      BY <2>1, <2>4, <3>3, NamesakesAreAll DEF isValidCaptureName
    <3>. HIDE DEF captureIndex
    <3>10. currentRangeForCaptureName(name) = resultUTF16Ranges[Min(set)]
      BY <3>5, <3>8, <3>9 DEF currentRangeForCaptureName, captureIndex, HasMatch
    <3>. QED BY <3>8, <3>10 DEF currentRangeForCapture, HasMatch
  <2>. QED BY <2>6, <2>7
<1>. QED BY Invariance, <1>1, PTL

===============================================================================
