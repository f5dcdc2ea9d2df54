---------------------------- MODULE RKCaptureNames ----------------------------
(***************************************************************************)
(* RKCaptureIndexForCaptureNameCharactersWithError (RKRegex.m): the search *)
(* for a capture name in the table PCRE made, a sequence of entries sorted *)
(* by name and, under one name, by capture, of which there may be several  *)
(* if the regex allows duplicate names.  A name is a sequence of           *)
(* characters 1, 2, ...; the 0 that ends it in the table is not shown.     *)
(***************************************************************************)
EXTENDS RKUnicode

\* The two bytes of a capture in an entry, which are of the type char.
Byte == 256
Signed(b) == IF b >= Byte \div 2 THEN b - Byte ELSE b
CaptureIndex(entry) ==
  (Signed(entry.capture \div Byte) * Byte + Signed(entry.capture % Byte)) % Word

\* A name as strncmp reads it.
CharacterAt(name, i) == IF i <= Len(name) THEN name[i] ELSE 0

\* Mutant: an entry the name is a prefix of is taken for the name.
ComparePrefix(name, entryName) ==
  LET differ == {i \in DOMAIN name : CharacterAt(entryName, i) # name[i]} IN
  IF differ # {} THEN name[Min(differ)] - CharacterAt(entryName, Min(differ)) ELSE 0

\* strncmp over the length of the name; an entry that goes on is greater.
Compare(name, entryName) ==
  LET differ == {i \in DOMAIN name : CharacterAt(entryName, i) # name[i]} IN
  IF differ # {} THEN name[Min(differ)] - CharacterAt(entryName, Min(differ))
  ELSE IF Len(entryName) > Len(name) THEN -1 ELSE 0

\* Where the binary search hits the table; 0 if the name is not in it.
Hit(table, name) ==
  LET search[r \in [bottom : 0..Len(table), top : 0..Len(table)]] ==
        LET middle == (r.top + r.bottom) \div 2
            compareResult == Compare(name, table[middle + 1].name)
        IN  IF r.top <= r.bottom THEN 0
            ELSE IF compareResult = 0 THEN middle + 1
            ELSE IF compareResult > 0 THEN search[[r EXCEPT !.bottom = middle + 1]]
            ELSE search[[r EXCEPT !.top = middle]]
  IN  search[[bottom |-> 0, top |-> Len(table)]]

isValidCaptureName(table, name) == Hit(table, name) # 0

\* The entries around the hit that have the name.
Namesakes(table, name) ==
  LET hit == Hit(table, name) IN
  {k \in DOMAIN table : \A j \in Min({k, hit})..Max({k, hit}) : table[j].name = name}

\* captureIndexForCaptureName:inMatchedRanges: of a valid name.  From the hit
\* the code goes down to the first namesake, then up to the last.
MatchedIndex(table, dupNames, name, capturesSet) ==
  LET hit == Hit(table, name)
      asked == IF dupNames THEN Namesakes(table, name) ELSE {hit}
      matched == {k \in asked : CaptureIndex(table[k]) \in capturesSet}
      down == {k \in matched : k <= hit}
  IN  IF matched = {} THEN NSNotFound
      ELSE CaptureIndex(table[Min(IF down # {} THEN down ELSE matched)])
===============================================================================
