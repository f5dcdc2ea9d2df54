----------------------------- MODULE RKEnumerator -----------------------------
(***************************************************************************)
(* An RKEnumerator: the cursor over the matches of one regex in a range of *)
(* a string, which keeps the ranges of the captures in bytes, as PCRE      *)
(* counts, and in UTF-16 units, as its users do.  With it the low level    *)
(* getRanges:count:withCharacters:... of RKRegex.m, which turns the pairs  *)
(* of ints that pcre_exec leaves in a buffer into NSRanges in the same     *)
(* buffer, four ints each.                                                 *)
(*                                                                         *)
(* pcre_exec answers anything that begins at or behind where it is told to *)
(* start.  The regex is compiled for UTF-8, as the enumerator does, and    *)
(* has no look-around: captures lie inside the match.                      *)
(***************************************************************************)
EXTENDS RKCaptureNames

CONSTANTS
  Strings,       \* the string buffers
  Regexes,       \* [captureNameTable, dupNames] of the regexes
  Names,         \* the capture names asked for
  InitRanges,    \* the ranges an enumerator is asked for
  captureCount,  \* regexCaptureCount, the match included
  INT_MAX,
  None           \* no buffer; a capture that is not set

Captures == 0..(captureCount - 1)

ASSUME EnumeratorAssumption ==
  /\ INT_MAX \in Nat
  /\ INT_MAX < NSNotFound
  /\ captureCount \in 1..INT_MAX
  /\ None \notin [first : Nat, last : Nat]

ASSUME StringsAssumption == \A s \in Strings :
  /\ s.characters \in Seq(1..4)
  /\ s.encoding = "ASCII" => \A k \in DOMAIN s.characters : s.characters[k] = 1

ASSUME RangesAssumption ==
  InitRanges \subseteq [location : 0..(Word - 1), length : 0..(Word - 1)]

\* The order PCRE sorts a table in: at the first difference, or where name ends.
Precedes(name, other) == \E n \in 0..Len(name) :
  /\ n < Len(other)
  /\ \A i \in 1..n : name[i] = other[i]
  /\ n = Len(name) \/ name[n + 1] < other[n + 1]

\* The captures of one name are in the order of their numbers.
ASSUME NamesAssumption ==
  /\ Names \subseteq Seq(Nat \ {0})
  /\ \A r \in Regexes :
       LET table == r.captureNameTable IN
       /\ table \in Seq([name : Seq(Nat \ {0}), capture : Captures \ {0}])
       /\ \A i, j \in DOMAIN table : i < j =>
            \/ Precedes(table[i].name, table[j].name)
            \/ /\ r.dupNames
               /\ table[i].name = table[j].name
               /\ table[i].capture < table[j].capture

VARIABLES
  state,              \* "new", "ready", "raised" or "dead"
  regex, string, initRange,
  searchByteRange,
  atBufferLocation,
  hasPerformedMatch,
  resultUTF8Ranges, resultUTF16Ranges,
  matched             \* what pcre_exec last matched, in characters

arguments == <<regex, string, initRange, searchByteRange>>
results == <<resultUTF8Ranges, resultUTF16Ranges, matched>>
vars == <<state, arguments, atBufferLocation, hasPerformedMatch, results>>

NoRanges == [x \in Captures |-> NotFound]

Init ==
  /\ state = "new"
  /\ regex \in Regexes
  /\ string \in Strings
  /\ initRange \in InitRanges
  /\ searchByteRange = NotFound
  /\ atBufferLocation = 0
  /\ hasPerformedMatch = FALSE
  /\ resultUTF8Ranges = None
  /\ resultUTF16Ranges = None
  /\ matched = None

-------------------------------------------------------------------------------
\* initWithRegex:string:inRange:

\* What raises in RKutf16to8 or behind it.
InitRaises ==
  InString(initRange, Length(string)) =>
    LET r == RKutf16to8(string, initRange)
    IN  ByteLength(string) < r.location \/ ByteLength(string) < NSMaxRange(r)

InitWithRegex ==
  /\ state = "new"
  /\ ~InitRaises
  /\ state' = "ready"
  /\ searchByteRange' = RKutf16to8(string, initRange)
  /\ atBufferLocation' = searchByteRange'.location
  /\ resultUTF8Ranges' = NoRanges
  /\ resultUTF16Ranges' = NoRanges
  /\ UNCHANGED <<regex, string, initRange, hasPerformedMatch, matched>>

InitFails ==
  /\ state = "new"
  /\ InitRaises
  /\ state' = "raised"
  /\ UNCHANGED <<arguments, atBufferLocation, hasPerformedMatch, results>>

-------------------------------------------------------------------------------
\* getRanges:count:withCharacters:length:inRange:options:error:

Spans(from, to) == {span \in [first : from..to, last : from..to] : span.first <= span.last}

\* How many pairs pcre_exec returns: up to the last capture that is set.
ReturnCode(match) == 1 + Max({x \in Captures : match[x] # None})

\* What pcre_exec leaves in the buffer; behind its result are its workspace
\* and what was there before, here any other number.
Vectors(match) ==
  [word \in 0..(4 * captureCount - 1) |->
     LET x == word \div 2 IN
     IF x >= ReturnCode(match) THEN INT_MAX
     ELSE IF match[x] = None THEN -1
     ELSE Bytes(string, IF word % 2 = 0 THEN match[x].first ELSE match[x].last)]

Load(memory, x) == [location |-> memory[4 * x], length |-> memory[4 * x + 2]]
Store(memory, x, r) ==
  [memory EXCEPT ![4 * x] = r.location, ![4 * x + 1] = 0,
                 ![4 * x + 2] = r.length, ![4 * x + 3] = 0]

Converted(memory, x) ==
  IF memory[2 * x] = -1 THEN NotFound
  ELSE NSMakeRange(memory[2 * x], memory[2 * x + 1] - memory[2 * x])

\* Mutant: from the first to the last.
ConvertForward(memory, count) ==
  LET done[x \in 0..count] ==
        IF x = 0 THEN memory
        ELSE LET before == done[x - 1] IN Store(before, x - 1, Converted(before, x - 1))
  IN  done[count]

\* "we -=MUST=- start at the tail/last/end result"
Convert(memory, count) ==
  LET done[x \in 0..count] ==
        IF x = count THEN memory
        ELSE LET before == done[x + 1] IN Store(before, x, Converted(before, x))
  IN  done[0]

ResultRanges(match) ==
  LET memory == Convert(Vectors(match), ReturnCode(match)) IN
  [x \in Captures |-> IF x < ReturnCode(match) THEN Load(memory, x) ELSE NotFound]

\* The arguments for which it raises.
MatchRaises(searchRange) ==
  \/ ByteLength(string) < searchRange.location
  \/ ByteLength(string) < NSMaxRange(searchRange)
  \/ searchRange.location > INT_MAX
  \/ searchRange.length > INT_MAX
  \/ ByteLength(string) > INT_MAX

-------------------------------------------------------------------------------
\* _updateToNextMatch, behind every method that begins with next.  If matching
\* raises, nothing has changed.

SearchRange ==
  NSMakeRange(atBufferLocation, NSMaxRange(searchByteRange) - atBufferLocation)

CanSearch ==
  /\ state = "ready"
  /\ atBufferLocation # NSNotFound
  /\ ~MatchRaises(SearchRange)

\* Mutant: the start of the range is all that is asked for.
AdmissibleAnywhere(whole) == TRUE

\* A match that ends behind the range is none.
Admissible(whole) == Bytes(string, whole.last) <= NSMaxRange(SearchRange)

Update(match) ==
  LET ranges == ResultRanges(match) IN
  /\ matched' = match
  /\ resultUTF8Ranges' = ranges
  /\ atBufferLocation' = NSMaxRange(ranges[0])
  /\ resultUTF16Ranges' = [x \in Captures |-> RKutf8to16(string, ranges[x])]

NextMatch ==
  /\ CanSearch
  /\ \E whole \in Spans(0, Len(string.characters)) :
       /\ Bytes(string, whole.first) >= atBufferLocation
       /\ Admissible(whole)
       /\ \E groups \in [Captures \ {0} -> Spans(whole.first, whole.last) \cup {None}] :
            LET match == [x \in Captures |-> IF x = 0 THEN whole ELSE groups[x]] IN
            Update(match)
  /\ hasPerformedMatch' = TRUE
  /\ UNCHANGED <<state, arguments>>

\* releaseAllResources
Release ==
  /\ resultUTF8Ranges' = None
  /\ resultUTF16Ranges' = None
  /\ matched' = None
  /\ atBufferLocation' = NSNotFound

\* No match, one that is not admissible, or an error of PCRE.
NoMoreMatches ==
  /\ CanSearch
  /\ Release
  /\ hasPerformedMatch' = TRUE
  /\ UNCHANGED <<state, arguments>>

Dealloc ==
  /\ state = "ready"
  /\ state' = "dead"
  /\ Release
  /\ UNCHANGED <<arguments, hasPerformedMatch>>

Next == InitWithRegex \/ InitFails \/ NextMatch \/ NoMoreMatches \/ Dealloc

Spec == Init /\ [][Next]_vars

-------------------------------------------------------------------------------
\* The methods that begin with current.  Raises is an exception, None a read
\* outside the buffer of results.
Raises == [exception |-> "NSInvalidArgumentException"]

HasMatch == atBufferLocation # NSNotFound /\ hasPerformedMatch

currentRangeForCapture(capture) ==
  IF atBufferLocation = NSNotFound THEN NotFound
  ELSE IF ~hasPerformedMatch \/ capture >= captureCount THEN Raises
  ELSE resultUTF16Ranges[capture]

currentRangeForCaptureName(name) ==
  LET table == regex.captureNameTable
      capturesSet == {x \in Captures : resultUTF8Ranges[x].location # NSNotFound}
      captureIndex == MatchedIndex(table, regex.dupNames, name, capturesSet)
  IN  IF atBufferLocation = NSNotFound THEN NotFound
      ELSE IF ~hasPerformedMatch \/ ~isValidCaptureName(table, name) THEN Raises
      ELSE IF captureIndex \in Captures THEN resultUTF16Ranges[captureIndex] ELSE None

-------------------------------------------------------------------------------
\* The values each variable may have.
TypeOK ==
  LET Words == 0..(Word - 1)
      Ranges == [location : Words, length : Words]
      Buffers == [Captures -> Ranges] \cup {None}
      Places == 0..Len(string.characters)
  IN  /\ state \in {"new", "ready", "raised", "dead"}
      /\ searchByteRange \in Ranges
      /\ atBufferLocation \in Words
      /\ hasPerformedMatch \in BOOLEAN
      /\ resultUTF8Ranges \in Buffers
      /\ resultUTF16Ranges \in Buffers
      /\ matched \in [Captures -> [first : Places, last : Places] \cup {None}] \cup {None}

Between(offset(_), span) ==
  IF span = None THEN NotFound
  ELSE NSMakeRange(offset(span.first), offset(span.last) - offset(span.first))

\* Both sets of ranges are those of the captures PCRE matched, in the units each
\* is kept in: neither the conversion in place (RKRegex.m:1157) nor the walk
\* over the characters (RKUnicode.m:109) mixes them up.
RangesAgree ==
  LET bytes(i) == Bytes(string, i)
      units(i) == UTF16(string, i)
  IN  HasMatch => \A x \in Captures :
        /\ resultUTF8Ranges[x] = Between(bytes, matched[x])
        /\ resultUTF16Ranges[x] = Between(units, matched[x])

\* A match begins at or behind the end of the one before it (RKEnumerator.m:330)
\* and all its characters begin inside the range the enumerator was made for, in
\* the units its user counts in.
MatchesInOrder ==
  [][HasMatch' =>
       LET match == matched'[0] IN
       /\ HasMatch /\ matched' # matched => match.first >= matched[0].last
       /\ UTF16(string, match.first) >= initRange.location
       /\ match.first < match.last =>
            UTF16(string, match.last - 1) < NSMaxRange(initRange)]_vars

\* RKRegex.h, line 294: "The first capture index that matched in matchedRanges for
\* captureNameString".  The binary search and the walk over the entries of one
\* name find the range of the first capture of that name that is set, and a name
\* that no capture has raises.
NamedRange ==
  HasMatch => \A name \in Names :
    LET named == {entry.capture : entry \in
                    {regex.captureNameTable[k] : k \in
                       {k \in DOMAIN regex.captureNameTable :
                          regex.captureNameTable[k].name = name}}}
        set == {x \in named : matched[x] # None}
    IN  /\ named = {} => currentRangeForCaptureName(name) = Raises
        /\ set # {} => currentRangeForCaptureName(name) = currentRangeForCapture(Min(set))
===============================================================================
